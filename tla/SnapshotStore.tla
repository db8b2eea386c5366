--------------------------- MODULE SnapshotStore ---------------------------
(***************************************************************************)
(* The snapshot store of figstash-store, shared by the CLI processes that  *)
(* write it: `snapshot pull` (app.rs: snapshot_pull, download_and_commit;  *)
(* catalog.rs: try_lock, commit_snapshot) and `cache prune --execute`      *)
(* (catalog.rs: execute_prune, prune_plan, unreferenced_after).            *)
(*                                                                         *)
(* The processes share three things: the SQLite catalog (rows and HEADs),  *)
(* the directory of content-addressed blob files, which no transaction     *)
(* covers, and the advisory writer lock of each lineage, which pull takes  *)
(* and prune does not.  A process may fail with an error or crash between  *)
(* any two steps.                                                          *)
(*                                                                         *)
(* A lineage is a (file key, request profile) pair.  A content is what one *)
(* Figma response carries: a version and its bytes.  A snapshot id is the  *)
(* hash of both, so it is the pair <<lineage, content>>.                   *)
(***************************************************************************)
EXTENDS FiniteSets

CONSTANTS
    Procs,      \* the CLI processes
    Lineages,   \* (file key, request profile) pairs
    Contents,   \* the responses Figma may give
    Blob,       \* hashes of blob files
    Raw,        \* the blob of the whole response of a content
    Parts,      \* the blobs of its nodes, styles, components, component sets
    None        \* the absence of a process, lineage, content or snapshot

SnapshotId == Lineages \X Contents

ASSUME RawAssumption == Raw \in [Contents -> Blob]
ASSUME PartsAssumption == Parts \in [Contents -> SUBSET Blob]
ASSUME NoneAssumption ==
    /\ None \notin Procs
    /\ None \notin Lineages
    /\ None \notin Contents
    /\ None \notin SnapshotId

VARIABLES
    snapshots,  \* ids of the committed rows of table snapshots
    heads,      \* table heads: the current snapshot of a lineage, or None
    blobs,      \* blob files on disk
    lock,       \* holder of the writer lock of a lineage, or None
    writer,     \* process whose SQLite transaction holds the write lock
    pc,         \* what a process does next
    lineage,    \* the lineage a pull works on
    explicit,   \* the pull was given --force or --version
    existing,   \* what resolve_snapshot told the pull about HEAD
    content,    \* the response the pull downloaded
    todo,       \* blobs a pull still has to put, or a prune to remove
    planned,    \* snapshot rows a prune read, then the ids it will delete
    retained    \* raw blobs of the rows a prune means to keep

store == <<snapshots, heads, blobs>>
locks == <<lock, writer>>
pullVars == <<lineage, explicit, existing, content>>
planVars == <<planned, retained>>
vars == <<store, locks, pc, pullVars, todo, planVars>>

(***************************************************************************)
(* A pull is at one of PullPC, a prune at one of PrunePC.  A process that  *)
(* runs no command is "idle" (it never did, or it crashed), "ok" or        *)
(* "failed" (how its last command ended).                                  *)
(***************************************************************************)
PullPC == {"head", "row", "request", "raw", "begin", "index", "confirm"}
PrunePC == {"rows", "heads", "raws", "parts", "delete", "unlink"}
RestPC == {"idle", "ok", "failed"}

Running(p) == pc[p] \notin RestPC

RawBlobs(S) == {Raw[s[2]] : s \in S}
PartBlobs(S) == UNION {Parts[s[2]] : s \in S}
Referenced(S) == RawBlobs(S) \union PartBlobs(S)

\* The id commit_snapshot computes for what process p downloaded.
Target(p) == <<lineage[p], content[p]>>

TypeOK ==
    /\ snapshots \subseteq SnapshotId
    /\ heads \in [Lineages -> SnapshotId \union {None}]
    /\ blobs \subseteq Blob
    /\ lock \in [Lineages -> Procs \union {None}]
    /\ writer \in Procs \union {None}
    /\ pc \in [Procs -> PullPC \union PrunePC \union RestPC]
    /\ lineage \in [Procs -> Lineages \union {None}]
    /\ explicit \in [Procs -> BOOLEAN]
    /\ existing \in [Procs -> SnapshotId \union {None}]
    /\ content \in [Procs -> Contents \union {None}]
    /\ todo \in [Procs -> SUBSET Blob]
    /\ planned \in [Procs -> SUBSET SnapshotId]
    /\ retained \in [Procs -> SUBSET Blob]

Init ==
    /\ snapshots = {}
    /\ heads = [l \in Lineages |-> None]
    /\ blobs = {}
    /\ lock = [l \in Lineages |-> None]
    /\ writer = None
    /\ pc = [p \in Procs |-> "idle"]
    /\ lineage = [p \in Procs |-> None]
    /\ explicit = [p \in Procs |-> FALSE]
    /\ existing = [p \in Procs |-> None]
    /\ content = [p \in Procs |-> None]
    /\ todo = [p \in Procs |-> {}]
    /\ planned = [p \in Procs |-> {}]
    /\ retained = [p \in Procs |-> {}]

GoTo(p, there) == pc' = [pc EXCEPT ![p] = there]

\* The process ends its command: the locks are dropped, an open transaction
\* is rolled back (its writes are not visible before the commit step), and
\* its locals are gone.
End(p, outcome) ==
    /\ GoTo(p, outcome)
    /\ lock' = [l \in Lineages |-> IF lock[l] = p THEN None ELSE lock[l]]
    /\ writer' = IF writer = p THEN None ELSE writer
    /\ lineage' = [lineage EXCEPT ![p] = None]
    /\ explicit' = [explicit EXCEPT ![p] = FALSE]
    /\ existing' = [existing EXCEPT ![p] = None]
    /\ content' = [content EXCEPT ![p] = None]
    /\ todo' = [todo EXCEPT ![p] = {}]
    /\ planned' = [planned EXCEPT ![p] = {}]
    /\ retained' = [retained EXCEPT ![p] = {}]

-----------------------------------------------------------------------------
(***************************************************************************)
(* snapshot pull                                                           *)
(***************************************************************************)

\* Variant: the lock file is opened but the flock not checked.
TryLockIgnored(p, l, e) ==
    /\ ~Running(p)
    /\ lock' = [lock EXCEPT ![l] = p]
    /\ lineage' = [lineage EXCEPT ![p] = l]
    /\ explicit' = [explicit EXCEPT ![p] = e]
    /\ GoTo(p, "head")
    /\ UNCHANGED <<store, writer, existing, content, todo, planVars>>

\* try_lock: the flock is not waited for.
TryLock(p, l, e) ==
    /\ ~Running(p)
    /\ lock[l] = None
    /\ lock' = [lock EXCEPT ![l] = p]
    /\ lineage' = [lineage EXCEPT ![p] = l]
    /\ explicit' = [explicit EXCEPT ![p] = e]
    /\ GoTo(p, "head")
    /\ UNCHANGED <<store, writer, existing, content, todo, planVars>>

StoreBusy(p, l) ==
    /\ ~Running(p)
    /\ lock[l] # None
    /\ GoTo(p, "failed")
    /\ UNCHANGED <<store, locks, pullVars, todo, planVars>>

\* resolve_snapshot without an id reads the HEAD of the lineage ...
ReadHead(p) ==
    /\ pc[p] = "head"
    /\ existing' = [existing EXCEPT ![p] = heads[lineage[p]]]
    /\ GoTo(p, "row")
    /\ UNCHANGED <<store, locks, lineage, explicit, content, todo, planVars>>

\* ... and then, in a second read, the row HEAD names.  A row that is not
\* there is reported like a HEAD that is not there.
Resolved(p) == IF existing[p] \in snapshots THEN existing[p] ELSE None

\* Variant: an existing snapshot does not stop the request.
ReadRowUnchecked(p) ==
    /\ pc[p] = "row"
    /\ existing' = [existing EXCEPT ![p] = Resolved(p)]
    /\ GoTo(p, "request")
    /\ UNCHANGED <<store, locks, lineage, explicit, content, todo, planVars>>

ReadRow(p) ==
    /\ pc[p] = "row"
    /\ explicit[p] \/ Resolved(p) = None
    /\ existing' = [existing EXCEPT ![p] = Resolved(p)]
    /\ GoTo(p, "request")
    /\ UNCHANGED <<store, locks, lineage, explicit, content, todo, planVars>>

\* A local snapshot exists and neither --force nor --version was given.
RefuseImplicit(p) ==
    /\ pc[p] = "row"
    /\ ~explicit[p]
    /\ Resolved(p) # None
    /\ End(p, "failed")
    /\ UNCHANGED store

\* The Tier 1 request: any content may come back.  That the response is
\* rejected (transport, ledger, size, hash, parser) is PullFails at "raw".
Download(p, c) ==
    /\ pc[p] = "request"
    /\ content' = [content EXCEPT ![p] = c]
    /\ GoTo(p, "raw")
    /\ UNCHANGED <<store, locks, lineage, explicit, existing, todo, planVars>>

\* put_file: a blob file that exists is left alone.
PutRaw(p) ==
    /\ pc[p] = "raw"
    /\ blobs' = blobs \union {Raw[content[p]]}
    /\ GoTo(p, "begin")
    /\ UNCHANGED <<snapshots, heads, locks, pullVars, todo, planVars>>

\* The transaction reads the row of the id and, unless it is there with its
\* nodes, inserts it.  The transaction can write only if no other one holds
\* the write lock and nothing was committed since its first read, so the
\* read and the first write are one step.
BeginCommit(p) ==
    /\ pc[p] = "begin"
    /\ writer = None
    /\ writer' = p
    /\ todo' = [todo EXCEPT ![p] =
                   IF Target(p) \in snapshots THEN {} ELSE Parts[content[p]]]
    /\ GoTo(p, "index")
    /\ UNCHANGED <<store, lock, pullVars, planVars>>

\* insert_node and insert_entities put their blob before they insert a row.
PutPart(p, b) ==
    /\ pc[p] = "index"
    /\ b \in todo[p]
    /\ blobs' = blobs \union {b}
    /\ todo' = [todo EXCEPT ![p] = @ \ {b}]
    /\ UNCHANGED <<snapshots, heads, locks, pc, pullVars, planVars>>

\* Variants: HEAD holds the version instead of the id; ON CONFLICT DO NOTHING.
CommitBareContent(p) ==
    /\ pc[p] = "index"
    /\ todo[p] = {}
    /\ snapshots' = snapshots \union {Target(p)}
    /\ heads' = [heads EXCEPT ![lineage[p]] = content[p]]
    /\ writer' = None
    /\ GoTo(p, "confirm")
    /\ UNCHANGED <<blobs, lock, pullVars, todo, planVars>>

CommitKeepsOldHead(p) ==
    /\ pc[p] = "index"
    /\ todo[p] = {}
    /\ snapshots' = snapshots \union {Target(p)}
    /\ heads' = [heads EXCEPT ![lineage[p]] = IF @ = None THEN Target(p) ELSE @]
    /\ writer' = None
    /\ GoTo(p, "confirm")
    /\ UNCHANGED <<blobs, lock, pullVars, todo, planVars>>

\* The upsert of HEAD and COMMIT: the rows and HEAD become visible at once.
CommitSnapshot(p) ==
    /\ pc[p] = "index"
    /\ todo[p] = {}
    /\ snapshots' = snapshots \union {Target(p)}
    /\ heads' = [heads EXCEPT ![lineage[p]] = Target(p)]
    /\ writer' = None
    /\ GoTo(p, "confirm")
    /\ UNCHANGED <<blobs, lock, pullVars, todo, planVars>>

\* commit_snapshot reads its row back and the command reports it.
ReportPulled(p) ==
    /\ pc[p] = "confirm"
    /\ Target(p) \in snapshots
    /\ End(p, "ok")
    /\ UNCHANGED store

\* Variant: a failed pull starts over, without a limit.
PullRetries(p) ==
    /\ pc[p] \in PullPC
    /\ GoTo(p, "head")
    /\ writer' = IF writer = p THEN None ELSE writer
    /\ UNCHANGED <<store, lock, pullVars, todo, planVars>>

\* Any step may return an error: I/O, SQL, a write lock not granted within
\* busy_timeout, a missing credential, a failed or rejected response.
PullFails(p) ==
    /\ pc[p] \in PullPC
    /\ End(p, "failed")
    /\ UNCHANGED store

Pull(p) ==
    \/ ReadHead(p)
    \/ ReadRow(p)
    \/ RefuseImplicit(p)
    \/ \E c \in Contents : Download(p, c)
    \/ PutRaw(p)
    \/ BeginCommit(p)
    \/ \E b \in Blob : PutPart(p, b)
    \/ CommitSnapshot(p)
    \/ ReportPulled(p)
    \/ PullFails(p)

-----------------------------------------------------------------------------
(***************************************************************************)
(* cache prune --execute                                                   *)
(***************************************************************************)

\* prune_plan reads the rows, outside any transaction and without a lock.
StartPrune(p) ==
    /\ ~Running(p)
    /\ GoTo(p, "rows")
    /\ UNCHANGED <<store, locks, pullVars, todo, planVars>>

PlanRows(p) ==
    /\ pc[p] = "rows"
    /\ planned' = [planned EXCEPT ![p] = snapshots]
    /\ GoTo(p, "heads")
    /\ UNCHANGED <<store, locks, pullVars, todo, retained>>

IsHead(s) == \E l \in Lineages : heads[l] = s

\* Of the rows read, those that are not a HEAD and not alone in their lineage.
Removable(rows) ==
    {s \in rows : ~IsHead(s) /\ \E t \in rows \ {s} : t[1] = s[1]}

PlanHeads(p) ==
    /\ pc[p] = "heads"
    /\ planned' = [planned EXCEPT ![p] = Removable(planned[p])]
    /\ GoTo(p, "raws")
    /\ UNCHANGED <<store, locks, pullVars, todo, retained>>

\* Variant: raw responses are not candidates for collection.
PlanRawsKept(p) ==
    /\ pc[p] = "raws"
    /\ retained' = [retained EXCEPT ![p] = RawBlobs(snapshots \ planned[p])]
    /\ GoTo(p, "parts")
    /\ UNCHANGED <<store, locks, pullVars, planned, todo>>

\* unreferenced_after scans table snapshots (again) ...
PlanRaws(p) ==
    /\ pc[p] = "raws"
    /\ todo' = [todo EXCEPT ![p] = RawBlobs(snapshots \intersect planned[p])]
    /\ retained' = [retained EXCEPT ![p] = RawBlobs(snapshots \ planned[p])]
    /\ GoTo(p, "parts")
    /\ UNCHANGED <<store, locks, pullVars, planned>>

\* Variant: the blobs of rows that stay are not taken out of the candidates.
PlanPartsOfRemoved(p) ==
    /\ pc[p] = "parts"
    /\ todo' = [todo EXCEPT ![p] =
                   (@ \union PartBlobs(snapshots \intersect planned[p])) \ retained[p]]
    /\ retained' = [retained EXCEPT ![p] = {}]
    /\ GoTo(p, "delete")
    /\ UNCHANGED <<store, locks, pullVars, planned>>

\* ... and then those of nodes, styles, components, component sets and derived
\* artifacts, five SELECTs of which one step is made: the candidates are the
\* blobs of the rows to delete that no row to keep refers to.
PlanParts(p) ==
    /\ pc[p] = "parts"
    /\ todo' = [todo EXCEPT ![p] =
                   (@ \union PartBlobs(snapshots \intersect planned[p]))
                     \ (retained[p] \union PartBlobs(snapshots \ planned[p]))]
    /\ retained' = [retained EXCEPT ![p] = {}]
    /\ GoTo(p, "delete")
    /\ UNCHANGED <<store, locks, pullVars, planned>>

\* Variant: the rows are deleted without the foreign key of heads.
DeleteRowsUnchecked(p) ==
    /\ pc[p] = "delete"
    /\ writer = None
    /\ snapshots' = snapshots \ planned[p]
    /\ planned' = [planned EXCEPT ![p] = {}]
    /\ GoTo(p, "unlink")
    /\ UNCHANGED <<heads, blobs, locks, pullVars, todo, retained>>

\* One transaction deletes the planned rows; with nothing to delete it asks
\* for no lock.  heads.snapshot_id REFERENCES snapshots ON DELETE
\* RESTRICT: it fails (PruneFails) if one of them has become a HEAD since.
DeleteRows(p) ==
    /\ pc[p] = "delete"
    /\ planned[p] = {} \/ writer = None
    /\ \A s \in planned[p] : ~IsHead(s)
    /\ snapshots' = snapshots \ planned[p]
    /\ planned' = [planned EXCEPT ![p] = {}]
    /\ GoTo(p, "unlink")
    /\ UNCHANGED <<heads, blobs, locks, pullVars, todo, retained>>

\* After the commit the blob files of the plan are removed one by one; one
\* that is not there is skipped.
Unlink(p, b) ==
    /\ pc[p] = "unlink"
    /\ b \in todo[p]
    /\ blobs' = blobs \ {b}
    /\ todo' = [todo EXCEPT ![p] = @ \ {b}]
    /\ UNCHANGED <<snapshots, heads, locks, pc, pullVars, planVars>>

ReportPruned(p) ==
    /\ pc[p] = "unlink"
    /\ todo[p] = {}
    /\ End(p, "ok")
    /\ UNCHANGED store

PruneFails(p) ==
    /\ pc[p] \in PrunePC
    /\ End(p, "failed")
    /\ UNCHANGED store

Prune(p) ==
    \/ PlanRows(p)
    \/ PlanHeads(p)
    \/ PlanRaws(p)
    \/ PlanParts(p)
    \/ DeleteRows(p)
    \/ \E b \in Blob : Unlink(p, b)
    \/ ReportPruned(p)
    \/ PruneFails(p)

-----------------------------------------------------------------------------
\* The process is killed.  The kernel drops its flock and SQLite rolls its
\* transaction back; blob files it wrote stay.
Crash(p) ==
    /\ Running(p)
    /\ End(p, "idle")
    /\ UNCHANGED store

Start(p) ==
    \/ \E l \in Lineages, e \in BOOLEAN : TryLock(p, l, e)
    \/ \E l \in Lineages : StoreBusy(p, l)
    \/ StartPrune(p)

Next == \E p \in Procs : Start(p) \/ Pull(p) \/ Prune(p) \/ Crash(p)

\* A running command is not suspended for ever: every wait in it is bounded
\* (busy_timeout for the write lock, the total timeout for the request), and
\* the lineage lock is not waited for.  Nobody has to start a command.
Fairness == \A p \in Procs : WF_vars(Pull(p) \/ Prune(p))

Spec == Init /\ [][Next]_vars

(***************************************************************************)
(* Deployment in which nothing else runs while a prune does; pulls may     *)
(* still overlap each other.  The code does not enforce it.                *)
(***************************************************************************)
PruneAlone ==
    \A p, q \in Procs : p # q /\ pc[p] \in PrunePC => ~Running(q)

PruneAloneSpec == Init /\ [][Next /\ PruneAlone']_vars
FairPruneAloneSpec == PruneAloneSpec /\ Fairness
-----------------------------------------------------------------------------
(***************************************************************************)
(* Safety of the catalog, for any number of processes                      *)
(***************************************************************************)

\* A HEAD names a committed row of its own lineage: what DESIGN.md 12.4 calls
\* "HEAD only points to ready".  Prune plans outside its transaction and takes
\* no lineage lock, so only the foreign key stands between a stale plan and
\* a HEAD that names nothing.
HeadsAreReady ==
    \A l \in Lineages :
        heads[l] # None => heads[l] \in snapshots /\ heads[l][1] = l

\* A pull without --force and --version is about to spend a Tier 1 request
\* only if its lineage has no HEAD (snapshot_pull's refusal).  The decision
\* was taken two reads and a credential lookup earlier.
ImplicitTier1OnlyWhenEmpty ==
    \A p \in Procs :
        pc[p] = "request" /\ ~explicit[p] => heads[lineage[p]] = None

\* Such a pull never moves a HEAD that exists: of all the pulls that race
\* for the first snapshot of a lineage, at most one commits.
ImplicitPullNeverMovesHead ==
    [][\A p \in Procs :
          CommitSnapshot(p) /\ ~explicit[p] => heads[lineage[p]] = None]_vars

\* What a pull reports as pulled is HEAD at the moment it reports it:
\* commit_snapshot reads the row back after its transaction has ended.
ReportedPullIsHead ==
    [][\A p \in Procs :
          ReportPulled(p) => heads[lineage[p]] = Target(p)]_vars

\* TODO.md: "a failed pull does not move HEAD".  Once a pull knows HEAD
\* (existing), its failure leaves HEAD there.
FailedPullKeepsHead ==
    [][\A p \in Procs :
          PullFails(p) /\ pc[p] \notin {"head", "row"}
              => heads[lineage[p]] = existing[p]]_vars

\* Seen through its rows and HEADs, the store is a SnapshotCatalog.
Catalog == INSTANCE SnapshotCatalog WITH snapshots <- snapshots, heads <- heads
CatalogSpec == Catalog!Spec

(***************************************************************************)
(* The blob files.  These hold under PruneAloneSpec, whatever fails or     *)
(* crashes; a pull and a prune that overlap break them.                    *)
(***************************************************************************)

\* Every blob a committed row refers to is on disk.
BlobsPresent == Referenced(snapshots) \subseteq blobs

\* The blobs a prune is about to remove when it has deleted its rows are
\* exactly those that lost their last reference with these rows.
GcPlanIsExact ==
    [][\A p \in Procs :
          DeleteRows(p) =>
              todo[p] = Referenced(snapshots) \ Referenced(snapshots')]_vars

\* DESIGN.md 12.4: "blob GC deletes only objects whose reference count is zero".
GcRemovesOnlyUnreferenced ==
    [][\A p \in Procs, b \in Blob :
          Unlink(p, b) /\ b \in blobs => b \notin Referenced(snapshots)]_vars

\* A command that was started ends, so it gives its locks back.
CommandsEnd == \A p \in Procs : Running(p) ~> ~Running(p)
=============================================================================
