-------------------------- MODULE SnapshotReaders --------------------------
(***************************************************************************)
(* An offline query beside the writers of SnapshotStore: `node get` (and   *)
(* `outline`, `tokens get`, which walk the tree in the same way) and       *)
(* `snapshot diff` (figstash-query service.rs, diff.rs; the reads are the  *)
(* SnapshotRepository methods of catalog.rs).                              *)
(*                                                                         *)
(* Their compact views are modelled; the raw view of node get stops before *)
(* the entities, and outline reads none.                                   *)
(*                                                                         *)
(* A query takes no lock and opens no transaction: it is a sequence of     *)
(* single SELECTs and blob reads, between which pulls may move HEAD and a  *)
(* prune may delete rows and blob files.  Queries write nothing, so one    *)
(* stands for any number of them.                                          *)
(***************************************************************************)
EXTENDS SnapshotStore

CONSTANTS
    Node,      \* node ids
    Root,      \* the document node of a content
    Kids,      \* the children of each of its nodes
    NodeBlob,  \* the blob with the JSON of each of its nodes
    Entities   \* the blobs of its styles, components and component sets

ASSUME TreeAssumption ==
    /\ Root \in [Contents -> Node]
    /\ Kids \in [Contents -> [Node -> SUBSET Node]]
ASSUME NodeBlobAssumption ==
    NodeBlob \in {f \in [Contents -> [Node -> Blob]] :
                     \A c \in Contents, n \in Node : f[c][n] \in Parts[c]}
ASSUME EntitiesAssumption ==
    /\ Entities \in [Contents -> SUBSET Blob]
    /\ \A c \in Contents : Entities[c] \subseteq Parts[c]

VARIABLES
    rpc,          \* what the query does next
    readLineage,  \* the lineage its selectors name
    byHead,       \* it asked for HEAD, not for a snapshot id
    left,         \* the snapshot it reads
    right,        \* the second snapshot of a diff, or None
    pending,      \* node ids it still has to load
    node,         \* the index row it has just read: <<node id, blob hash>>
    got,          \* the nodes of the answer, as such pairs
    agenda,       \* tables it still has to read, as <<table, snapshot>>
    table,        \* the one whose blobs it reads
    tables,       \* the tables it found rows in
    lost,         \* (history) snapshots it resolved that were deleted since
    moved         \* (history) HEAD has moved since it was read

asked == <<readLineage, byHead, left, right>>
loaded == <<pending, node, got>>
scanned == <<agenda, table, tables>>
history == <<lost, moved>>
readerVars == <<rpc, asked, loaded, scanned, history>>

ReadPC == {"row", "right", "root", "node", "blob", "kids", "table", "entities"}
AnswerPC == {"answered", "missing", "failed"}
Reading == rpc \in ReadPC

Item == Node \X Blob
TableName == {"nodes", "entities"}
TableId == TableName \X SnapshotId
NoItem == <<>>

ReaderTypeOK ==
    /\ rpc \in {"idle"} \union ReadPC \union AnswerPC
    /\ readLineage \in Lineages \union {None}
    /\ byHead \in BOOLEAN
    /\ left \in SnapshotId \union {None}
    /\ right \in SnapshotId \union {None}
    /\ pending \subseteq Node
    /\ node \in Item \union {NoItem}
    /\ got \subseteq Item
    /\ agenda \subseteq TableId
    /\ table \in TableId \union {NoItem}
    /\ tables \subseteq TableId
    /\ lost \subseteq SnapshotId
    /\ moved \in BOOLEAN

ReaderInit ==
    /\ rpc = "idle"
    /\ readLineage = None
    /\ byHead = FALSE
    /\ left = None
    /\ right = None
    /\ pending = {}
    /\ node = NoItem
    /\ got = {}
    /\ agenda = {}
    /\ table = NoItem
    /\ tables = {}
    /\ lost = {}
    /\ moved = FALSE

ReadNext(there) == rpc' = there

-----------------------------------------------------------------------------
(***************************************************************************)
(* Resolving the selectors: two SELECTs for HEAD, one for an id            *)
(***************************************************************************)

\* Variant: the newest row of the lineage instead of its HEAD.
AskNewest(l) ==
    /\ rpc = "idle"
    /\ readLineage' = l
    /\ byHead' = TRUE
    /\ \E s \in snapshots : s[1] = l /\ left' = s
    /\ ReadNext("row")
    /\ UNCHANGED <<right, loaded, scanned, history>>

\* resolve_snapshot without an id: the head row, if there is one.
AskHead(l) ==
    /\ rpc = "idle"
    /\ readLineage' = l
    /\ byHead' = TRUE
    /\ left' = heads[l]
    /\ ReadNext(IF heads[l] = None THEN "missing" ELSE "row")
    /\ UNCHANGED <<right, loaded, scanned, history>>

\* With an id there is no head to find.  The count of the heads that name the
\* id, which comes first, only sets the isHead flag of the answer.
AskSnapshot(l, s) ==
    /\ rpc = "idle"
    /\ readLineage' = l
    /\ left' = s
    /\ ReadNext("row")
    /\ UNCHANGED <<byHead, right, loaded, scanned, history>>

AskDiff(l, s, t) ==
    /\ rpc = "idle"
    /\ readLineage' = l
    /\ left' = s
    /\ right' = t
    /\ ReadNext("row")
    /\ UNCHANGED <<byHead, loaded, scanned, history>>

\* The row select filters by id, file key and profile.
RowExists(s) == s \in snapshots /\ s[1] = readLineage

ResolveLeft ==
    /\ rpc = "row"
    /\ ReadNext(IF ~RowExists(left) THEN "missing"
                ELSE IF right = None THEN "root" ELSE "right")
    /\ UNCHANGED <<asked, loaded, scanned, history>>

ResolveRight ==
    /\ rpc = "right"
    /\ IF RowExists(right)
       THEN /\ agenda' = TableName \X {left, right}
            /\ ReadNext("table")
       ELSE /\ ReadNext("missing")
            /\ UNCHANGED agenda
    /\ UNCHANGED <<asked, loaded, table, tables, history>>

-----------------------------------------------------------------------------
(***************************************************************************)
(* node get: a walk of the tree, three reads a node                        *)
(***************************************************************************)

\* root_node_id: a snapshot without node rows has no root (StoreCorrupt).
FindRoot ==
    /\ rpc = "root"
    /\ IF left \in snapshots
       THEN /\ pending' = {Root[left[2]]}
            /\ ReadNext("node")
       ELSE /\ ReadNext("failed")
            /\ UNCHANGED pending
    /\ UNCHANGED <<asked, node, got, scanned, history>>

\* Variant: the row is looked up in the current HEAD of the lineage.
LoadRowOfHead(n) ==
    LET s == heads[readLineage]
    IN  /\ rpc = "node"
        /\ n \in pending
        /\ IF s \in snapshots
           THEN /\ node' = <<n, NodeBlob[s[2]][n]>>
                /\ pending' = pending \ {n}
                /\ ReadNext("blob")
           ELSE /\ ReadNext("failed")
                /\ UNCHANGED <<node, pending>>
        /\ UNCHANGED <<asked, got, scanned, history>>

\* load_node: the index row, or NodeNotFound.  The order in which the nodes
\* are taken makes no difference.
LoadRow(n) ==
    /\ rpc = "node"
    /\ n \in pending
    /\ IF left \in snapshots
       THEN /\ node' = <<n, NodeBlob[left[2]][n]>>
            /\ pending' = pending \ {n}
            /\ ReadNext("blob")
       ELSE /\ ReadNext("failed")
            /\ UNCHANGED <<node, pending>>
    /\ UNCHANGED <<asked, got, scanned, history>>

\* BlobStore::get.
LoadBlob ==
    /\ rpc = "blob"
    /\ ReadNext(IF node[2] \in blobs THEN "kids" ELSE "failed")
    /\ UNCHANGED <<asked, loaded, scanned, history>>

TakeKids(kids) ==
    /\ rpc = "kids"
    /\ got' = got \union {node}
    /\ node' = NoItem
    /\ pending' = pending \union kids
    /\ IF pending' = {}
       THEN agenda' = {<<"entities", left>>} /\ ReadNext("table")
       ELSE UNCHANGED agenda /\ ReadNext("node")
    /\ UNCHANGED <<asked, table, tables, history>>

\* Variant: the children are looked up in the current HEAD of the lineage.
LoadKidsOfHead ==
    LET s == heads[readLineage]
    IN  TakeKids(IF s \in snapshots THEN Kids[s[2]][node[1]] ELSE {})

\* The select of the child ids; no row, no children.
LoadKids == TakeKids(IF left \in snapshots THEN Kids[left[2]][node[1]] ELSE {})

-----------------------------------------------------------------------------
(***************************************************************************)
(* Whole tables: the nodes of both sides of a diff, and the entities       *)
(***************************************************************************)

AfterTable == IF agenda' = {} THEN "answered" ELSE "table"

\* load_diff_nodes, load_styles, load_components, load_component_sets: a
\* snapshot that has no rows has an empty table.
ReadTable(r) ==
    /\ rpc = "table"
    /\ r \in agenda
    /\ agenda' = agenda \ {r}
    /\ IF r[2] \in snapshots
       THEN /\ tables' = tables \union {r}
            /\ IF r[1] = "entities"
               THEN table' = r /\ ReadNext("entities")
               ELSE UNCHANGED table /\ ReadNext(AfterTable)
       ELSE /\ UNCHANGED <<table, tables>>
            /\ ReadNext(AfterTable)
    /\ UNCHANGED <<asked, loaded, history>>

\* The blobs of the rows just read.
ReadEntities ==
    /\ rpc = "entities"
    /\ table' = NoItem
    /\ IF Entities[table[2][2]] \subseteq blobs
       THEN ReadNext(IF agenda = {} THEN "answered" ELSE "table")
       ELSE ReadNext("failed")
    /\ UNCHANGED <<asked, loaded, agenda, tables, history>>

ReaderNext ==
    \/ \E l \in Lineages : AskHead(l)
    \/ \E l \in Lineages, s \in SnapshotId : AskSnapshot(l, s)
    \/ \E l \in Lineages, s, t \in SnapshotId : AskDiff(l, s, t)
    \/ ResolveLeft
    \/ ResolveRight
    \/ FindRoot
    \/ \E n \in Node : LoadRow(n)
    \/ LoadBlob
    \/ LoadKids
    \/ \E r \in TableId : ReadTable(r)
    \/ ReadEntities

-----------------------------------------------------------------------------
(***************************************************************************)
(* The query beside the writers                                            *)
(***************************************************************************)

\* A step of a writer, as the history of the query sees it.
Observe ==
    /\ IF Reading
       THEN /\ lost' = lost \union (({left, right} \intersect snapshots) \ snapshots')
            /\ moved' = (moved \/ heads'[readLineage] # heads[readLineage])
       ELSE UNCHANGED history
    /\ UNCHANGED <<rpc, asked, loaded, scanned>>

SystemInit == Init /\ ReaderInit

SystemNext ==
    \/ Next /\ Observe
    \/ ReaderNext /\ UNCHANGED vars

SystemSpec == SystemInit /\ [][SystemNext]_<<vars, readerVars>>

\* The same where nothing runs beside a prune except the query.
SystemAloneSpec ==
    SystemInit /\ [][SystemNext /\ PruneAlone']_<<vars, readerVars>>

-----------------------------------------------------------------------------
(***************************************************************************)
(* Properties                                                              *)
(***************************************************************************)

\* The answer holds the whole snapshot: the document node, with each node all
\* its children, and every entity; for a diff, both tables of both sides.
Whole ==
    IF right = None
    THEN /\ \E i \in got : i[1] = Root[left[2]]
         /\ \A i \in got : \A k \in Kids[left[2]][i[1]] : \E j \in got : j[1] = k
         /\ <<"entities", left>> \in tables
    ELSE TableName \X {left, right} \subseteq tables

\* A query never mixes snapshots, although HEAD may move between any two of
\* its reads: whatever it has read is of the snapshot it resolved.
AnswersAreOfOneSnapshot ==
    /\ \A i \in got : i[2] = NodeBlob[left[2]][i[1]]
    /\ tables \subseteq TableName \X {left, right}

\* An answer is the whole snapshot unless a prune deleted it meanwhile:
\* a query pinned to an id is isolated from every pull, and from prunes of
\* other snapshots.
UndisturbedAnswersAreWhole == rpc = "answered" /\ lost = {} => Whole

\* A query that resolved its snapshot fails only if a prune deleted it
\* meanwhile: no blob of a snapshot that stays is ever missing, whatever
\* crashed or failed before.  (With a prune that runs alone.)
OnlyPruneBreaksQueries == rpc = "failed" => lost # {}

\* A prune takes a snapshot from under a query of HEAD only after a pull
\* has moved HEAD: while nobody pulls, prune never disturbs such a query.
HeadQueriesLoseOnlyOldHeads == byHead /\ left \in lost => moved

\* DESIGN.md 10: "no silent truncation" of the subtree node get returns.
AnswersAreWhole == rpc = "answered" => Whole

\* DESIGN.md 15: "snapshot_missing" is the answer when there is no local
\* snapshot.
MissingMeansNoHead == rpc = "missing" /\ byHead => left = None
=============================================================================
