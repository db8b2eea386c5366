# TLA+ models of figstash

Figstash pulls a Figma file with one HTTP request, keeps the answer as an
immutable local snapshot, and answers all further queries from disk. Three
things are hard to get right and hard to test in it: several processes share
one store without a daemon, every step of a command may fail or be killed, and
a request must be spent at most once, because Figma counts it.

This directory holds TLA+ modules of these parts, configurations with which TLC
checks them on small instances, and proofs that TLAPS checks for instances of
any size. `PROJECT.json` names for each definition the source lines it stands
for. Line numbers below are those of `catalog.rs` unless a file is named.

To repeat the checks, in this directory:

    tlc -workers 2 -config StoreConcurrent.cfg MCSnapshotStore
    tlapm SnapshotStoreProofs.tla

## 1. The system

| Component | State | Operations | Shared with |
| --- | --- | --- | --- |
| Snapshot store (`figstash-store`: catalog.rs, blob.rs; app.rs `snapshot_pull`) | SQLite tables `snapshots`, `heads`, `nodes`, `styles`, `components`, `component_sets`; blob files `blobs/b3`; lock file of each lineage | `try_lock`, `commit_snapshot`, `prune_plan`, `execute_prune`, `BlobStore::put_*`, `get` | all figstash processes of a user |
| Gateway (`figstash-figma` gateway.rs; app.rs `download_and_commit`, `auth whoami`) | attempts of a call, staging file, rows of `api_attempts` | `execute_classified`, `ReqwestTransport::download`, `record_attempt` | Figma; the reaper of other processes |
| Queries (`figstash-query` service.rs, diff.rs; the repository methods of catalog.rs) | none of their own | `node get`, `outline`, `tokens get`, `components list`, `snapshot diff`, `node search` | read what the store's writers change |
| Parser and node table (parser.rs, `insert_node`, `raw_node`) | stack, path and rows of a walk; table `nodes` | `parse_file`, `walk_node`, `insert_snapshot`, `load_raw` | pure, then one transaction |
| Diff (diff.rs) | none | `compare_nodes`, `matches_filters`, `compare_entities` | pure |
| Store opening (`Store::open`, the start of every command) | directories, `schema_migrations`, staged files | `initialize_catalog`, `cleanup_orphan_staging`, `create_staging_file` | all processes |
| Credentials (auth.rs; app.rs `auth_command`, `doctor`) | environment, one entry of the user's OS keyring | `resolve`, `store`, `clear`, `status` | all processes of the user |
| Quota report (`quota_status`) | none; reads `api_attempts` | `quota status` | the ledger the gateway writes |
| Query views (transform.rs, service.rs) | none | `node get`, `context`, `outline`, `tokens get`, `components list` | the tables of one snapshot |
| Node search (`search_nodes`, `parse_cursor`) | none; the client keeps the cursor | `node search` | the tables of HEAD, which moves |
| Identifiers and targets (identifier.rs; app.rs `target_and_node`) | none | `parse_figma_target`, `normalize_node_id` | every command that takes a file or a node |
| Arguments, configuration, envelopes, schemas | none | declarations and formatting | none |
| Catalog backup (`backup_catalog`) | a copy of the catalog | called by no command | none |

A command is one process. `snapshot pull` takes the lineage lock (an advisory
`flock`, not waited for), reads HEAD, refuses or spends one Tier 1 request
through the gateway into a staging file, verifies and parses it, puts blobs,
and commits rows and HEAD in one SQLite transaction. `cache prune --execute`
plans without a lock, deletes rows in one transaction and then removes blob
files. A query is a sequence of single SELECTs and file reads, without a lock
and without a transaction. There is no other communication between processes.

What is hard, and what makes it correct:

* **Store.** A prune decides on rows, HEADs and blobs that other processes
  change before it acts; blob files are outside of every transaction; a pull
  skips a blob that exists. Correct: HEAD always names a row; a pull without
  `--force` spends no request on a lineage that has a HEAD and never moves one;
  a row's blobs exist; a failed or killed command harms nothing.
* **Gateway.** It cannot see whether a request that failed was served, nor the
  redirects its HTTP client follows. Correct: a bound on what Figma counts per
  command, apart from followed redirects; every attempt that reached Figma is
  reported and, but for one, in the ledger; a result is one whole answer.
* **Queries.** Their reads are spread over commits of others. Correct: an
  answer is of one snapshot and is whole, or the query fails.
* **Opening.** The check for the migration, the migration, the listing of staged
  files and the removal of each are separate, and nothing but SQLite's write lock
  keeps two openings apart. Correct: nobody works on a catalog without its
  migration, nobody writes a catalog of another build, what crashes leave behind
  never blocks the next opening, and old staging files go away.
* **Credentials.** The keyring is shared, may fail, and changes while a command
  waits; three functions look at `FIGMA_TOKEN` in two ways. Correct: all requests
  of a command carry one token; what `auth` and `doctor` answer is what the next
  request finds.
* **Quota report.** A row counts for the month in which its answer came and is
  written later; a write may fail. Correct: months and groupings add up to the
  attempts that were made, but for one per command at most.
* **Views, search, identifiers.** Each command walks the table on its own, some
  to a depth only, names nodes in its own way, and pages are computed anew each
  time. Correct: views of one subtree agree; all commands mean the node the user
  named; pages lose and repeat nothing but what a pull moved.
* **Parser, diff.** Recursion over a shared buffer, reconstruction from rows,
  equality by hashes of subtrees. Correct: rows and raw view are the file; a
  diff has no misses and no false alarms.

The complete list of hazards, with the line where each bites and the properties
that cover it, is in `PROJECT.json` (`hazards`).

## 2. Modules

| Module | Stands for |
| --- | --- |
| `SnapshotCatalog` | What readers of the store may rely on: two variables, `Publish` and `Retire` |
| `SnapshotStore` | Pull and prune, step by step, any number of processes |
| `SnapshotStoreProofs`, `SnapshotBlobProofs` | Proofs about it |
| `FigmaGateway`, `FigmaGatewayProofs` | One request path, its ledger and report; proofs |
| `QuotaReport` | `quota status` over the gateway's ledger, and the month (it EXTENDS the gateway) |
| `Credentials` | `FIGMA_TOKEN`, the keyring, `auth` and `doctor` |
| `OnlineCommand`, `OnlineCommandProofs` | The composition of these three; that it implements the gateway, what a request carries, what the quota report counts |
| `SnapshotReaders`, `SnapshotReadersProofs` | A query beside `SnapshotStore` (it EXTENDS it); proofs |
| `StoreOpening`, `StoreOpeningProofs` | Openings of the store by any number of processes, and the life of staging files; proofs |
| `DocumentIndex` | Parser walk, insertion of rows, raw view |
| `SnapshotDiff`, `SnapshotDiffProofs` | Two files through `DocumentIndex`, then their comparison; proofs about both |
| `NodeSearch`, `QueryViews`, `FigmaTarget` | Pages and cursors; views; how users name files and nodes. Operators over an indexed table |
| `LocalQueries`, `LocalQueriesProofs` | The local commands from their arguments to the answer, over the four modules above; proofs about names, views and searches |
| `MC*` | Values of the constants for TLC |

### SnapshotStore

A lineage is a (file key, request profile) pair and a content is what one
response carries. The id of a snapshot is a hash of both (337-341), so it is
the pair. Blob hashes are taken to be injective. `Raw[c]` is the blob of the
whole response, `Parts[c]` those of its nodes and entities: nodes, styles,
components and component sets differ for the store only in the table their
hashes stand in.

| Action | Code |
| --- | --- |
| `TryLock`, `StoreBusy` | `try_lock` |
| `ReadHead`, then `ReadRow` / `RefuseImplicit` | the two SELECTs of `resolve_snapshot` and the decision in `snapshot_pull` (app.rs 370-400) |
| `Download` | the request (the gateway's module has its inside) |
| `PutRaw`, `BeginCommit`, `PutPart`, `CommitSnapshot`, `ReportPulled` | `put_file`; the transaction of `commit_snapshot`; its read-back after COMMIT |
| `PlanRows`, `PlanHeads`, `PlanRaws`, `PlanParts` | the SELECTs of `prune_plan` and `unreferenced_after`: the rows, the HEADs, the raw blobs, and those of nodes and entities together |
| `DeleteRows`, `Unlink`, `ReportPruned` | the transaction of `execute_prune` and the removal of files, one by one |
| `PullFails`, `PruneFails`, `Crash` | an error return, or the death of the process, between any two steps |

Steps that are one in the model and more in the code: SQLite grants one write
transaction at a time and refuses a transaction whose snapshot was overtaken, so
the first reads of `commit_snapshot` and its first write are one step
(`BeginCommit`); the deletions of a prune become visible together
(`DeleteRows`). The foreign key `heads.snapshot_id ... ON DELETE RESTRICT` is a
guard of `DeleteRows`. A blob put is one step, since the file appears by a
rename. The five SELECTs of `unreferenced_after` on nodes, styles, components,
component sets and derived artifacts (from 910) are one step, `PlanParts`, as
`Parts[c]` has their blobs together: a commit between two of them is not
modelled. Nothing that is claimed of a prune's plan depends on it, because it is
claimed only where nothing runs beside the prune.

### FigmaGateway

One invocation is one run of the binary with one gateway call, of Tier 1 (pull)
or Tier 3 (`auth whoami`). Three things are told apart. `attempts` is what the
program counts (`network.record`). `arrived` is what Figma counts: an entry for
each request that reached it, which names its attempt; the program cannot tell a
lost request from a lost answer. `redirects` counts the requests in between that
the HTTP client sends by itself: its policy (gateway.rs 122-129) follows every
redirect to `https://api.figma.com`, as often as one comes, and only the total
timeout ends that. `Redirect` puts the invocation back on the wire in the same
attempt; any other redirect is an answer like others.
`staged` holds for each byte the attempt that wrote it; so a mixture of two
answers is visible. Connection errors, both timeouts, disk errors,
oversized bodies, every class of HTTP status, a failing ledger write, a file the
reaper of another process removes (`Reap`) and a kill (`Crash`) may come at any
point where the code can meet them. The actions after an attempt follow the
order of `execute_classified`: record first, then retry, give up or accept.
An error return then passes `CleanUp`, where both commands remove the staging
file and print the report; a crash may come before it.

### QuotaReport, Credentials and OnlineCommand

`QuotaReport` adds the month of the clock and, to every row of the ledger, the
month in which its attempt ended; the row itself is written one or more steps
later (`Stamp` against `Record`). `QuotaStatus(m)` is the report.

`Credentials` has the variable and the keyring entry as two secrets. A secret is
usable, blank, absent or, for the variable, not UTF-8: `env::var` takes the last
for absent, while `status` takes it for present. `Resolve` is
`PatProvider::resolve`; `AuthSet`, `AuthClear`, `AuthStatus` and `Doctor` are run
by the user at any time. `fresh` is a history variable: the answers given since
the keyring last changed.

`OnlineCommand` is `snapshot pull` or `auth whoami` from its start: `--offline`
first, then one resolution of the token, then the gateway with that token.
`StartOnline` needs a credential, `SendWithToken` writes down which token a
request carried (`carried`), `GatewayStep` is any other action of the gateway
with the month stamped on it. The steps of the three parts interleave freely.

### SnapshotReaders

One query on top of any `SnapshotStore`. Since queries write nothing, one stands
for any number. Each SELECT and each blob read is an action; `LoadRow`,
`LoadBlob` and `LoadKids` are the three reads of `load_node`. The SELECT that
counts HEADs of the row (970-976) sets only the flag `is_head` of an answer and
is left out. `lost` and `moved`
are history variables, written only for the properties: which resolved snapshots
were deleted since, and whether HEAD has moved.

### StoreOpening

`catalog` is the set of migration rows, each a version and a checksum; no row
stands for no table, since both are committed together. An opening goes through
`InspectCatalog` (is there a table), `ReadMigrations` or `RefuseCatalog` (do its
rows fit), `BeginMigration` and `RecordMigration` or `MigrationClash` (the
transaction: the write lock is waited for, and the primary key of
`schema_migrations` refuses a second row), `ListStaged`, and one `KeepEntry`, or
`DoomEntry` and `RemoveEntry`, per staged file. The statements of the migration
are one step with its row: nobody sees them before the commit. `EntryVanished`
is the error of `metadata` or `remove_file` on a file another process has
removed; it may also happen that `read_dir` does not return such a file
(`KeepEntry`). `expired` is the age of the files by the `now` that the search
starts with. Beside the openings, commands create staging files, write to them
after a suspension, and remove them or leave them behind (`CreateStage`,
`WriteStage`, `Finish`, `Crash`). `alone` is a history variable: no other
process ran since the opening began.

All processes are of one build. Two builds that open one store at the same time
are not modelled; a catalog that another build left is.

### DocumentIndex and SnapshotDiff

A file is a tree over positions; its fields are one value, which is also their
hash. `parse_file` first has serde_json read the whole of it, which refuses JSON
of 128 nested levels, and looks for a name, a version and a document: `Readable`
are the files that pass, `RefuseFile` the error. The envelope is one level and
each node costs two, its object and the list of its parent's children, so that
the object of a node k below the document is at level 2k + 2 (`Nesting` says how
deep its fields are). What may be wrong outside the nodes is the flag
`envelope`. The recursion of `walk_node` is an explicit `stack` of calls, while `path`
is the one buffer all calls share, as in the code. `InsertRows` is the insertion
loop with the primary key; styles, components and component sets are one map
from a kind and an id, inserted with the nodes. `RawView` rebuilds the JSON from rows. `SnapshotDiff`
indexes two files, one after the other, and compares nodes (under a filter) and
entities (without).

### The local commands

`LocalQueries` has no actions of its own: a local command is a function of the
tables, and is evaluated wherever `SnapshotDiff` has a snapshot indexed, with
`before` as the one HEAD named earlier. Its walks are recursive functions, the
order of rows is given by counting the rows that come before one: both mean what
the code's recursion and `ORDER BY` do, and the prover can reason about them.

`FigmaTarget` gives each node id a text: a sequence of the parts between
semicolons, each with its prefix, separator and numbers. `NormalizeNodeId`,
`ParsePath` and `TargetAndNode` are the functions of the same name in the code,
a link is a key or the path segments and node of a URL, and `TargetAndNode`
yields the file and the node, or the error. `NodeGetCommand`, `ContextCommand`,
`DiffScope`, `PathScope` and `SearchScope` are what the commands do with it.

`QueryViews` has the walks of `load_outline`, `load_compact` and
`collect_nodes`, each with its own depth rule, and what is computed from the
nodes they select: `References`, `DeriveVariables`, `TokensGet`,
`ComponentsList`.

`NodeSearch` has no state either: `Page` is the SELECT of `search_nodes`
with its order, limit and offset, and `FollowCursors` a client that asks until
there is no cursor. The filter `--ancestor` reads `path_ids`, whose first
elements are the ancestors and whose last is the node itself: a node counts as
its own descendant, in the model as in the code.

## 3. What TLC checks

| Run | Instance | Shows |
| --- | --- | --- |
| `store_concurrent` | 2 processes, 2 lineages, 2 contents that share a blob; processes and lineages symmetric | type, HEADs, no needless request, what is reported is HEAD, refinement of `SnapshotCatalog` |
| `store_prune_alone` | the same, while nothing runs beside a prune | blobs of rows exist, a prune collects exactly what it makes unreachable, commands end |
| `store_gc_race` | 2 processes, 1 lineage | **violation**: a prune removes a blob a row refers to |
| `store_failed_pull` | 1 process | **violation**: a pull reports failure after HEAD has moved |
| `gateway` | 1 command, 8 statuses, up to 1 followed redirect, bodies of 0-3 bytes, limit 2, 2 tokens, 2 months | request budget, ledger, report, quota by month, result, staging file, one token per command, `auth` foretells requests, termination |
| `gateway_retry` | the same | **violation**: a served request is sent again |
| `readers` | 1 writer, 1 lineage, trees of 2 nodes and 1 node | answers of one snapshot, whole unless pruned, failures only after a prune |
| `readers_truncated` | the same | **violation**: an answer that is silently cut off |
| `readers_missing` | the same | **violation**: `snapshot_missing` for a file that has a snapshot |
| `opening` | 2 processes, 2 staging files; no catalog, one of this build, one with another checksum, two of a newer build | migration before work, foreign catalogs untouched, openings alone succeed, old files are reaped |
| `diff` | pairs of files of 1-4 nodes, 5 filters, 4 searches, 5 page sizes, 16 links, 4 depths | rows, paths and raw view are the file; the diff is right; commands mean the node named; views agree; pages lose only what a pull moved |
| `node_ids` | the same | **violation**: a node inside an instance cannot be located |

Every property of a passing run has a mutant of a mapped definition (the
"Variant" operators next to the originals) under which TLC finds it violated.

### The violations

* `GcRemovesOnlyUnreferenced` (DESIGN.md 661). `execute_prune` plans outside of
  its transaction and takes no lineage lock. A pull that commits between the
  plan and line 509, with a response that shares a blob with a pruned
  snapshot, finds the blob present, does not write it, and then loses it.
  Pulling the same content again does not heal the snapshot, because
  `insert_snapshot` returns early for an id it has rows for (721).
* `FailedPullKeepsHead` (TODO.md 105). The read-back of `commit_snapshot` comes
  after COMMIT; its error is the command's.
* `RetriesOnlyUnservedOr5xx` (DESIGN.md 158). Every transport error is retried
  for Tiers 2 and 3, also one after the request was served.
* `AnswersAreWhole` (DESIGN.md 567). A prune between the two SELECTs of
  `load_node` empties the list of children; a diff takes a deleted side for an
  empty one.
* `MissingMeansNoHead` (DESIGN.md 747). HEAD is read, moved, and the old
  snapshot pruned before its row is read.
* `AnyNodeCanBeLocated` (TODO.md 118). Figma writes the id of a node inside an
  instance with a prefix, `I1:2;3:4`. The parser stores it as it came, while
  `normalize_node_id` (identifier.rs 98) drops the prefix of what the user
  typed: no row has that id, and `node get`, `outline`, `context`,
  `diff --node`, `diff --path` and `search --ancestor` find nothing.
  `InstancesAreNotLocated` proves it for all tables, links and ids. The test at
  identifier.rs 187-192 pins the dropped prefix (`I1:2;3-4` becomes `1:2;3:4`):
  test and acceptance criterion contradict each other.

Disagreements with the documents that no run is about:

* `raw_node` drops an empty list of children (parser.rs 14 calls the raw view
  lossless).
* A node that is not found has candidates by name and by equal id only, never by
  similar id (DESIGN.md 748).
* In a branch URL the first segment `branch` counts, so that a file whose title is
  "branch" is taken for the marker.
* The cursor of a search is an offset into whatever HEAD is by then, and not the
  "稳定 cursor" (stable cursor) of DESIGN.md 767: after a pull, pages lose and
  repeat rows. `PagesLoseOnlyWhatMoved` says exactly which.
* `network.attempts` is one per call of the transport. Where redirects are
  followed it is less than the requests Figma got, while DESIGN.md 425 promises
  the requests that were actually attempted ("`network` 记录实际已尝试请求"), and the
  ledger keeps one row for all of them. `RequestBudget` bounds what Figma counts
  by attempts and redirects; `ReportCoversArrivals` relates it to the attempts
  that are reported.
* The limit of 512 node levels (parser.rs 74-80) never refuses a file: one of
  64 levels is reported as "invalid or truncated JSON" (parser.rs 26).

Each of these runs has a passing counterpart that says what does hold:
`BlobsPresent` without overlap, `ReportedPullIsHead`, `RequestBudget`,
`UndisturbedAnswersAreWhole`, `HeadQueriesLoseOnlyOldHeads`, and
`CommandsMeanTheNodeNamed`, which leaves out the nodes inside instances.

### Bounds

* Two processes in the store: pull against pull, pull against prune and prune
  against prune all occur. A third would only add a second opponent; no step
  reads the locals of another process, and the proofs cover any number.
* Two contents, one of whose blobs are a subset of the other's apart from the
  raw response: enough for a prune to have blobs to keep and blobs to collect,
  and for a pull to skip one. Processes run any number of commands one after
  another, so HEADs move back and forth.
* Readers: one writer process gives every order of whole pulls and prunes
  between the reads of a query; what two writers do to each other is the
  store's run. The trees have a child that the later content lacks.
* Gateway: one invocation, as no action of one reads or writes what belongs to
  another. Statuses: one of each branch of `map_http_error`, with
  the bound 500 and one past 599 of those that are retried, and one redirect to
  elsewhere, which is an answer. Followed redirects: up to `MaxRedirects = 1` per
  command, in either attempt; the code has no bound, and the theorems hold for
  every one. Sizes: nothing, two lengths that fit (a later answer
  may be shorter), one that does not. Two tokens, so that one may be replaced
  between two attempts, and both blank and undecodable variables; two months, as
  a command that spans one end of a month spans none or one.
* Diff: every shape of up to three nodes with all ids (also one id twice), both
  types, and some shapes of four; files that are not whole, nested too far by
  their nodes or by the fields of one, too deep, too large or malformed.
  `MaxDepth = 2`, `MaxNodes = 4` and `RecursionLimit = 10` stand for the code's 512
  and 1,000,000 and serde_json's 128, so that each limit is met and exceeded.
  In the code the nesting comes first: 128 levels allow nodes 62 below the
  document, and the check against 512 (parser.rs 74) is unreachable, which
  `NestingLimitComesFirst` proves. With 10 and 2 both limits refuse files, so
  that the rule of the walk is checked too.
  Node types, styles and components follow from two values of a node's fields.
* Views: no limit, and depths 0, 1 and 2, in trees up to depth 2: a limit cuts
  the tree, meets its leaves or exceeds it. One node has a fill and a stroke of
  one value; equal numbers occur in two categories.
* Search: no limit and 1 to 4 with a default of 2 and a largest of 3 (100 and
  1,000 in the code), on tables of 1-4 nodes, so that a last page may be full,
  partial or empty and that an excessive limit is cut.
* Targets: each shape of URL `parse_path` knows, a branch marker in the middle
  and at the end, a second one, refused shapes, foreign hosts, malformed nodes;
  `--node` absent, equal, equal in other writing, and different. The ids have
  one, one with the same numbers as part of another, and one inside an instance.
* Opening: two processes meet at every pair of steps, and two files are the
  least for which a search has to go on after a removal. A file grows old once
  (`GrowOld`): after it was written again no further day passes. A name is used
  once, as it is a fresh UUID. Openings and commands are repeated without bound.

Deadlock is checked in the store's, the readers' and the opening's runs (a
process can always start another command). It is not in the gateway's and the diff's, where the
system has ended when the one command has.

### Fairness

* Store: weak fairness of each process' own next step. A wait for the write
  lock ends by `busy_timeout` (5 s), the request by its total timeout, and the
  lineage lock is not waited for; the alternative step is then `PullFails` or
  `PruneFails`. No fairness for starting commands. `CommandsEnd` follows.
* Gateway: weak fairness of what the process does itself, its timers among it.
  Nothing is assumed of Figma and the network: that a command ends although
  Figma never answers is `InvocationsEnd`. The total timeout runs over all
  redirects of an attempt, so that an attempt ends however many there are; TLC
  follows them up to the bound. `OnlineFairSpec` assumes the same of
  `SendWithToken` and of the gateway's local steps, and nothing of the user, who
  may change the keyring for ever, or of the clock.
* Readers, opening and diff: safety only. That an opening ends needs nothing but
  the fairness of the one process that runs it.

## 4. What is proved

For every value of the constants, under the named assumptions on them. These say
that

* blobs of contents are blobs, nodes of trees are nodes, sizes are numbers, the
  invocations are finitely many, the special secrets differ, limits are positive
  where the code's are, and `None` is none of the values, ids or offsets;
* redirects have some bound, whichever (`RedirectsAssumption`), and statuses three
  digits (`StatusAssumption`);
* the limit of JSON nesting is even and not 0, as 128 is (`NestingAssumption`): an
  empty list of children, one level below its node, then never decides;
* a document is a tree: each position but the first is a child of one other,
  once, as in any parsed JSON (`DocumentsAssumption`). Its ids, fields and shape
  are free: they may be duplicate, malformed, too deep;
* ids have different texts, and Figma writes the prefix `I` in ids of several
  parts and in no others, as does who copies one (`TextAssumption`,
  `PrefixAssumption`, `LinksAssumption`, `ExplicitsAssumption`). This is needed:
  as `normalize_node_id` drops every `I`, one that a user adds by hand to the id
  of a plain node goes unnoticed, and if Figma gave one node the id `I1:2;3:4` and
  another `1:2;3:4`, the second would be taken for the first;
* the key Figma means by a URL is the segment after its branch marker, and no
  key reads "branch" (`LinksAssumption`);
* the token fields of a node have a category, of which there are finitely many.

| Theorem | Module |
| --- | --- |
| `InvariantHolds`, `TypeCorrect`, `HeadsStayReady`, `ImplicitTier1IsSafe`, `ImplicitPullIsSafe`, `ReportedPullIsCurrent`, `StoreImplementsCatalog` | `SnapshotStoreProofs` |
| `BlobsStayPresent`, `GcIsExact` (both of `PruneAloneSpec`) | `SnapshotBlobProofs` |
| `TypeCorrect`, `BudgetIsKept`, `ReportIsComplete`, `LedgerIsClose`, `RetriesAreRecorded`, `ResultIsFresh`, `FailedStagesAreRemoved` | `FigmaGatewayProofs` |
| `ReaderTypeCorrect`, `QueriesReadOneSnapshot`, `UndisturbedQueriesAreWhole`, `HeadQueriesAreSafe`, `OnlyPrunesBreakQueries` | `SnapshotReadersProofs` |
| `OnlineImplementsGateway`, `OnlineTypeCorrect`, `OnlineBudget`, `TokenHolds`, `OneToken`, `AnswersAreTrue`, `QuotaCounts` | `OnlineCommandProofs` |
| `GoodFilesAreIndexed`, `NestingLimitComesFirst`, `PathsAreParentLinks`, `RawViewShowsFile`, `NodeFilterShowsSubtree`, `NothingIsReportedBelow`, `DescendantsOfItDiffer`, `EmptyDiffSaysSame`, `DiffReadsBackwards`, `CategoriesExclude` | `SnapshotDiffProofs` |
| `WritingsMeanTheId`, `InstancesAreNotLocated`, `CommandsMeanOneNode`, `OutlineHidesNothing`, `ReferencesAreOfTheShown`, `VariablesAreOfTheShown`, `PagesAreComplete` | `LocalQueriesProofs` |
| `InvariantHolds`, `TypeCorrect`, `OpenIsMigrated`, `IncompatibleStaysUntouched`, `AloneOpeningsSucceed`, `OldStagesAreReaped` | `StoreOpeningProofs` |

Every invariant and every safety action property of a passing run is among the
statements of these theorems. The arguments:

* *Store.* A HEAD may be moved only by the holder of its lineage's lock
  (`LockInv`), so what a pull read of HEAD is still true when it commits
  (`PullInv`), although its decision, its download and its commit are far apart.
  This is what makes the refusal of an implicit pull hold; the types and the
  property alone are not inductive, as they do not say that the stale copy
  `existing` equals HEAD. Prunes take no lock: only the foreign key, the guard
  of `DeleteRows`, keeps HEADs valid against them, and the proof uses it there
  and nowhere else. `CatalogSpec`, `SnapshotCatalog` with the store's rows and
  HEADs for its variables, follows step by step: commit is `Publish`,
  delete is `Retire`, all else stutters.
* *Blobs.* Only when nothing overlaps a prune. A pull relies on the blobs it has
  put so far (`PutsInv`), a prune on the rows not changing between its scans
  (`PlanInv`: at `delete` its list is exactly what the deletion unreferences).
  Each would be broken by the other at work; the violation of `store_gc_race` is
  the step the proof cannot do without `PruneAlone`.
* *Gateway.* No step of one invocation changes another's variables, so the
  invariant is one invocation's: `BudgetAt` (attempts, arrivals and redirects: no
  more arrivals than attempts and redirects, and fewer while one is on the wire),
  `LedgerAt`
  (which attempt may be missing at which point), `ResultAt` (the receipt, the
  staging file and the bytes read are of the last attempt).
* *Online command.* Every step is a step of the gateway or leaves its variables
  alone (`OnlineImplementsGateway`), so what is proved of the gateway holds of
  the command. `TokenInv` relates the three parts: a request was sent only
  after a resolution that succeeded, and carried its secret, whatever the
  keyring holds by now. `FreshInv` says of each fresh answer that it is what
  `Status` yields of the keyring as it still is; the exceptions of
  `AnswersForetellRequests` are the two variables the code cannot use.
* *Quota.* `QuotaAt` ties the stamps of an invocation to its ledger: a row has
  the stamp of its attempt, and one stamp more is there only while the row is
  being written or after that failed. The report is a sum over invocations of
  finite sets, so the proof adds up cardinalities; that the groupings by tier and
  by endpoint agree with the total follows from their being partitions of the
  same rows.
* *The walk.* No conjunct about rows alone is inductive, since a row gets its
  path from a buffer other calls have filled and shortened, and its hash when
  its children are done. `WalkInv(at)` therefore speaks of a witness `at`, the
  position in the file of the node of each row: rows are of different nodes,
  each is its parent row's j-th child (`RowsInv`); a row whose call is over has
  the hashes of all its children (`DoneInv`); the k-th open call works on the
  first k elements of the path and has closed its children up to the one that is
  open (`CallsInv`). The witness is no variable: each step constructs the next
  one. When the stack is empty every position has a row, and `InsertRows` turns
  that into `TableOf`: the table is the tree of the file. `IndexInv` says it of
  every table there is, and was checked by TLC before it was proved. A file that
  is refused after it was read has a bad node by the same invariant, or a branch
  that is too long, which is the path of the open calls (`DeepCallIsDeep`). Its
  prefix would already have been nested too far for serde_json where that limit
  comes first (`ReadableIsShallow`).
* *The table.* Paths are those of the parent links by induction on depth; raw
  view and file are one JSON, which is made from the last position to the first
  (children come after their parents); the hash of a row determines its subtree,
  and by the same induction its JSON, so that equal hashes and equal raw views
  mean each other. The diff properties follow: what is reported has a different
  hash, so has each ancestor both sides share.
* *Names.* `normalize_node_id` leaves the text of an id outside instances alone,
  and each way of writing it becomes that text; `parse_path` finds the key of
  the branch, after the first marker unless the path ends there. Hence each
  command resolves to the one node with that text, and what is below it by
  `path_ids` is below it by the parent links.
* *Views.* `Unfolds` says of a walk what it answers at each node and level.
  From it follow, by induction from the deepest nodes up, the nodes it shows
  (`WithinFrom`), in which order and that none comes twice (`Lists`), and what a
  limit cuts. `OutlineCovers` is the heart of `OutlineTellsItsCuts`: a node that
  is not shown is below one that shows fewer children than it counts. The
  references and variables are functions of that set of nodes alone.
* *Searches.* The order of rows is total and irreflexive, as siblings have
  different numbers; so `Sorted` lists each match once, a page is an interval of
  the list, and `FollowCursors` is the rest of it. After HEAD moved the first
  page is of another list: what is lost and what comes twice are the differences
  of the two first intervals, which is what the property says.
* *Recursion and induction.* The library's induction theorems have an operator
  for a parameter, which the installed provers cannot instantiate. The proofs
  take the least or the greatest counterexample in its place (`LeastNatural`,
  `GreatestNatural`), of a set that is written out. A recursive function
  `f[x \in S] == ...` is a CHOOSE: that it satisfies its equation needs a solution
  first. The proofs give one (`JsonExists`, `WalksExist`, the rest of a list for
  `FollowCursors`) and then use the equation only.
* *Readers.* `RowInv` (a resolved snapshot is there or is recorded as deleted)
  carries the rest: without a deletion every read sees what the snapshot has, so
  each child of a loaded node is loaded, in hand or pending (`WalkInv`), and
  each table read or on the agenda (`TableInv`). `FollowInv` uses the store's
  HEAD invariant: what is HEAD cannot be deleted. `OnlyPrunesBreakQueries` adds
  the blob invariant.
* *Opening.* The check and the migration are apart, so the property is not
  inductive: `CatalogInv` says that a process that means to migrate still sees a
  catalog that fits, since the only rows others add are this build's
  (`MigrationFits`). `AloneInv` says what an undisturbed process relies on: no
  row of its version while it migrates, and listed files that are still there.
  `ReapInv` follows each old file from the clock to the removal: it is yet to be
  looked at, chosen, gone, or written again.

Only model-checked: the two liveness properties `CommandsEnd` and
`InvocationsEnd`, as proofs under fairness need ENABLED, which the prover does
not support. The violations are counterexamples and have nothing to prove, but
for `AnyNodeCanBeLocated`, whose failure `InstancesAreNotLocated` extends to all
nodes inside instances.

## 5. What is not modelled

* A loss of power. Crashes are those of a process: the kernel's file system
  survives. A renamed blob whose directory was not synced is outside of
  the models.
* `fetched_at`, which says of content that is pulled again when it was first
  fetched, and the order of lists by it; the age at which the reaper removes a
  file in the gateway's module (it may at any moment, which allows more).
* Blob files that a crash or a failed pull leaves behind: no later prune looks
  at them, and no document promises it.
* Requests that the HTTP client repeats on a new connection when a reused one
  was closed before the request was processed: below the model, and not served.
* A lineage lock that stays busy for ever: it is not waited for, and `CommandsEnd`
  says nothing about it.
* HTTP headers, retry-after, the wording and JSON of answers; SQL text;
  compression; the hash function (injective here).
* Openings by two builds at once; `backup_catalog`, which no command calls.
* How LIKE and FTS5 match names and texts: which fields match is a parameter of
  a search. Which JSON fields a compact node keeps, and empty lists of children.
* The grouping of the quota report by command and by file, which differ from
  those by tier and endpoint only in the column.
* Arguments, configuration, envelopes, exit codes and the schema catalog:
  declarations and formatting, without state.

## 6. Plan

Done, in this order: `SnapshotStore` with its abstract specification, then
`FigmaGateway`, `SnapshotReaders`, `DocumentIndex`, `SnapshotDiff`,
`StoreOpening`, `NodeSearch`, `QueryViews`, `FigmaTarget` and `LocalQueries`;
`Credentials`, `QuotaReport` and `OnlineCommand`, which composes them with the
gateway.

Next:

1. Composition of `OnlineCommand` with the pull of `SnapshotStore`: `Download`
   refined by a gateway call, a request count per lineage. The product of the
   two is large: one process each, and abstract bodies.
2. As theorems: what the readers see of a table beside a pull, that is the views
   of `LocalQueries` over a table that `SnapshotReaders` loads, so that "whole"
   means the tree of the file; that a pull's retries and the store's one
   request per empty lineage are about the same requests, once 1. is there.
3. Two builds that open one store at the same time, once there is a second
   migration.
4. The two hazards without a property (blobs that a crash leaves behind, and
   `fetched_at` of a content that is pulled again), should a document promise
   anything about them.
