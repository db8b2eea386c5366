----------------------- MODULE SnapshotReadersProofs -----------------------
(***************************************************************************)
(* Proofs about the queries of SnapshotReaders: for any number of pulls    *)
(* and prunes beside it, a query reads one snapshot; its answer is whole   *)
(* unless that snapshot was deleted meanwhile; and, where prunes run apart *)
(* from pulls, nothing else makes it fail.                                 *)
(***************************************************************************)
EXTENDS SnapshotReaders, SnapshotBlobProofs

\* What the query has resolved at each point.
SelectInv ==
    /\ rpc \notin {"idle", "missing"} => readLineage \in Lineages /\ left \in SnapshotId
    /\ rpc \in {"idle", "root", "node", "blob", "kids"} => right = None
    /\ rpc = "right" => right \in SnapshotId
    /\ rpc \in {"idle", "row", "right", "root"} =>
           pending = {} /\ got = {} /\ agenda = {} /\ tables = {}
    /\ rpc = "idle" => ~byHead /\ lost = {}

\* A snapshot the query has resolved is there until a prune deletes it.
RowInv ==
    /\ rpc \in ReadPC \ {"row"} => left \in lost \/ left \in snapshots
    /\ rpc \in {"table", "entities"} => right \in lost \union {None} \/ right \in snapshots

\* What it is about to read, and what it has read, is of these snapshots.
SourceInv ==
    /\ AnswersAreOfOneSnapshot
    /\ agenda \subseteq TableName \X {left, right}
    /\ rpc \in {"blob", "kids"} => node \in Item /\ node[2] = NodeBlob[left[2]][node[1]]
    /\ rpc = "entities" => table \in TableId /\ table[2] \in {left, right}

\* Node n is in the answer or will be.
Covered(n) ==
    \/ n \in pending
    \/ rpc \in {"blob", "kids"} /\ node[1] = n
    \/ \E i \in got : i[1] = n

\* While nothing it reads is deleted, the walk misses no node ...
WalkInv ==
    /\ rpc \in {"table", "entities", "answered"} => pending = {}
    /\ /\ rpc \in {"node", "blob", "kids", "table", "entities", "answered"}
       /\ right = None
       /\ lost = {}
       => /\ Covered(Root[left[2]])
          /\ \A i \in got : \A k \in Kids[left[2]][i[1]] : Covered(k)

\* ... and no table is forgotten.
TableInv ==
    /\ rpc = "answered" => agenda = {}
    /\ rpc \in {"table", "entities", "answered"} /\ lost = {} =>
           IF right = None
           THEN <<"entities", left>> \in agenda \union tables
           ELSE TableName \X {left, right} \subseteq agenda \union tables

\* A query of HEAD reads HEAD until HEAD moves, and until then it is safe.
FollowInv ==
    byHead => /\ Reading /\ ~moved => left = heads[readLineage]
              /\ left \in lost => moved

ReaderInv ==
    /\ ReaderTypeOK
    /\ SelectInv
    /\ RowInv
    /\ SourceInv
    /\ WalkInv
    /\ TableInv
    /\ FollowInv

-----------------------------------------------------------------------------
\* Id and content of a snapshot, blob of a node row.
LEMMA SnapshotParts ==
    ASSUME NEW s \in SnapshotId
    PROVE  /\ s # None
           /\ s[1] \in Lineages
           /\ s[2] \in Contents
           /\ Root[s[2]] \in Node
           /\ \A n \in Node : /\ Kids[s[2]][n] \subseteq Node
                              /\ NodeBlob[s[2]][n] \in Blob
                              /\ NodeBlob[s[2]][n] \in Parts[s[2]]
           /\ Entities[s[2]] \subseteq Parts[s[2]]
<1>1. s # None /\ s[1] \in Lineages /\ s[2] \in Contents
  BY NoneAssumption DEF SnapshotId
<1> QED
  BY <1>1, TreeAssumption, NodeBlobAssumption, EntitiesAssumption, PartsAssumption

LEMMA ReaderInitInv == SystemInit => ReaderInv
<1>1. SystemInit => ReaderTypeOK
  BY DEF SystemInit, ReaderInit, ReaderTypeOK, ReadPC, NoItem
<1>2. SystemInit => SelectInv /\ RowInv
  BY DEF SystemInit, ReaderInit, SelectInv, RowInv, ReadPC
<1>3. SystemInit => SourceInv
  BY DEF SystemInit, ReaderInit, SourceInv, AnswersAreOfOneSnapshot
<1>4. SystemInit => WalkInv /\ TableInv /\ FollowInv
  BY DEF SystemInit, ReaderInit, WalkInv, TableInv, FollowInv
<1> QED
  BY <1>1, <1>2, <1>3, <1>4 DEF ReaderInv

-----------------------------------------------------------------------------
(***************************************************************************)
(* Steps of the writers, as the query sees them.                           *)
(***************************************************************************)
LEMMA ObserveKeepsReaderInv ==
    ASSUME ReaderInv, IInv, IInv', Observe
    PROVE  ReaderInv'
<1>1. /\ lost \subseteq lost'
      /\ ReaderTypeOK'
  <2>1. lost \subseteq lost' /\ lost' \subseteq SnapshotId
    BY DEF Observe, ReaderInv, ReaderTypeOK, IInv, TypeOK, history
  <2>2. moved' \in BOOLEAN
    BY DEF Observe, ReaderInv, ReaderTypeOK, history
  <2> QED
    BY <2>1, <2>2 DEF Observe, ReaderInv, ReaderTypeOK, asked, loaded, scanned, history
<1>2. SelectInv'
  BY DEF Observe, ReaderInv, SelectInv, asked, loaded, scanned, history, Reading, ReadPC
<1>3. RowInv'
  BY DEF Observe, ReaderInv, RowInv, asked, loaded, scanned, history, Reading, ReadPC
<1>4. SourceInv'
  BY DEF Observe, ReaderInv, SourceInv, AnswersAreOfOneSnapshot, asked, loaded, scanned
<1>5. WalkInv'
  BY <1>1 DEF Observe, ReaderInv, WalkInv, Covered, asked, loaded, scanned
<1>6. TableInv'
  BY <1>1 DEF Observe, ReaderInv, TableInv, asked, loaded, scanned
<1>7. FollowInv'
  <2>1. CASE ~Reading
    BY <2>1 DEF Observe, ReaderInv, FollowInv, Reading, asked, history
  <2>2. CASE Reading
    <3> SUFFICES ASSUME byHead, ~moved'
                 PROVE  left = heads'[readLineage] /\ left \notin lost'
      BY <2>2 DEF Observe, FollowInv, asked
    <3>1. left = heads[readLineage] /\ left \notin lost
      BY <2>2 DEF Observe, ReaderInv, FollowInv
    <3>2. heads'[readLineage] = left
      BY <2>2, <3>1 DEF Observe
    <3>3. readLineage \in Lineages /\ left \in SnapshotId
      BY <2>2 DEF ReaderInv, SelectInv, Reading, ReadPC
    <3>4. left \in snapshots'
      BY <3>2, <3>3, SnapshotParts DEF IInv, HeadInv, HeadsAreReady
    <3> QED  BY <2>2, <3>1, <3>2, <3>4 DEF Observe
  <2> QED  BY <2>1, <2>2
<1> QED  BY <1>1, <1>2, <1>3, <1>4, <1>5, <1>6, <1>7 DEF ReaderInv

-----------------------------------------------------------------------------
(***************************************************************************)
(* Steps of the query.                                                     *)
(***************************************************************************)
LEMMA AskKeepsReaderInv ==
    ASSUME ReaderInv, IInv, UNCHANGED vars, NEW l \in Lineages,
           \/ AskHead(l)
           \/ \E s \in SnapshotId : AskSnapshot(l, s)
           \/ \E s, t \in SnapshotId : AskDiff(l, s, t)
    PROVE  ReaderInv'
<1>1. /\ rpc = "idle"
      /\ rpc' \in {"row", "missing"}
      /\ readLineage' = l
      /\ UNCHANGED <<loaded, scanned, history>>
  BY DEF AskHead, AskSnapshot, AskDiff, ReadNext
<1>2. /\ left' \in SnapshotId \union {None}
      /\ rpc' = "row" => left' \in SnapshotId
      /\ right' \in SnapshotId \union {None}
      /\ byHead' \in BOOLEAN
      /\ byHead' => left' = heads[l]
  <2>1. byHead = FALSE /\ right = None
    BY <1>1 DEF ReaderInv, ReaderTypeOK, SelectInv
  <2>2. heads[l] \in SnapshotId \union {None}
    BY DEF IInv, TypeOK
  <2>3. CASE AskHead(l)
    BY <2>1, <2>2, <2>3 DEF AskHead, ReadNext
  <2>4. CASE \E s \in SnapshotId : AskSnapshot(l, s)
    BY <2>1, <2>4 DEF AskSnapshot
  <2>5. CASE \E s, t \in SnapshotId : AskDiff(l, s, t)
    BY <2>1, <2>5 DEF AskDiff
  <2> QED  BY <2>3, <2>4, <2>5
<1>3. ReaderTypeOK'
  BY <1>1, <1>2
  DEF ReaderInv, ReaderTypeOK, ReadPC, AnswerPC, loaded, scanned, history
<1>4. SelectInv' /\ RowInv'
  BY <1>1, <1>2
  DEF ReaderInv, SelectInv, RowInv, ReadPC, loaded, scanned, history
<1>5. SourceInv' /\ WalkInv' /\ TableInv'
  BY <1>1
  DEF ReaderInv, SelectInv, SourceInv, AnswersAreOfOneSnapshot, WalkInv, TableInv, loaded,
      scanned, history
<1>6. heads' = heads
  BY DEF vars, store
<1>7. FollowInv'
  BY <1>1, <1>2, <1>6 DEF ReaderInv, SelectInv, FollowInv, history
<1> QED  BY <1>3, <1>4, <1>5, <1>7 DEF ReaderInv

LEMMA ResolveKeepsReaderInv ==
    ASSUME ReaderInv, IInv, UNCHANGED vars, ResolveLeft \/ ResolveRight \/ FindRoot
    PROVE  ReaderInv'
<1>1. ReaderTypeOK'
  BY SnapshotParts
  DEF ResolveLeft, ResolveRight, FindRoot, ReadNext, ReaderInv, ReaderTypeOK, SelectInv,
      ReadPC, AnswerPC, asked, loaded, scanned, history, TableId, TableName
<1>2. SelectInv'
  BY DEF ResolveLeft, ResolveRight, FindRoot, ReadNext, ReaderInv, ReaderTypeOK, SelectInv,
         asked, loaded, scanned, history
<1>3. RowInv'
  BY DEF ResolveLeft, ResolveRight, FindRoot, ReadNext, RowExists, ReaderInv, RowInv,
         SelectInv, ReadPC, asked, history, vars, store
<1>4. SourceInv'
  BY DEF ResolveLeft, ResolveRight, FindRoot, ReadNext, ReaderInv, SelectInv, SourceInv,
         AnswersAreOfOneSnapshot, asked, loaded, scanned
<1>5. WalkInv' /\ TableInv'
  <2>1. CASE ResolveLeft
    BY <2>1 DEF ResolveLeft, ReadNext, WalkInv, TableInv
  <2>2. CASE ResolveRight
    <3>1. right # None /\ pending = {}
      BY <2>2, SnapshotParts DEF ResolveRight, ReaderInv, SelectInv
    <3> QED  BY <2>2, <3>1 DEF ResolveRight, ReadNext, WalkInv, TableInv, asked, loaded
  <2>3. CASE FindRoot
    <3>1. got = {}
      BY <2>3 DEF FindRoot, ReaderInv, SelectInv
    <3> QED  BY <2>3, <3>1 DEF FindRoot, ReadNext, WalkInv, TableInv, Covered, asked
  <2> QED  BY <2>1, <2>2, <2>3
<1>6. FollowInv'
  <2>1. Reading
    BY DEF ResolveLeft, ResolveRight, FindRoot, Reading, ReadPC
  <2>2. UNCHANGED <<asked, history, heads>>
    BY DEF ResolveLeft, ResolveRight, FindRoot, vars, store
  <2> QED  BY <2>1, <2>2 DEF ReaderInv, FollowInv, asked, history
<1> QED  BY <1>1, <1>2, <1>3, <1>4, <1>5, <1>6 DEF ReaderInv

LEMMA WalkKeepsReaderInv ==
    ASSUME ReaderInv, IInv, UNCHANGED vars,
           (\E n \in Node : LoadRow(n)) \/ LoadBlob \/ LoadKids
    PROVE  ReaderInv'
<1>1. left \in SnapshotId /\ right = None
  BY DEF LoadRow, LoadBlob, LoadKids, TakeKids, ReaderInv, SelectInv
<1>2. CASE LoadBlob
  BY <1>2
  DEF LoadBlob, ReadNext, ReaderInv, ReaderTypeOK, SelectInv, RowInv, SourceInv, WalkInv,
      TableInv, FollowInv, AnswersAreOfOneSnapshot, Covered, Reading, ReadPC, AnswerPC,
      asked, loaded, scanned, history, vars, store
<1>3. ASSUME NEW n \in Node, LoadRow(n) PROVE ReaderInv'
  <2>1. ReaderTypeOK' /\ SelectInv' /\ RowInv' /\ TableInv' /\ FollowInv'
    BY <1>1, <1>3, SnapshotParts
    DEF LoadRow, ReadNext, ReaderInv, ReaderTypeOK, SelectInv, RowInv, TableInv, FollowInv,
        Item, Reading, ReadPC, AnswerPC, asked, scanned, history, vars, store
  <2>2. SourceInv'
    BY <1>1, <1>3, SnapshotParts
    DEF LoadRow, ReadNext, ReaderInv, SourceInv, AnswersAreOfOneSnapshot, Item, asked,
        scanned
  <2>3. WalkInv'
    BY <1>3 DEF LoadRow, ReadNext, ReaderInv, WalkInv, Covered, asked, history
  <2> QED  BY <2>1, <2>2, <2>3 DEF ReaderInv
<1>4. CASE LoadKids
  <2> DEFINE kids == IF left \in snapshots THEN Kids[left[2]][node[1]] ELSE {}
  <2>1. /\ rpc = "kids"
        /\ node \in Item /\ node[1] \in Node /\ node[2] = NodeBlob[left[2]][node[1]]
        /\ got' = got \union {node}
        /\ pending' = pending \union kids
        /\ UNCHANGED <<asked, table, tables, history, vars>>
        /\ kids \subseteq Node
    BY <1>1, <1>4, SnapshotParts DEF LoadKids, TakeKids, ReaderInv, SourceInv, Item
  <2>2. \/ /\ pending' = {}
           /\ agenda' = {<<"entities", left>>}
           /\ rpc' = "table"
        \/ agenda' = agenda /\ rpc' = "node"
    BY <1>4 DEF LoadKids, TakeKids, ReadNext
  <2>3. node' = NoItem
    BY <1>4 DEF LoadKids, TakeKids
  <2> HIDE DEF kids
  <2>4. ReaderTypeOK'
    BY <1>1, <2>1, <2>2, <2>3
    DEF ReaderInv, ReaderTypeOK, ReadPC, TableId, TableName, asked, history
  <2>5. SelectInv' /\ RowInv' /\ FollowInv'
    BY <1>1, <2>1, <2>2
    DEF ReaderInv, SelectInv, RowInv, FollowInv, Reading, ReadPC, asked, history, vars, store
  <2>6. SourceInv'
    BY <1>1, <2>1, <2>2
    DEF ReaderInv, SourceInv, AnswersAreOfOneSnapshot, TableName, asked
  <2>7. WalkInv' /\ TableInv'
    <3>1. TableInv'
      BY <1>1, <2>1, <2>2 DEF ReaderInv, TableInv, asked
    <3>2. ASSUME lost = {} PROVE Kids[left[2]][node[1]] = kids
      BY <2>1, <3>2 DEF ReaderInv, RowInv, ReadPC, kids
    <3>3. ASSUME NEW n, Covered(n) PROVE Covered(n)'
      BY <2>1, <3>3 DEF Covered
    <3>4. ASSUME NEW n, n \in kids PROVE Covered(n)'
      BY <2>1, <3>4 DEF Covered
    <3>5. ASSUME lost' = {}
          PROVE  /\ Covered(Root[left[2]])'
                 /\ \A i \in got' : \A k \in Kids[left[2]][i[1]] : Covered(k)'
      <4>1. lost = {}
        BY <2>1, <3>5 DEF history
      <4>2. Covered(Root[left[2]])
        BY <1>1, <2>1, <4>1 DEF ReaderInv, WalkInv
      <4>3. ASSUME NEW i \in got, NEW k \in Kids[left[2]][i[1]] PROVE Covered(k)
        BY <1>1, <2>1, <4>1 DEF ReaderInv, WalkInv
      <4>4. ASSUME NEW k \in Kids[left[2]][node[1]] PROVE Covered(k)'
        BY <3>2, <3>4, <4>1
      <4>5. left' = left
        BY <2>1 DEF asked
      <4>6. Covered(Root[left[2]])'
        BY <3>3, <4>2, <4>5
      <4>7. ASSUME NEW i \in got', NEW k \in Kids[left[2]][i[1]] PROVE Covered(k)'
        <5>1. CASE i \in got
          BY <3>3, <4>3, <4>7, <5>1
        <5>2. CASE i = node
          BY <4>4, <4>7, <5>2
        <5> QED  BY <2>1, <4>7, <5>1, <5>2
      <4> QED  BY <4>6, <4>7
    <3> QED  BY <1>1, <2>1, <2>2, <3>1, <3>5 DEF WalkInv, asked
  <2> QED  BY <2>4, <2>5, <2>6, <2>7 DEF ReaderInv
<1> QED  BY <1>2, <1>3, <1>4

LEMMA ScanKeepsReaderInv ==
    ASSUME ReaderInv, IInv, UNCHANGED vars,
           (\E r \in TableId : ReadTable(r)) \/ ReadEntities
    PROVE  ReaderInv'
<1>1. left \in SnapshotId
  BY DEF ReadTable, ReadEntities, ReaderInv, SelectInv
<1>2. CASE ReadEntities
  BY <1>2
  DEF ReadEntities, ReadNext, ReaderInv, ReaderTypeOK, SelectInv, RowInv, SourceInv, WalkInv,
      TableInv, FollowInv, AnswersAreOfOneSnapshot, Covered, Reading, ReadPC, AnswerPC,
      asked, loaded, scanned, history, vars, store
<1>3. ASSUME NEW r \in TableId, ReadTable(r) PROVE ReaderInv'
  <2>1. /\ rpc = "table"
        /\ r \in agenda
        /\ agenda' = agenda \ {r}
        /\ rpc' \in {"table", "entities", "answered"}
        /\ rpc' = "answered" => agenda' = {}
        /\ rpc' = "entities" => table' = r
        /\ tables' = IF r[2] \in snapshots THEN tables \union {r} ELSE tables
        /\ table' \in {r, table}
        /\ UNCHANGED <<asked, loaded, history, vars>>
    BY <1>3 DEF ReadTable, ReadNext, AfterTable
  <2>2. r \in TableName \X {left, right} /\ r[2] \in {left, right}
    BY <2>1 DEF ReaderInv, SourceInv
  <2>3. ReaderTypeOK' /\ SelectInv' /\ RowInv' /\ FollowInv'
    BY <1>1, <2>1
    DEF ReaderInv, ReaderTypeOK, SelectInv, RowInv, FollowInv, Reading, ReadPC, AnswerPC,
        asked, loaded, history, vars, store
  <2>4. SourceInv'
    BY <2>1, <2>2
    DEF ReaderInv, SourceInv, AnswersAreOfOneSnapshot, asked, loaded
  <2>5. WalkInv'
    BY <2>1 DEF ReaderInv, WalkInv, Covered, asked, loaded, history
  <2>6. ASSUME lost = {} PROVE r[2] \in snapshots
    <3>1. r[2] # None
      BY SnapshotParts DEF TableId
    <3> QED  BY <2>1, <2>2, <2>6, <3>1 DEF ReaderInv, RowInv, ReadPC
  <2>7. TableInv'
    BY <2>1, <2>6 DEF ReaderInv, TableInv, asked, history
  <2> QED  BY <2>3, <2>4, <2>5, <2>7 DEF ReaderInv
<1> QED  BY <1>2, <1>3

-----------------------------------------------------------------------------
\* With the query beside them, the writers behave as without it.
LEMMA SystemIsSpec == SystemSpec => Spec
<1>1. SystemInit => Init
  BY DEF SystemInit
<1>2. [SystemNext]_<<vars, readerVars>> => [Next]_vars
  BY DEF SystemNext
<1> QED  BY <1>1, <1>2, PTL DEF SystemSpec, Spec

\* The inductive invariant of the queries.
LEMMA ReaderInvHolds == SystemSpec => []ReaderInv
<1>1. ASSUME ReaderInv, IInv, IInv', [SystemNext]_<<vars, readerVars>> PROVE ReaderInv'
  <2>1. CASE Next /\ Observe
    BY <1>1, <2>1, ObserveKeepsReaderInv
  <2>2. CASE ReaderNext /\ UNCHANGED vars
    BY <1>1, <2>2, AskKeepsReaderInv, ResolveKeepsReaderInv, WalkKeepsReaderInv,
       ScanKeepsReaderInv
    DEF ReaderNext
  <2>3. CASE UNCHANGED <<vars, readerVars>>
    BY <1>1, <2>3
    DEF vars, store, readerVars, asked, loaded, scanned, history, ReaderInv, ReaderTypeOK,
        SelectInv, RowInv, SourceInv, WalkInv, TableInv, FollowInv,
        AnswersAreOfOneSnapshot, Covered, Reading
  <2> QED  BY <1>1, <2>1, <2>2, <2>3 DEF SystemNext
<1> QED  BY <1>1, ReaderInitInv, SystemIsSpec, InvariantHolds, PTL DEF SystemSpec

\* Type correctness of the queries.
THEOREM ReaderTypeCorrect == SystemSpec => []ReaderTypeOK
BY ReaderInvHolds, PTL DEF ReaderInv

\* A query never mixes snapshots, however often HEAD moves.
THEOREM QueriesReadOneSnapshot == SystemSpec => []AnswersAreOfOneSnapshot
BY ReaderInvHolds, PTL DEF ReaderInv, SourceInv

\* An answer lacks something only if what it was read from was deleted.
THEOREM UndisturbedQueriesAreWhole == SystemSpec => []UndisturbedAnswersAreWhole
<1>1. ReaderInv => UndisturbedAnswersAreWhole
  <2> SUFFICES ASSUME ReaderInv, rpc = "answered", lost = {} PROVE Whole
    BY DEF UndisturbedAnswersAreWhole
  <2>1. CASE right = None
    BY <2>1 DEF ReaderInv, WalkInv, TableInv, Covered, Whole
  <2>2. CASE right # None
    BY <2>2 DEF ReaderInv, TableInv, Whole
  <2> QED  BY <2>1, <2>2
<1> QED  BY <1>1, ReaderInvHolds, PTL

\* While nobody pulls, a prune never disturbs a query of HEAD.
THEOREM HeadQueriesAreSafe == SystemSpec => []HeadQueriesLoseOnlyOldHeads
<1>1. ReaderInv => HeadQueriesLoseOnlyOldHeads
  BY DEF ReaderInv, FollowInv, HeadQueriesLoseOnlyOldHeads
<1> QED  BY <1>1, ReaderInvHolds, PTL

-----------------------------------------------------------------------------
(***************************************************************************)
(* Where no pull runs beside a prune.                                      *)
(***************************************************************************)
LEMMA SystemAloneIsPruneAlone == SystemAloneSpec => PruneAloneSpec /\ SystemSpec
<1>1. SystemInit => Init
  BY DEF SystemInit
<1>2. [SystemNext /\ PruneAlone']_<<vars, readerVars>> => [Next /\ PruneAlone']_vars
  BY DEF SystemNext
<1>3. [SystemNext /\ PruneAlone']_<<vars, readerVars>> => [SystemNext]_<<vars, readerVars>>
  OBVIOUS
<1> QED  BY <1>1, <1>2, <1>3, PTL DEF SystemAloneSpec, SystemSpec, PruneAloneSpec

\* Then only a prune of the snapshot it reads makes a query fail.
THEOREM OnlyPrunesBreakQueries == SystemAloneSpec => []OnlyPruneBreaksQueries
<1>1. SystemInit => OnlyPruneBreaksQueries
  BY DEF SystemInit, ReaderInit, OnlyPruneBreaksQueries
<1>2. ASSUME OnlyPruneBreaksQueries, ReaderInv, BlobsPresent,
             [SystemNext]_<<vars, readerVars>>
      PROVE  OnlyPruneBreaksQueries'
  <2>1. ASSUME NEW s \in SnapshotId, s \in snapshots PROVE Parts[s[2]] \subseteq blobs
    BY <1>2, <2>1 DEF BlobsPresent, Referenced, PartBlobs
  <2>2. CASE Next /\ Observe
    BY <1>2, <2>2
    DEF Observe, OnlyPruneBreaksQueries, Reading, ReadPC, history
  <2>3. CASE UNCHANGED <<vars, readerVars>>
    BY <1>2, <2>3 DEF readerVars, history, OnlyPruneBreaksQueries
  <2>4. CASE FindRoot \/ \E n \in Node : LoadRow(n)
    BY <1>2, <2>4
    DEF FindRoot, LoadRow, ReadNext, OnlyPruneBreaksQueries, ReaderInv, RowInv, ReadPC,
        history
  <2>5. CASE LoadBlob
    <3>1. left \in SnapshotId /\ node \in Item /\ node[2] = NodeBlob[left[2]][node[1]]
      BY <1>2, <2>5 DEF LoadBlob, ReaderInv, SelectInv, SourceInv
    <3>2. node[2] \in Parts[left[2]]
      BY <3>1, SnapshotParts DEF Item
    <3> QED  BY <1>2, <2>1, <2>5, <3>1, <3>2
             DEF LoadBlob, ReadNext, OnlyPruneBreaksQueries, ReaderInv, RowInv, ReadPC,
                 history
  <2>6. CASE ReadEntities
    <3>1. /\ table[2] \in {left, right}
          /\ table[2] \in SnapshotId
      BY <1>2, <2>6 DEF ReadEntities, ReaderInv, SourceInv, TableId
    <3>2. Entities[table[2][2]] \subseteq Parts[table[2][2]] /\ table[2] # None
      BY <3>1, SnapshotParts
    <3> QED  BY <1>2, <2>1, <2>6, <3>1, <3>2
             DEF ReadEntities, ReadNext, OnlyPruneBreaksQueries, ReaderInv, RowInv, ReadPC,
                 history
  <2>7. CASE \/ \E l \in Lineages : AskHead(l)
             \/ \E l \in Lineages, s \in SnapshotId : AskSnapshot(l, s)
             \/ \E l \in Lineages, s, t \in SnapshotId : AskDiff(l, s, t)
             \/ ResolveLeft \/ ResolveRight \/ LoadKids
             \/ \E r \in TableId : ReadTable(r)
    BY <2>7
    DEF AskHead, AskSnapshot, AskDiff, ResolveLeft, ResolveRight, LoadKids, TakeKids,
        ReadTable, AfterTable, ReadNext, OnlyPruneBreaksQueries
  <2> QED  BY <1>2, <2>2, <2>3, <2>4, <2>5, <2>6, <2>7 DEF SystemNext, ReaderNext
<1>3. SystemAloneSpec => SystemInit /\ [][SystemNext]_<<vars, readerVars>>
  BY SystemAloneIsPruneAlone, PTL DEF SystemSpec
<1> QED  BY <1>1, <1>2, <1>3, ReaderInvHolds, BlobsStayPresent, SystemAloneIsPruneAlone, PTL
=============================================================================
