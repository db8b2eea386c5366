--------------------------- MODULE DocumentIndex ---------------------------
(***************************************************************************)
(* From a downloaded Figma file to the node table and back: the parser     *)
(* (figstash-query parser.rs: parse_file, walk_node), the insertion of its *)
(* rows (figstash-store catalog.rs: insert_node, insert_entities) and the  *)
(* raw view that is rebuilt from them (service.rs: load_raw, transform.rs: *)
(* raw_node).                                                              *)
(*                                                                         *)
(* A file is a tree of JSON nodes at positions 1..n, with the document     *)
(* node at 1.  The fields of a node other than id and children are one     *)
(* value; a blob hash is the value it hashes, so there are no collisions.  *)
(* serde_json refuses JSON that is nested too far before the walk counts   *)
(* any depth; what else is wrong outside the nodes is one Boolean.         *)
(* Its styles, components and component sets are one map, whose keys hold  *)
(* the kind of an entity and its id.                                       *)
(***************************************************************************)
EXTENDS Naturals, SequencesExt

CONSTANTS
    NodeId,     \* Figma node ids
    Fields,     \* what a node says besides its id and its children
    TypeOf,     \* the node type among them
    Malformed,  \* the fields of a node that is no node: no id, no type, ...
    Nesting,    \* how many JSON objects and lists are within one another in fields
    EntityKey,  \* kinds and ids of entities
    Entity,     \* what a file says of one
    Documents,  \* the files that may be downloaded
    MaxDepth,   \* MAX_NODE_DEPTH
    MaxNodes,   \* MAX_NODE_COUNT
    RecursionLimit,  \* the nesting serde_json refuses: 128
    None        \* no parent, no children, no hash yet

\* id and fields by position; the positions of the children in order, each node
\* but the first being a child of one node, once.  A node without children has
\* no "children" field, or one that lists nothing.  envelope: the file is whole,
\* a JSON object with a name, a version and a document, and not nested too far
\* outside the nodes.
ASSUME DocumentsAssumption ==
    \A d \in Documents :
        LET here == DOMAIN d.id
        IN  /\ d.id \in Seq(NodeId) /\ d.id # <<>>
            /\ d.fields \in [here -> Fields \union {Malformed}]
            /\ d.kids \in [here -> Seq(here)]
            /\ d.entities \in UNION {[K -> Entity] : K \in SUBSET EntityKey}
            /\ d.envelope \in BOOLEAN
            /\ \A i \in here : \A k \in ToSet(d.kids[i]) : k > i
            /\ \A k \in here \ {1} : \E i \in here : k \in ToSet(d.kids[i])
            /\ \A i, h \in here : \A j \in DOMAIN d.kids[i], k \in DOMAIN d.kids[h] :
                   d.kids[i][j] = d.kids[h][k] => i = h /\ j = k
ASSUME NoneAssumption == None \notin NodeId
ASSUME LimitsAssumption == MaxDepth \in Nat /\ MaxNodes \in Nat \ {0}
ASSUME NestingAssumption ==
    /\ Nesting \in [Fields \union {Malformed} -> Nat]
    /\ RecursionLimit \in Nat \ {0}
    /\ RecursionLimit % 2 = 0

VARIABLES
    phase,  \* idle, walk (the parser), insert, or how the pull ended; compared
            \* when a diff has read its tables
    doc,    \* the file
    stack,  \* the open calls of walk_node, outermost first
    path,   \* its argument path: the ids of the nodes it is in
    rows,   \* its output
    table,  \* the rows of the snapshot in table nodes, by id
    entities  \* its rows in the tables of entities, by kind and id

walk == <<stack, path, rows>>
tables == <<table, entities>>
indexVars == <<phase, doc, walk, tables>>

Root == 1
Positions(d) == DOMAIN d.id
NoTable == [n \in {} |-> None]
NoEntities == [e \in {} |-> None]
NoFile ==
    [id |-> <<>>, fields |-> <<>>, kids |-> <<>>, entities |-> NoEntities, envelope |-> FALSE]

\* The ways from the document node to a node k levels below it.
Branches(d, k) ==
    {branch \in [0 .. k -> Positions(d)] :
        /\ branch[0] = Root
        /\ \A i \in 1 .. k : branch[i] \in ToSet(d.kids[branch[i - 1]])}

IndexInit ==
    /\ phase = "idle"
    /\ doc = NoFile
    /\ stack = <<>>
    /\ path = <<>>
    /\ rows = <<>>
    /\ table = NoTable
    /\ entities = NoEntities

-----------------------------------------------------------------------------
(***************************************************************************)
(* parse_file and walk_node                                                *)
(***************************************************************************)

\* What serde_json and the envelope let through.  The envelope is one level, and
\* each node is in the list of children of a node: k nodes below the document it
\* is an object 2 * k + 2 levels deep, and its fields are nested in that.
Readable ==
    {d \in Documents :
        /\ d.envelope
        /\ \A k \in 0 .. RecursionLimit \div 2 - 1 : \A branch \in Branches(d, k) :
               2 * k + 2 + Nesting[d.fields[branch[k]]] < RecursionLimit}

\* Refused before any node is looked at.
RefuseFile(d) ==
    /\ phase = "idle"
    /\ d \notin Readable
    /\ phase' = "rejected"
    /\ doc' = d
    /\ UNCHANGED <<walk, tables>>

StartParse(d) ==
    /\ phase = "idle"
    /\ d \in Readable
    /\ phase' = "walk"
    /\ doc' = d
    /\ UNCHANGED <<walk, tables>>

\* The next call: the document node, or the next child of the innermost call.
Calling(pos) ==
    /\ phase = "walk"
    /\ IF rows = <<>>
       THEN pos = Root
       ELSE /\ stack # <<>>
            /\ LET f == Last(stack)
               IN  Len(f.hashes) < Len(doc.kids[f.pos])
                   /\ pos = doc.kids[f.pos][Len(f.hashes) + 1]

\* Variants: one level and one node fewer; the depth is not limited.
AcceptableStrictly(pos) ==
    /\ Len(stack) < MaxDepth
    /\ Len(rows) < MaxNodes
    /\ doc.fields[pos] # Malformed

AcceptableAtAnyDepth(pos) ==
    /\ Len(rows) < MaxNodes
    /\ doc.fields[pos] # Malformed

\* A document node has depth 0; rows are counted before one is added.
Acceptable(pos) ==
    /\ Len(stack) <= MaxDepth
    /\ Len(rows) < MaxNodes
    /\ doc.fields[pos] # Malformed

Enter(pos) ==
    /\ Calling(pos)
    /\ Acceptable(pos)
    /\ path' = Append(path, doc.id[pos])
    /\ rows' = Append(rows,
           [id |-> doc.id[pos],
            parent |-> IF stack = <<>> THEN None ELSE doc.id[Last(stack).pos],
            depth |-> Len(stack),
            order |-> IF stack = <<>> THEN 0 ELSE Len(Last(stack).hashes),
            path |-> path',
            fields |-> doc.fields[pos],
            subtree |-> None])
    /\ stack' = Append(stack, [pos |-> pos, row |-> Len(rows'), hashes |-> <<>>])
    /\ UNCHANGED <<phase, doc, tables>>

\* The whole response is refused, and with it everything parsed so far.
RejectNode(pos) ==
    /\ Calling(pos)
    /\ ~Acceptable(pos)
    /\ phase' = "rejected"
    /\ UNCHANGED <<doc, walk, tables>>

\* Variants: the hashes of the children left out; their order lost.
SubtreeHashOwn(f) == <<doc.id[f.pos], doc.fields[f.pos], <<>> >>

SubtreeHashUnordered(f) ==
    <<doc.id[f.pos], doc.fields[f.pos], ToSet(f.hashes)>>

\* The hash of the node's own JSON and of the hashes of its children.
SubtreeHash(f) == <<doc.id[f.pos], doc.fields[f.pos], f.hashes>>

\* Variant: the path is not shortened.
LeaveOnPath ==
    /\ phase = "walk"
    /\ stack # <<>>
    /\ LET f == Last(stack)
           callers == Front(stack)
           hash == SubtreeHash(f)
       IN  /\ Len(f.hashes) = Len(doc.kids[f.pos])
           /\ rows' = [rows EXCEPT ![f.row].subtree = hash]
           /\ stack' = IF callers = <<>> THEN <<>>
                       ELSE [callers EXCEPT ![Len(callers)].hashes = Append(@, hash)]
    /\ UNCHANGED <<phase, doc, path, tables>>

\* All children are done: the row gets its hash, and the caller the hash.
Leave ==
    /\ phase = "walk"
    /\ stack # <<>>
    /\ LET f == Last(stack)
           callers == Front(stack)
           hash == SubtreeHash(f)
       IN  /\ Len(f.hashes) = Len(doc.kids[f.pos])
           /\ rows' = [rows EXCEPT ![f.row].subtree = hash]
           /\ stack' = IF callers = <<>> THEN <<>>
                       ELSE [callers EXCEPT ![Len(callers)].hashes = Append(@, hash)]
    /\ path' = Front(path)
    /\ UNCHANGED <<phase, doc, tables>>

FinishWalk ==
    /\ phase = "walk"
    /\ stack = <<>>
    /\ rows # <<>>
    /\ phase' = "insert"
    /\ UNCHANGED <<doc, walk, tables>>

-----------------------------------------------------------------------------
(***************************************************************************)
(* The rows of the snapshot                                                *)
(***************************************************************************)

\* Variant: INSERT OR REPLACE, of two rows with one id the later remains.
InsertReplacing ==
    /\ phase = "insert"
    /\ table' = [n \in {r.id : r \in ToSet(rows)} |->
                    rows[CHOOSE i \in DOMAIN rows :
                             /\ rows[i].id = n
                             /\ \A j \in DOMAIN rows : rows[j].id = n => j <= i]]
    /\ entities' = doc.entities
    /\ phase' = "indexed"
    /\ UNCHANGED <<doc, walk>>

\* insert_node and insert_entities row by row, in one transaction.  The primary key
\* (snapshot_id, node_id) aborts it if two nodes have one id.
InsertRows ==
    /\ phase = "insert"
    /\ IF \E i, j \in DOMAIN rows : i # j /\ rows[i].id = rows[j].id
       THEN /\ phase' = "rejected"
            /\ UNCHANGED tables
       ELSE /\ table' = [n \in {r.id : r \in ToSet(rows)} |->
                            CHOOSE r \in ToSet(rows) : r.id = n]
            /\ entities' = doc.entities
            /\ phase' = "indexed"
    /\ UNCHANGED <<doc, walk>>

IndexNext ==
    \/ \E d \in Documents : RefuseFile(d) \/ StartParse(d)
    \/ \E pos \in Positions(doc) : Enter(pos) \/ RejectNode(pos)
    \/ Leave
    \/ FinishWalk
    \/ InsertRows

-----------------------------------------------------------------------------
(***************************************************************************)
(* The raw view                                                            *)
(***************************************************************************)

\* Variant: the children in the order of their ids (no ORDER BY).
ChildIdsAnyhow(t, n) == SetToSeq({k \in DOMAIN t : t[k].parent = n})

\* load_node: the ids of the children, ORDER BY sibling_order.
ChildIds(t, n) ==
    LET kids == {k \in DOMAIN t : t[k].parent = n}
        Before(k) == {m \in kids : t[m].order < t[k].order}
    IN  [i \in 1 .. Cardinality(kids) |->
            CHOOSE k \in kids : Cardinality(Before(k)) = i - 1]

\* raw_node puts a "children" field only where there are children.
RawNode(id, fields, children) ==
    IF children = <<>> THEN [id |-> id, fields |-> fields]
    ELSE [id |-> id, fields |-> fields, children |-> children]

\* load_raw, without a limit of depth.
RawView(t, n) ==
    LET raw[m \in DOMAIN t] ==
            LET kids == ChildIds(t, m)
            IN  RawNode(m, t[m].fields, [i \in DOMAIN kids |-> raw[kids[i]]])
    IN  raw[n]

\* root_node_id.
RootId(t) == CHOOSE n \in DOMAIN t : t[n].parent = None

-----------------------------------------------------------------------------
(***************************************************************************)
(* Properties                                                              *)
(***************************************************************************)

\* The nodes below n in a table, n included, by its parent links.
Below(t, n) ==
    LET in[m \in DOMAIN t] ==
            m = n \/ (t[m].parent # None /\ in[t[m].parent])
    IN  {m \in DOMAIN t : in[m]}

\* The JSON of the document node, without "children" fields that list nothing.
Json(d) ==
    LET json[pos \in Positions(d)] ==
            IF d.kids[pos] = <<>> THEN [id |-> d.id[pos], fields |-> d.fields[pos]]
            ELSE [id |-> d.id[pos], fields |-> d.fields[pos],
                  children |-> [i \in DOMAIN d.kids[pos] |-> json[d.kids[pos][i]]]]
    IN  json[Root]

\* The raw view of an indexed file is the file, node for node and in order,
\* up to lists of children that are empty; and siblings are numbered without a
\* gap.
RawViewIsFile ==
    phase = "indexed" =>
        /\ RawView(table, RootId(table)) = Json(doc)
        /\ \A n \in DOMAIN table :
               {table[k].order : k \in {m \in DOMAIN table : table[m].parent = n}}
                   = {i - 1 : i \in DOMAIN ChildIds(table, n)}

\* The paths and depths of a table are those of its parent links.
PathsAgree(t) ==
    \A n \in DOMAIN t :
        /\ t[n].id = n
        /\ t[n].depth + 1 = Len(t[n].path)
        /\ t[n].parent = None => t[n].path = <<n>>
        /\ t[n].parent # None =>
               /\ t[n].parent \in DOMAIN t
               /\ t[n].path = Append(t[t[n].parent].path, n)

\* What search filters, diff filters and views take from path_ids and depth
\* agrees with the parent links of the table.
PathsFollowParents == phase = "indexed" => PathsAgree(table)

\* A file is refused, after its Tier 1 request was spent, only for a reason: its
\* JSON or its envelope cannot be read, or is nested past the limit of serde_json;
\* a malformed node, a node deeper than MaxDepth, more than MaxNodes nodes, or
\* an id that occurs twice.  And none of these is ever indexed.
TooDeep(d) == Branches(d, MaxDepth + 1) # {}
Indexable(d) ==
    /\ d \in Readable
    /\ \A pos \in Positions(d) : d.fields[pos] # Malformed
    /\ ~TooDeep(d)
    /\ Len(d.id) <= MaxNodes
    /\ \A p, q \in Positions(d) : d.id[p] = d.id[q] => p = q

OnlyGoodFilesAreIndexed ==
    /\ phase = "rejected" => ~Indexable(doc)
    /\ phase = "indexed" => Indexable(doc)
=============================================================================
