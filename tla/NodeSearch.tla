----------------------------- MODULE NodeSearch -----------------------------
(***************************************************************************)
(* `node search` over the node table of one snapshot (figstash-store       *)
(* catalog.rs: search_nodes, parse_cursor) and the client that follows its *)
(* cursors, page by page.  A cursor is an offset into the sorted matches;  *)
(* every page sorts and counts anew.                                       *)
(***************************************************************************)
EXTENDS DocumentIndex

CONSTANTS
    Queries,       \* what a user searches for
    Limits,        \* the limits a user may ask for, 0 for none
    DefaultLimit,  \* the page size without a limit (100)
    MaxLimit,      \* the largest page size (1,000)
    Rank           \* the order of ids in the text of path_ids

\* says: the fields whose name, or text, matches.
ASSUME QueriesAssumption ==
    \A q \in Queries :
        /\ q.says \subseteq Fields
        /\ q.type \in {TypeOf[x] : x \in Fields} \union {None}
        /\ q.ancestor \in NodeId \union {None}
ASSUME PageSizeAssumption ==
    /\ Limits \subseteq Nat
    /\ DefaultLimit \in Nat \ {0} /\ MaxLimit \in Nat \ {0}
ASSUME CursorAssumption == None \notin Nat
ASSUME RankAssumption == Rank \in [NodeId -> Nat] /\ IsInjective(Rank)

-----------------------------------------------------------------------------
\* The effective page size.
PageSize(asked) == IF asked = 0 THEN DefaultLimit ELSE Min({asked, MaxLimit})

\* WHERE: the node's own fields, and its path for the ancestor.
Found(t, q) ==
    {n \in DOMAIN t :
        /\ t[n].fields \in q.says
        /\ q.type = None \/ TypeOf[t[n].fields] = q.type
        /\ q.ancestor = None \/ q.ancestor \in ToSet(t[n].path)}

PathBefore(p, q) ==
    \E i \in DOMAIN p \intersect DOMAIN q :
        Rank[p[i]] < Rank[q[i]] /\ \A j \in 1 .. i - 1 : p[j] = q[j]

\* ORDER BY depth, path_ids: two rows of one depth differ in their paths, and
\* sibling_order and node_id never decide.
RowBefore(a, b) ==
    \/ a.depth < b.depth
    \/ a.depth = b.depth /\ PathBefore(a.path, b.path)

Sorted(t, q) ==
    LET found == Found(t, q)
        Before(n) == {m \in found : RowBefore(t[m], t[n])}
    IN  [i \in 1 .. Cardinality(found) |->
            CHOOSE n \in found : Cardinality(Before(n)) = i - 1]

\* LIMIT and OFFSET.
Page(t, q, asked, offset) ==
    LET all == Sorted(t, q)
    IN  SubSeq(all, offset + 1, Min({Len(all), offset + PageSize(asked)}))

\* Variant: the cursor advances by the limit that was asked for.
NextCursorAsAsked(asked, offset, page) ==
    IF Len(page) = PageSize(asked)
    THEN offset + IF asked = 0 THEN DefaultLimit ELSE asked
    ELSE None

\* A full page has a cursor, also if it happens to be the last.
NextCursor(asked, offset, page) ==
    IF Len(page) = PageSize(asked) THEN offset + PageSize(asked) ELSE None

\* The pages from a cursor on, one after another; parse_cursor accepts any offset.
FollowCursors(t, q, asked, cursor) ==
    LET from[offset \in Nat] ==
            LET page == Page(t, q, asked, offset)
                next == NextCursor(asked, offset, page)
            IN  IF next = None THEN page ELSE page \o from[next]
    IN  IF cursor = None THEN <<>> ELSE from[cursor]
=============================================================================
