---------------------------- MODULE SnapshotDiff ----------------------------
(***************************************************************************)
(* `snapshot diff` (figstash-query diff.rs: compare_snapshots,             *)
(* compare_nodes, matches_filters, compare_entities): the comparison of    *)
(* two snapshots that were indexed as in DocumentIndex.                    *)
(***************************************************************************)
EXTENDS DocumentIndex

CONSTANTS
    Filters    \* the filters a user may ask for

Unset == None

ASSUME FiltersAssumption ==
    \A f \in Filters :
        /\ f.node \in NodeId \union {Unset}
        /\ f.type \in {TypeOf[x] : x \in Fields} \union {Unset}
        /\ f.prefix \in Seq(NodeId)

NoFilter == [node |-> Unset, type |-> Unset, prefix |-> <<>>]
ASSUME NoFilterAssumption == NoFilter \in Filters

VARIABLES
    before,  \* table nodes of the first snapshot
    after,   \* ... of the second
    beforeEntities,  \* tables of entities of the first snapshot
    afterEntities,   \* ... of the second
    view,    \* raw view of the first, as it was downloaded (history)
    filter,  \* the filters of the command
    diff,    \* what it answers of nodes, or None
    entityDiff  \* ... of entities, or None

first == <<before, beforeEntities>>
diffVars == <<first, after, afterEntities, view, filter, diff, entityDiff>>
vars == <<indexVars, diffVars>>

Categories == {"added", "removed", "changed", "moved", "descendantOnly"}
EntityCategories == {"added", "removed", "changed"}

Init ==
    /\ IndexInit
    /\ before = NoTable
    /\ after = NoTable
    /\ beforeEntities = NoEntities
    /\ afterEntities = NoEntities
    /\ view = None
    /\ filter = NoFilter
    /\ diff = None
    /\ entityDiff = None

-----------------------------------------------------------------------------
\* Variant: only the node itself, not what is below it.
MatchesItself(rows_, f) ==
    \E r \in rows_ :
        /\ f.node = Unset \/ f.node = r.id
        /\ f.type = Unset \/ TypeOf[r.fields] = f.type
        /\ IsPrefix(f.prefix, r.path)

\* matches_filters: one of the node's rows satisfies all three filters.
Matches(rows_, f) ==
    \E r \in rows_ :
        /\ f.node = Unset \/ f.node \in ToSet(r.path)
        /\ f.type = Unset \/ TypeOf[r.fields] = f.type
        /\ IsPrefix(f.prefix, r.path)

Own(r) == <<r.id, r.fields>>

\* Its direct parent or its place among its siblings is another.
Moved(a, b) == a.parent # b.parent \/ a.order # b.order

\* Variant: a node whose own fields changed counts here as well.
DescendantsDifferAnyway(a, b) == ~Moved(a, b) /\ a.subtree # b.subtree

DescendantsDiffer(a, b) ==
    /\ Own(a) = Own(b)
    /\ ~Moved(a, b)
    /\ a.subtree # b.subtree

\* The one row or two rows of a node.
RowsOf(old, new, n) ==
    {old[m] : m \in DOMAIN old \intersect {n}}
        \union {new[m] : m \in DOMAIN new \intersect {n}}

CompareNodes(old, new, f) ==
    LET Kept(n) == Matches(RowsOf(old, new, n), f)
        Both == {n \in DOMAIN old \intersect DOMAIN new : Kept(n)}
    IN  [added |-> {n \in DOMAIN new \ DOMAIN old : Kept(n)},
         removed |-> {n \in DOMAIN old \ DOMAIN new : Kept(n)},
         changed |-> {n \in Both : Own(old[n]) # Own(new[n])},
         moved |-> {n \in Both : Moved(old[n], new[n])},
         descendantOnly |-> {n \in Both : DescendantsDiffer(old[n], new[n])}]

\* Aligned by kind and id, whatever the filters say.
CompareEntities(old, new) ==
    [added |-> DOMAIN new \ DOMAIN old,
     removed |-> DOMAIN old \ DOMAIN new,
     changed |-> {e \in DOMAIN old \intersect DOMAIN new : old[e] # new[e]}]

\* The first snapshot is indexed; the next pull starts.
KeepFirst ==
    /\ phase = "indexed"
    /\ before = NoTable
    /\ before' = table
    /\ beforeEntities' = entities
    /\ view' = Json(doc)
    /\ phase' = "idle"
    /\ doc' = NoFile
    /\ stack' = <<>> /\ path' = <<>> /\ rows' = <<>>
    /\ table' = NoTable
    /\ entities' = NoEntities
    /\ UNCHANGED <<after, afterEntities, filter, diff, entityDiff>>

Compare(f) ==
    /\ phase = "indexed"
    /\ before # NoTable
    /\ phase' = "compared"
    /\ after' = table
    /\ afterEntities' = entities
    /\ filter' = f
    /\ diff' = CompareNodes(before, table, f)
    /\ entityDiff' = CompareEntities(beforeEntities, entities)
    /\ UNCHANGED <<doc, walk, tables, first, view>>

Next ==
    \/ IndexNext /\ UNCHANGED diffVars
    \/ KeepFirst
    \/ \E f \in Filters : Compare(f)

Spec == Init /\ [][Next]_vars

-----------------------------------------------------------------------------
(***************************************************************************)
(* Properties of the answer                                                *)
(***************************************************************************)
Reported == UNION {diff[c] : c \in Categories}

ReportedEntities == UNION {entityDiff[c] : c \in EntityCategories}

\* An unfiltered diff is empty if, and only if, the two snapshots say the
\* same: nothing that `node get --view raw` shows, and no entity, can change
\* unreported.
EmptyDiffMeansSame ==
    diff # None /\ filter = NoFilter =>
        /\ Reported = {} <=> RawView(after, RootId(after)) = view
        /\ ReportedEntities = {} <=> afterEntities = beforeEntities

\* Whoever sees that a node above is not reported may skip all below it:
\* every retained ancestor of a reported node is reported.
AncestorsAreReported ==
    diff # None /\ filter = NoFilter =>
        \A n \in DOMAIN before \intersect DOMAIN after :
            n \notin Reported =>
                /\ Below(before, n) = Below(after, n)
                /\ Below(after, n) \intersect Reported = {}

\* "descendantOnly" is never a false alarm: the node is as it was and where
\* it was, and something below it is added, removed, changed or moved.
DescendantOnlyIsTrue ==
    diff # None /\ filter = NoFilter =>
        \A n \in diff["descendantOnly"] :
            /\ before[n].fields = after[n].fields
            /\ \E m \in (Below(before, n) \union Below(after, n)) \ {n} :
                   m \in Reported \ diff["descendantOnly"]

\* --node restricts the diff to the nodes below the node in either snapshot,
\* and loses none of them, wherever they moved.
NodeFilterIsSubtree ==
    diff # None /\ filter.node # Unset /\ filter.type = Unset /\ filter.prefix = <<>> =>
        \A c \in Categories :
            diff[c] = CompareNodes(before, after, NoFilter)[c]
                          \intersect (Below(before, filter.node) \union
                                      Below(after, filter.node))
=============================================================================
