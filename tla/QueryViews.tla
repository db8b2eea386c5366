----------------------------- MODULE QueryViews -----------------------------
(***************************************************************************)
(* The views that queries build from one snapshot (figstash-query          *)
(* service.rs: node_get, outline, tokens_get, components_list and their    *)
(* loaders; transform.rs: compact_node, derive_variables; catalog.rs:      *)
(* component_usage).  Every view walks the node table on its own, and most *)
(* stop at a depth; what the walks of different commands say of the same   *)
(* nodes has to agree.                                                     *)
(***************************************************************************)
EXTENDS DocumentIndex

CONSTANTS
    Styles, Components, ComponentSets,  \* the kinds of entities, by their keys
    StylesOf,     \* the entities the "styles" of a node refer to
    ComponentOf,  \* its "componentId", or None
    NodeOf,       \* the "node_id" of an entity, or None
    TokensOf,     \* the values of TOKEN_FIELDS a node has
    Category,     \* token_category
    Depths        \* what --depth may be, None for no limit

ASSUME KindsAssumption ==
    /\ EntityKey = Styles \union Components \union ComponentSets
    /\ NodeOf \in [Entity -> NodeId \union {None}]
ASSUME FieldsAssumption ==
    /\ StylesOf \in [Fields -> SUBSET EntityKey]
    /\ ComponentOf \in [Fields -> EntityKey \union {None}]
    /\ \A f \in Fields : DOMAIN TokensOf[f] \subseteq DOMAIN Category
    /\ IsFiniteSet(DOMAIN Category)
ASSUME DepthsAssumption == Depths \subseteq Nat \union {None} /\ None \in Depths

-----------------------------------------------------------------------------
(***************************************************************************)
(* The walks                                                               *)
(***************************************************************************)

\* current_depth < max_depth, if there is one.
GoesDeeper(level, limit) == limit = None \/ level < limit

Visited(t, n, level, limit) ==
    IF GoesDeeper(level, limit) THEN ChildIds(t, n) ELSE <<>>

\* Variant: the number of children that are shown.
OutlineNodeOfShown(t, n, children) ==
    [id |-> n, depth |-> t[n].depth, path |-> t[n].path,
     childCount |-> Len(children), children |-> children]

OutlineNode(t, n, children) ==
    [id |-> n, depth |-> t[n].depth, path |-> t[n].path,
     childCount |-> Len(ChildIds(t, n)), children |-> children]

\* load_outline.
Outline(t, n, limit) ==
    LET load[m \in DOMAIN t] ==
            [level \in Nat |->
                LET kids == Visited(t, m, level, limit)
                IN  OutlineNode(t, m, [i \in DOMAIN kids |-> load[kids[i]][level + 1]])]
    IN  load[n][0]

\* compact_node: of the fields those the references are about.
CompactNode(t, n, children) ==
    [id |-> n, depth |-> t[n].depth, path |-> t[n].path,
     styles |-> StylesOf[t[n].fields],
     component |-> ComponentOf[t[n].fields],
     children |-> children]

\* Variant: a node is selected after its children were, and only if it has none.
LoadCompactLeaves(t, n, limit) ==
    LET load[m \in DOMAIN t] ==
            [level \in Nat |->
                LET kids == Visited(t, m, level, limit)
                    below == [i \in DOMAIN kids |-> load[kids[i]][level + 1]]
                IN  [node |-> CompactNode(t, m, [i \in DOMAIN kids |-> below[i].node]),
                     selected |-> IF kids = <<>> THEN <<m>>
                                  ELSE FlattenSeq([i \in DOMAIN kids |-> below[i].selected])]]
    IN  load[n][0]

\* load_compact: the tree, and the nodes in it as they were pushed to
\* selected_nodes.
LoadCompact(t, n, limit) ==
    LET load[m \in DOMAIN t] ==
            [level \in Nat |->
                LET kids == Visited(t, m, level, limit)
                    below == [i \in DOMAIN kids |-> load[kids[i]][level + 1]]
                IN  [node |-> CompactNode(t, m, [i \in DOMAIN kids |-> below[i].node]),
                     selected |-> <<m>> \o
                         FlattenSeq([i \in DOMAIN kids |-> below[i].selected])]]
    IN  load[n][0]

\* collect_nodes.
CollectNodes(t, n) ==
    LET collect[m \in DOMAIN t] ==
            LET kids == ChildIds(t, m)
            IN  <<m>> \o FlattenSeq([i \in DOMAIN kids |-> collect[kids[i]]])
    IN  collect[n]

-----------------------------------------------------------------------------
(***************************************************************************)
(* What the answers say besides the nodes                                  *)
(***************************************************************************)

\* The token fields of a list of nodes: position in the list, and field.
TokenUses(t, nodes) ==
    {use \in (DOMAIN nodes) \X (DOMAIN Category) :
        use[2] \in DOMAIN TokensOf[t[nodes[use[1]]].fields]}

\* Values are grouped by category: a fill and a stroke of one colour meet.
TokenKey(t, nodes, use) ==
    <<Category[use[2]], TokensOf[t[nodes[use[1]]].fields][use[2]]>>

\* derive_variables: the values that occur more than once.
DeriveVariables(t, nodes) ==
    LET UsesOf(key) == {u \in TokenUses(t, nodes) : TokenKey(t, nodes, u) = key}
        keys == {TokenKey(t, nodes, u) : u \in TokenUses(t, nodes)}
    IN  {[key |-> key,
          occurrences |-> Cardinality(UsesOf(key)),
          references |-> {<<nodes[u[1]], u[2]>> : u \in UsesOf(key)}] :
            key \in {k \in keys : Cardinality(UsesOf(k)) > 1}}

\* Variant: the selected node's own references, without its descendants'.
ReferencesOfRoot(t, ents, selected) ==
    LET ids == {selected[1]}
        Indexed(kind) == DOMAIN ents \intersect kind
    IN  [styles |-> {e \in Indexed(Styles) : \E n \in ids : e \in StylesOf[t[n].fields]},
         components |->
             {e \in Indexed(Components) :
                 (\E n \in ids : ComponentOf[t[n].fields] = e) \/ NodeOf[ents[e]] \in ids},
         sets |-> {e \in Indexed(ComponentSets) : NodeOf[ents[e]] \in ids},
         variables |-> DeriveVariables(t, selected)]

\* node_references: which of the indexed entities the selected nodes use or are.
References(t, ents, selected) ==
    LET ids == ToSet(selected)
        Indexed(kind) == DOMAIN ents \intersect kind
    IN  [styles |-> {e \in Indexed(Styles) : \E n \in ids : e \in StylesOf[t[n].fields]},
         components |->
             {e \in Indexed(Components) :
                 (\E n \in ids : ComponentOf[t[n].fields] = e) \/ NodeOf[ents[e]] \in ids},
         sets |-> {e \in Indexed(ComponentSets) : NodeOf[ents[e]] \in ids},
         variables |-> DeriveVariables(t, selected)]

\* node get --view compact (and context).
NodeGet(t, ents, n, limit) ==
    LET loaded == LoadCompact(t, n, limit)
    IN  [node |-> loaded.node, references |-> References(t, ents, loaded.selected)]

\* tokens get.
TokensGet(t, ents) ==
    [namedStyles |-> DOMAIN ents \intersect Styles,
     globalVars |-> DeriveVariables(t, CollectNodes(t, RootId(t)))]

\* component_usage: the index on component_id knows nothing of the tree.
Usage(t, e) == {n \in DOMAIN t : ComponentOf[t[n].fields] = e}

\* components list.
ComponentsList(t, ents) ==
    [components |-> DOMAIN ents \intersect Components,
     sets |-> DOMAIN ents \intersect ComponentSets,
     usage |-> [e \in DOMAIN ents \intersect Components |-> Usage(t, e)]]

-----------------------------------------------------------------------------
(***************************************************************************)
(* Properties                                                              *)
(***************************************************************************)

\* The nodes of an answer, by its own nesting.
Shown(tree) ==
    LET level[k \in 0 .. MaxDepth] ==
            IF k = 0 THEN {tree} ELSE UNION {ToSet(x.children) : x \in level[k - 1]}
    IN  UNION {level[k] : k \in 0 .. MaxDepth}
ShownIds(tree) == {x.id : x \in Shown(tree)}

Within(t, n, limit) ==
    {m \in Below(t, n) : limit = None \/ t[m].depth - t[n].depth <= limit}

\* An outline and a compact view of one depth show the same nodes, which are
\* those that many levels below by the parent links.  And an outline tells
\* where it stops: whoever asks again for each node that has more children
\* than are shown has seen every node below the first.
OutlineTellsItsCuts ==
    phase = "indexed" =>
        \A n \in DOMAIN table, limit \in Depths :
            LET answer == Outline(table, n, limit)
                cut == {x \in Shown(answer) : Len(x.children) < x.childCount}
            IN  /\ ShownIds(answer) = Within(table, n, limit)
                /\ ShownIds(NodeGet(table, entities, n, limit).node) = ShownIds(answer)
                /\ ShownIds(answer) \union UNION {Below(table, x.id) : x \in cut}
                       = Below(table, n)
                /\ limit = None => cut = {}

\* The references of a view go with the nodes it shows, at every depth: each
\* style a shown node uses and the file defines is explained, each component
\* that `components list` says is used by a shown node, or that is one; and
\* nothing else is.
ReferencesFollowTheShownNodes ==
    phase = "indexed" =>
        \A n \in DOMAIN table, limit \in Depths :
            LET answer == NodeGet(table, entities, n, limit)
                shown == Shown(answer.node)
                listed == ComponentsList(table, entities)
                named == TokensGet(table, entities).namedStyles
            IN  /\ answer.references.styles = named \intersect UNION {x.styles : x \in shown}
                /\ answer.references.components =
                       {e \in listed.components :
                           \/ listed.usage[e] \intersect ShownIds(answer.node) # {}
                           \/ NodeOf[entities[e]] \in ShownIds(answer.node)}
                /\ answer.references.sets =
                       {e \in listed.sets : NodeOf[entities[e]] \in ShownIds(answer.node)}

\* The variables of a view are those of `tokens get` as far as the view goes:
\* a value is one of them exactly if it occurs twice among the shown nodes,
\* and then with all its occurrences there.
ViewVariablesAreTokens ==
    phase = "indexed" =>
        \A n \in DOMAIN table, limit \in Depths :
            LET answer == NodeGet(table, entities, n, limit)
                shown == ShownIds(answer.node)
            IN  answer.references.variables =
                    {v \in {[key |-> g.key,
                             occurrences |-> Cardinality({r \in g.references : r[1] \in shown}),
                             references |-> {r \in g.references : r[1] \in shown}] :
                                g \in TokensGet(table, entities).globalVars} :
                        v.occurrences > 1}
=============================================================================
