---------------------------- MODULE LocalQueries ----------------------------
(***************************************************************************)
(* The commands that read the store, from what the user types to the       *)
(* answer (figstash-cli app.rs: node_get, context_get, outline_get,        *)
(* node_search, snapshot_diff): targets and node ids are parsed by         *)
(* FigmaTarget, the tables are those of DocumentIndex, and the answers are *)
(* built by QueryViews, NodeSearch and SnapshotDiff.                       *)
(*                                                                         *)
(* In the behaviours of SnapshotDiff a second file is pulled into the      *)
(* lineage after the first, so a user may ask before and after HEAD moved. *)
(***************************************************************************)
EXTENDS SnapshotDiff, NodeSearch, QueryViews, FigmaTarget

CONSTANT Explicits  \* texts of --node and --ancestor

ASSUME ExplicitsAssumption ==
    \A text \in Explicits : text \in Seq(Part) /\ CopiedText(text)

\* An answer is about a node, or an error.
Error(code) == [error |-> code]
About(n) == [error |-> "none", node |-> n]

\* node get and outline: without a node the document.
NodeGetCommand(t, link, explicit) ==
    LET named == TargetAndNode(link, explicit)
    IN  IF named.error # "none" THEN Error(named.error)
        ELSE IF named.node = None THEN About(RootId(t))
        ELSE LET found == LoadNodeWithCandidates(t, named.node)
             IN  IF found.error = "none" THEN About(found.node) ELSE Error(found.error)

\* context: a node is required.
ContextCommand(t, link, explicit) ==
    LET named == TargetAndNode(link, explicit)
    IN  IF named.error = "none" /\ named.node = None
        THEN Error("node_required")
        ELSE NodeGetCommand(t, link, explicit)

\* The filters of snapshot diff and node search hold texts, which are compared
\* with the ids on the paths of rows.
OnPath(row, text) == \E n \in ToSet(row.path) : TextOf[n] = text

\* snapshot diff --node, with no other filter: the nodes it looks at.
DiffScope(old, new, link, explicit) ==
    LET named == TargetAndNode(link, explicit)
    IN  IF named.error # "none" THEN {}
        ELSE {n \in DOMAIN old \union DOMAIN new :
                 \/ named.node = None
                 \/ \E row \in RowsOf(old, new, n) : OnPath(row, named.node)}

\* parse_diff_path, of a path between slashes.
ParseDiffPath(texts) ==
    IF texts = <<>> \/ \E t \in ToSet(texts) : t = <<>> \/ NormalizeNodeId(t) = Malformed
    THEN Malformed
    ELSE [i \in DOMAIN texts |-> NormalizeNodeId(texts[i])]

\* snapshot diff --path: the nodes it looks at.
PathScope(old, new, texts) ==
    LET prefix == ParseDiffPath(texts)
    IN  IF prefix = Malformed THEN {}
        ELSE {n \in DOMAIN old \union DOMAIN new :
                 \E row \in RowsOf(old, new, n) :
                     IsPrefix(prefix, [i \in DOMAIN row.path |-> TextOf[row.path[i]]])}

\* node search --ancestor: the nodes it looks at.
SearchScope(t, ancestor) ==
    {n \in DOMAIN t : OnPath(t[n], NormalizeNodeId(ancestor))}

-----------------------------------------------------------------------------
(***************************************************************************)
(* Properties                                                              *)
(***************************************************************************)

\* All commands that take a node mean the same one, however it is written,
\* in a link or as --node, and never another than the user named: node get,
\* outline and context answer of it or refuse, and diff and search look at
\* what is below it, diff on either side and by path as well.  A link and
\* --node that differ are refused.
CommandsMeanTheNodeNamed ==
    /\ phase = "indexed" =>
        \A link \in Links, explicit \in Explicits \union {None} :
            LET answer == NodeGetCommand(table, link, explicit)
                context == ContextCommand(table, link, explicit)
                given == {link.node, explicit} \ {None}
            IN  /\ answer.error = "none" =>
                       /\ given \subseteq Writings(answer.node)
                       /\ given = {} => answer.node = RootId(table)
                       /\ TargetAndNode(link, explicit).key = link.to
                       /\ link.form = "key" => DiffScope(before, table, link, explicit) =
                              Below(table, answer.node) \union
                                  IF given = {} THEN DOMAIN before
                                  ELSE Below(before, answer.node)
                       /\ link.form = "key" /\ explicit # None =>
                              SearchScope(table, explicit) = Below(table, answer.node)
                /\ IF given = {} /\ answer.error = "none"
                   THEN context = Error("node_required")
                   ELSE context = answer
                /\ \A n \in DOMAIN table :
                       (/\ TargetAndNode(link, None).error = "none"
                        /\ ~InInstance(n)
                        /\ given # {} /\ given \subseteq Writings(n)) => answer = About(n)
    /\ phase = "indexed" =>
        \A n \in {m \in DOMAIN table : \A k \in ToSet(table[m].path) : ~InInstance(k)} :
            LET there == table[n].path
                texts == [i \in DOMAIN there |-> TextOf[there[i]]]
            IN  PathScope(before, table, texts) =
                    Below(table, n) \union
                        IF n \in DOMAIN before /\ before[n].path = there
                        THEN Below(before, n) ELSE {}

\* TODO.md 118: any node ID can be located directly.
AnyNodeCanBeLocated ==
    phase = "indexed" =>
        \A n \in DOMAIN table, link \in Links :
            link.form = "key" => NodeGetCommand(table, link, TextOf[n]) = About(n)

\* A search whose first page was read before a pull moved HEAD and whose other
\* pages after: what is missing in all are exactly the matches that the pull
\* brought to the first page, what comes twice are those it pushed off it.
\* Within one snapshot the pages are therefore complete and without repetition;
\* and with --ancestor the matches are those below it by the parent links.
PagesLoseOnlyWhatMoved ==
    phase = "indexed" =>
        \A q \in Queries, asked \in Limits, old \in {table, before} \ {NoTable} :
            LET page == Page(old, q, asked, 0)
                next == NextCursor(asked, 0, page)
                others == FollowCursors(table, q, asked, next)
                moved == ToSet(Page(table, q, asked, 0))
                under == IF q.ancestor = None THEN DOMAIN table
                                              ELSE Below(table, q.ancestor)
                matches == {n \in under :
                               /\ table[n].fields \in q.says
                               /\ q.type = None \/ TypeOf[table[n].fields] = q.type}
            IN  /\ next = None => ToSet(page) = Found(old, q)
                /\ next # None =>
                       /\ IsInjective(others)
                       /\ matches \ (ToSet(page) \union ToSet(others)) = moved \ ToSet(page)
                       /\ ToSet(page) \intersect ToSet(others)
                              = (ToSet(page) \intersect matches) \ moved
=============================================================================
