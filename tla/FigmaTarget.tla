----------------------------- MODULE FigmaTarget -----------------------------
(***************************************************************************)
(* How a user names a file and a node, and which ones a command takes      *)
(* (figstash-figma identifier.rs: parse_figma_target, parse_path,          *)
(* normalize_node_id; figstash-cli app.rs: target_and_node;                *)
(* figstash-query service.rs: load_node_with_candidates).                  *)
(*                                                                         *)
(* The node ids of DocumentIndex get a text here.  A text is a sequence of *)
(* the parts between semicolons; a part is its prefix "I", the separator   *)
(* of its two numbers, and the numbers.  Figma writes the ids of the nodes *)
(* inside an instance with the prefix, as in I12:34;5:6.                   *)
(***************************************************************************)
EXTENDS DocumentIndex

CONSTANTS
    TextOf,   \* the text of a node id
    Pairs,    \* two numbers
    Keys,     \* path segments that have the syntax of a key
    Links,    \* targets: a key or a URL
    MaxCandidates,  \* LIMIT 5
    NameHolds       \* the texts that occur in the name of a node

Part == [instance : BOOLEAN, separator : {":", "-"}, pair : Pairs \union {Malformed}]
ASSUME TextAssumption ==
    /\ TextOf \in [NodeId -> Seq(Part)]
    /\ IsInjective(TextOf)
    /\ \A n \in NodeId : TextOf[n] # <<>> /\ \A p \in ToSet(TextOf[n]) :
           p.separator = ":" /\ p.pair # Malformed
ASSUME NoTextAssumption ==
    \A m \in {None, Malformed} :
        m \notin Seq(Part) /\ m \notin Seq(Seq(Part)) /\ m \notin STRING

\* Figma writes the prefix in the ids of several parts, and in no others; so does
\* whoever copies them.
CopiedText(text) == \A p \in ToSet(text) : p.instance => Len(text) > 1
ASSUME PrefixAssumption ==
    \A n \in NodeId : Len(TextOf[n]) > 1 => \E p \in ToSet(TextOf[n]) : p.instance

\* The key of the file or branch that Figma shows for a path.
ShownKey(segments) ==
    LET branches == {i \in 3 .. Len(segments) - 1 : segments[i] = "branch"}
    IN  IF segments[1] = "branch" \/ branches = {} THEN segments[2]
        ELSE segments[Min(branches) + 1]

\* A key alone names no node; to is the key that is shown.
ASSUME LinksAssumption ==
    \A l \in Links :
        /\ l.form \in {"key", "url", "foreign"}
        /\ l.segments \in Seq(STRING) /\ l.to \in Keys
        /\ \/ l.node = None
           \/ l.node \in Seq(Part) /\ CopiedText(l.node)
        /\ l.form = "key" => l.segments = <<l.to>> /\ l.node = None
        /\ l.form = "url" /\ Len(l.segments) > 1 /\ l.segments[2] \in Keys =>
               l.segments[2] # "branch" /\ l.to = ShownKey(l.segments)
ASSUME MaxCandidatesAssumption == MaxCandidates \in Nat

\* Malformed is the result of an input that is refused with invalid_input.
-----------------------------------------------------------------------------
\* Variant: the separator stays as it was written.
NormalizeNodeIdLeavingDashes(text) ==
    IF \E p \in ToSet(text) : p.pair = Malformed
    THEN Malformed
    ELSE [i \in DOMAIN text |-> [text[i] EXCEPT !.instance = FALSE]]

\* normalize_node_id: every part loses its prefix and gets a colon.
NormalizeNodeId(text) ==
    IF \E p \in ToSet(text) : p.pair = Malformed
    THEN Malformed
    ELSE [i \in DOMAIN text |->
             [text[i] EXCEPT !.instance = FALSE, !.separator = ":"]]

FileKinds == {"design", "file", "board", "figjam", "proto"}

\* Variant: the last "branch" of the path counts.
BranchSegmentLast(segments) ==
    LET at == {i \in DOMAIN segments : segments[i] = "branch"}
    IN  IF at = {} THEN 0 ELSE Max(at)

\* The place of the first "branch" of a path, 0 for none.
BranchSegment(segments) ==
    LET at == {i \in DOMAIN segments : segments[i] = "branch"}
    IN  IF at = {} THEN 0 ELSE Min(at)

\* parse_path.  A "branch" at the end is the name of a file.
ParsePath(segments) ==
    CASE Len(segments) < 2 -> Malformed
      [] Len(segments) >= 2 /\ segments[1] \in FileKinds ->
             LET at == BranchSegment(segments)
             IN  [key |-> segments[2],
                  branch |-> IF at # 0 /\ at < Len(segments) THEN segments[at + 1] ELSE None]
      [] Len(segments) >= 2 /\ segments[1] = "branch" ->
             [key |-> segments[2], branch |-> segments[2]]
      [] OTHER -> Malformed

\* parse_figma_target; form "foreign" is no HTTPS URL of figma.com.
ParseFigmaTarget(link) ==
    LET keys == CASE link.form = "foreign" -> Malformed
                  [] link.form = "key" -> [key |-> link.segments[1], branch |-> None]
                  [] OTHER -> ParsePath(link.segments)
        node == IF link.form = "key" \/ link.node = None THEN None
                ELSE NormalizeNodeId(link.node)
    IN  IF \/ keys = Malformed
           \/ ~({keys.key, keys.branch} \subseteq Keys \union {None})
           \/ node = Malformed
        THEN Malformed
        ELSE [key |-> keys.key, branch |-> keys.branch, node |-> node]

\* FigmaTarget::effective_file_key.
EffectiveFileKey(target) == IF target.branch # None THEN target.branch ELSE target.key

\* Variant: --node wins over the node of the URL.
TargetAndNodeExplicit(link, explicit) ==
    LET target == ParseFigmaTarget(link)
        node == IF explicit = None THEN None ELSE NormalizeNodeId(explicit)
    IN  IF target = Malformed \/ node = Malformed
        THEN [error |-> "invalid_input"]
        ELSE [error |-> "none", key |-> EffectiveFileKey(target),
              node |-> IF node # None THEN node ELSE target.node]

\* target_and_node: the lineage and the text of the node id, or an error.
TargetAndNode(link, explicit) ==
    LET target == ParseFigmaTarget(link)
        node == IF explicit = None THEN None ELSE NormalizeNodeId(explicit)
    IN  IF target = Malformed \/ node = Malformed
        THEN [error |-> "invalid_input"]
        ELSE IF node # None /\ target.node \notin {None, node}
        THEN [error |-> "invalid_arguments"]
        ELSE [error |-> "none", key |-> EffectiveFileKey(target),
              node |-> IF node # None THEN node ELSE target.node]

\* The rows with an id of this text: WHERE node_id = ?.
WithText(t, text) == {n \in DOMAIN t : TextOf[n] = text}

\* node_candidates, in any order that puts an exact id first.
NodeCandidates(t, text) ==
    LET named == {n \in DOMAIN t : text \in NameHolds[t[n].fields]}
        most == Min({MaxCandidates, Cardinality(named \union WithText(t, text))})
    IN  {c \in SUBSET (named \union WithText(t, text)) :
            Cardinality(c) = most /\ (most > 0 => WithText(t, text) \subseteq c)}

\* load_node_with_candidates.
LoadNodeWithCandidates(t, text) ==
    IF WithText(t, text) = {}
    THEN [error |-> "node_not_found", candidates |-> NodeCandidates(t, text)]
    ELSE [error |-> "none", node |-> CHOOSE n \in WithText(t, text) : TRUE]

-----------------------------------------------------------------------------
\* The ways of writing the id of a node: as Figma's REST answers have it, or
\* with the hyphens of a URL, in any part.
Writings(n) ==
    {[i \in DOMAIN TextOf[n] |-> [TextOf[n][i] EXCEPT !.separator = s[i]]] :
        s \in [DOMAIN TextOf[n] -> {":", "-"}]}

InInstance(n) == \E p \in ToSet(TextOf[n]) : p.instance
=============================================================================
