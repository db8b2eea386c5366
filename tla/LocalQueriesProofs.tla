------------------------- MODULE LocalQueriesProofs -------------------------
(***************************************************************************)
(* Proofs about the commands that read the store, for any files, ids,      *)
(* links, texts, depths, searches and page sizes: which file and node a    *)
(* command line means; what the walks of a view show, refer to and leave   *)
(* out; and that the pages of a search lose and repeat only what a pull    *)
(* moved.  All stand on what SnapshotDiffProofs shows of a table: it is    *)
(* the tree of the file it was indexed from.                               *)
(***************************************************************************)
EXTENDS LocalQueries, SnapshotDiffProofs

-----------------------------------------------------------------------------
(***************************************************************************)
(* How commands name nodes                                                 *)
(***************************************************************************)

LEMMA PartFields ==
    ASSUME NEW p \in Part
    PROVE  /\ p = [instance |-> p.instance, separator |-> p.separator, pair |-> p.pair]
           /\ p.instance \in BOOLEAN
           /\ \A c : [p EXCEPT !.separator = c] =
                        [instance |-> p.instance, separator |-> c, pair |-> p.pair]
<1>1. p = [instance |-> p.instance, separator |-> p.separator, pair |-> p.pair]
    BY DEF Part
<1>2. p.instance \in BOOLEAN
    BY DEF Part
<1>3. ASSUME NEW c
      PROVE  [p EXCEPT !.separator = c] =
                 [instance |-> p.instance, separator |-> c, pair |-> p.pair]
    BY DEF Part
<1> QED BY <1>1, <1>2, <1>3

LEMMA NormalPart ==
    ASSUME NEW p \in Part
    PROVE  [p EXCEPT !.instance = FALSE, !.separator = ":"] =
               [instance |-> FALSE, separator |-> ":", pair |-> p.pair]
<1> DEFINE q == [p EXCEPT !.instance = FALSE, !.separator = ":"]
<1>1. q \in Part
    BY DEF Part
<1>2. q.separator = ":" /\ q.pair = p.pair
    BY DEF Part
<1>3. q.instance = FALSE
    BY DEF Part
<1> HIDE DEF q
<1>4. q = [instance |-> q.instance, separator |-> q.separator, pair |-> q.pair]
    BY <1>1, PartFields
<1>5. q = [instance |-> FALSE, separator |-> ":", pair |-> p.pair]
    BY <1>2, <1>3, <1>4
<1> QED BY <1>5 DEF q

LEMMA NormalFields ==
    ASSUME NEW c, NEW v
    PROVE  LET p == [instance |-> FALSE, separator |-> c, pair |-> v]
           IN  p.instance = FALSE /\ p.separator = c /\ p.pair = v
OBVIOUS

LEMMA ElementInSet ==
    ASSUME NEW s, NEW i \in DOMAIN s
    PROVE  s[i] \in ToSet(s)
BY DEF ToSet

LEMMA ElementOfPart ==
    ASSUME NEW s \in Seq(Part), NEW i \in DOMAIN s
    PROVE  s[i] \in Part
OBVIOUS

\* A normalized text has the parts of the text, each with a colon and without
\* the prefix.
LEMMA NormalParts ==
    ASSUME NEW text \in Seq(Part), NormalizeNodeId(text) # Malformed
    PROVE  /\ DOMAIN NormalizeNodeId(text) = DOMAIN text
           /\ \A i \in DOMAIN text :
                  NormalizeNodeId(text)[i] =
                      [instance |-> FALSE, separator |-> ":", pair |-> text[i].pair]
<1>1. NormalizeNodeId(text) =
          [i \in DOMAIN text |-> [text[i] EXCEPT !.instance = FALSE, !.separator = ":"]]
    BY DEF NormalizeNodeId
<1>2. \A i \in DOMAIN text :
          [text[i] EXCEPT !.instance = FALSE, !.separator = ":"]
              = [instance |-> FALSE, separator |-> ":", pair |-> text[i].pair]
    BY ElementOfPart, NormalPart
<1> QED BY <1>1, <1>2

\* However the user writes the id of a node, with colons or hyphens in any part,
\* normalize_node_id gives the id that the table has, for every node that is not
\* inside an instance.
THEOREM WritingsMeanTheId ==
    ASSUME NEW n \in NodeId, ~InInstance(n), NEW text \in Writings(n)
    PROVE  NormalizeNodeId(text) = TextOf[n]
<1>1. PICK s \in [DOMAIN TextOf[n] -> {":", "-"}] :
          text = [i \in DOMAIN TextOf[n] |-> [TextOf[n][i] EXCEPT !.separator = s[i]]]
    BY DEF Writings
<1> DEFINE T == TextOf[n]
<1>2. /\ T \in Seq(Part)
      /\ \A p \in ToSet(T) : p.separator = ":" /\ p.pair # Malformed /\ ~p.instance
    BY TextAssumption DEF InInstance
<1>3. \A i \in DOMAIN T : T[i] =
             [instance |-> FALSE, separator |-> ":", pair |-> T[i].pair]
  <2> SUFFICES ASSUME NEW i \in DOMAIN T
               PROVE  T[i] = [instance |-> FALSE, separator |-> ":", pair |-> T[i].pair]
      OBVIOUS
  <2>1. T[i] \in Part /\ T[i] \in ToSet(T)
      BY <1>2, ElementInSet, ElementOfPart
  <2>2. T[i].separator = ":" /\ T[i].instance = FALSE
      BY <1>2, <2>1, PartFields
  <2> QED BY <2>1, <2>2, PartFields
<1>4. DOMAIN text = DOMAIN T
    BY <1>1
<1>5. ASSUME NEW i \in DOMAIN T
      PROVE  /\ text[i] = [instance |-> FALSE, separator |-> s[i], pair |-> T[i].pair]
             /\ text[i].pair = T[i].pair /\ T[i].pair # Malformed
  <2>1. T[i] \in Part /\ T[i] \in ToSet(T)
      BY <1>2, ElementInSet, ElementOfPart
  <2>2. text[i] = [T[i] EXCEPT !.separator = s[i]]
      BY <1>1
  <2>3. T[i].instance = FALSE
    <3> DEFINE v == T[i].pair
    <3>1. T[i] = [instance |-> FALSE, separator |-> ":", pair |-> v]
        BY <1>3
    <3> HIDE DEF v
    <3> QED BY <3>1
  <2>4. text[i] = [instance |-> FALSE, separator |-> s[i], pair |-> T[i].pair]
      BY <2>1, <2>2, <2>3, PartFields
  <2> QED BY <1>2, <2>1, <2>4, NormalFields
<1>6. NormalizeNodeId(text) =
          [i \in DOMAIN text |-> [text[i] EXCEPT !.instance = FALSE, !.separator = ":"]]
  <2>1. \A p \in ToSet(text) : p.pair # Malformed
      BY <1>4, <1>5 DEF ToSet
  <2> QED BY <2>1 DEF NormalizeNodeId
<1>7. ASSUME NEW i \in DOMAIN T
      PROVE  [text[i] EXCEPT !.instance = FALSE, !.separator = ":"] = T[i]
  <2>1. text[i] \in Part
    <3>1. T[i] \in Part /\ s[i] \in {":", "-"}
        BY <1>2, ElementOfPart
    <3>2. [T[i] EXCEPT !.separator = s[i]] \in Part
        BY <3>1 DEF Part
    <3> QED BY <1>1, <3>2
  <2>2. [text[i] EXCEPT !.instance = FALSE, !.separator = ":"] =
            [instance |-> FALSE, separator |-> ":", pair |-> text[i].pair]
      BY <2>1, NormalPart
  <2> QED BY <2>2, <1>3, <1>5
<1>8. T = [i \in DOMAIN T |-> T[i]]
    BY <1>2
<1> HIDE DEF T
<1>9. [i \in DOMAIN text |-> [text[i] EXCEPT !.instance = FALSE, !.separator = ":"]] = T
    BY <1>4, <1>7, <1>8
<1> QED BY <1>6, <1>9 DEF T

\* No table has a row for an id as commands write it if the id belongs to a node
\* inside an instance: normalize_node_id drops the prefix "I" that Figma's
\* answers have.
LEMMA NormalizedIsInNoInstance ==
    ASSUME NEW text \in Seq(Part), NormalizeNodeId(text) # Malformed,
           NEW n \in NodeId, TextOf[n] = NormalizeNodeId(text)
    PROVE  ~InInstance(n)
<1>1. ASSUME NEW i \in DOMAIN TextOf[n]
      PROVE  ~TextOf[n][i].instance
  <2>1. TextOf[n][i] =
            [instance |-> FALSE, separator |-> ":", pair |-> text[i].pair]
    <3>1. i \in DOMAIN text
        BY NormalParts
    <3> QED BY <3>1, NormalParts
  <2> QED BY <2>1
<1> QED BY <1>1 DEF InInstance, ToSet

\* node get, outline and context never answer of a node inside an instance to a
\* user who names one, in a link or as --node, whatever he writes and whatever
\* the snapshot holds: such a node can only be reached from above.  When they
\* answer of another node, its id has the text they looked for.
THEOREM InstancesAreNotLocated ==
    ASSUME NEW t, DOMAIN t \subseteq NodeId, NEW link \in Links,
           NEW explicit \in Explicits \union {None},
           TargetAndNode(link, explicit).error = "none",
           TargetAndNode(link, explicit).node # None,
           NodeGetCommand(t, link, explicit).error = "none"
    PROVE  LET found == NodeGetCommand(t, link, explicit).node
           IN  /\ found \in DOMAIN t
               /\ TextOf[found] = TargetAndNode(link, explicit).node
               /\ ~InInstance(found)
<1> DEFINE text == TargetAndNode(link, explicit).node
           found == NodeGetCommand(t, link, explicit).node
           target == ParseFigmaTarget(link)
           node == IF explicit = None THEN None ELSE NormalizeNodeId(explicit)
<1>1. /\ target # Malformed /\ node # Malformed
      /\ text = IF node # None THEN node ELSE target.node
    BY DEF TargetAndNode
<1>2. \E w \in Seq(Part) : text = NormalizeNodeId(w) /\ text # Malformed
  <2>1. CASE node # None
      BY <1>1, <2>1, ExplicitsAssumption
  <2>2. CASE node = None
    <3>1. text = target.node /\ target.node # None
        BY <1>1, <2>2
    <3>2. /\ link.node # None
          /\ target.node = NormalizeNodeId(link.node)
          /\ NormalizeNodeId(link.node) # Malformed
        BY <1>1, <3>1 DEF ParseFigmaTarget
    <3> QED BY <3>1, <3>2, LinksAssumption
  <2> QED BY <2>1, <2>2
<1>3. found \in WithText(t, text)
  <2>1. WithText(t, text) # {}
      BY DEF NodeGetCommand, LoadNodeWithCandidates, Error
  <2>2. found = CHOOSE n \in WithText(t, text) : TRUE
      BY <2>1 DEF NodeGetCommand, LoadNodeWithCandidates, About
  <2> QED BY <2>1, <2>2
<1>4. found \in DOMAIN t /\ TextOf[found] = text
    BY <1>3 DEF WithText
<1> HIDE DEF text, found
<1>5. ~InInstance(found)
    BY <1>2, <1>4, NormalizedIsInNoInstance
<1> QED BY <1>4, <1>5 DEF text, found


-----------------------------------------------------------------------------
(***************************************************************************)
(* What a command line says                                                *)
(***************************************************************************)

LEMMA NormalIsText ==
    ASSUME NEW text \in Seq(Part), NormalizeNodeId(text) # Malformed
    PROVE  NormalizeNodeId(text) \in Seq(Part)
<1> DEFINE normal == NormalizeNodeId(text)
<1>1. ASSUME NEW i \in DOMAIN text PROVE normal[i] \in Part
  <2>1. normal[i] = [instance |-> FALSE, separator |-> ":", pair |-> text[i].pair]
      BY NormalParts
  <2>2. text[i].pair \in Pairs \union {Malformed}
      BY ElementOfPart DEF Part
  <2> QED BY <2>1, <2>2 DEF Part
<1>2. NormalizeNodeId(text) =
          [i \in DOMAIN text |-> [text[i] EXCEPT !.instance = FALSE, !.separator = ":"]]
    BY DEF NormalizeNodeId
<1>3. normal = [i \in DOMAIN text |-> normal[i]]
  <2> DEFINE changed(i) == [text[i] EXCEPT !.instance = FALSE, !.separator = ":"]
  <2>1. normal = [i \in DOMAIN text |-> changed(i)]
      BY <1>2
  <2> HIDE DEF changed, normal
  <2> QED BY <2>1
<1>4. DOMAIN text = 1 .. Len(text) /\ Len(text) \in Nat
    OBVIOUS
<1> HIDE DEF normal
<1>5. normal \in Seq(Part)
    BY <1>1, <1>3, <1>4
<1> QED BY <1>5 DEF normal

\* Whoever copies an id of Figma, and is understood, wrote that of the node.
LEMMA UnderstoodIsWritten ==
    ASSUME NEW n \in NodeId, NEW text \in Seq(Part), CopiedText(text),
           NormalizeNodeId(text) = TextOf[n]
    PROVE  text \in Writings(n) /\ ~InInstance(n)
<1> DEFINE T == TextOf[n]
           s == [i \in DOMAIN T |-> text[i].separator]
<1>1. T \in Seq(Part)
    BY TextAssumption
<1>2. NormalizeNodeId(text) # Malformed
    BY <1>1, NoTextAssumption
<1>3. ~InInstance(n)
    BY <1>2, NormalizedIsInNoInstance
<1>4. DOMAIN text = DOMAIN T
      /\ \A i \in DOMAIN T :
             T[i] = [instance |-> FALSE, separator |-> ":", pair |-> text[i].pair]
    BY <1>2, NormalParts
<1>5. ~(Len(T) > 1)
    BY <1>3, PrefixAssumption DEF InInstance
<1>6. Len(text) = Len(T)
  <2> HIDE DEF T
  <2> QED BY <1>1, <1>4
<1>7. \A p \in ToSet(text) : ~p.instance
    BY <1>5, <1>6 DEF CopiedText
<1>8. ASSUME NEW i \in DOMAIN T
      PROVE  text[i] = [T[i] EXCEPT !.separator = s[i]] /\ s[i] \in {":", "-"}
  <2>1. text[i] \in Part /\ text[i] \in ToSet(text) /\ T[i] \in Part
      BY <1>1, <1>4, ElementInSet, ElementOfPart
  <2>2. text[i].instance = FALSE
      BY <2>1, <1>7, PartFields
  <2>3. text[i] = [instance |-> FALSE, separator |-> s[i], pair |-> text[i].pair]
      BY <2>1, <2>2, PartFields
  <2>4. T[i] = [instance |-> FALSE, separator |-> ":", pair |-> text[i].pair]
      BY <1>4
  <2> DEFINE v == text[i].pair
             c == s[i]
  <2>5. T[i].instance = FALSE /\ T[i].pair = v
    <3>1. T[i] = [instance |-> FALSE, separator |-> ":", pair |-> v]
        BY <2>4
    <3> HIDE DEF v, T
    <3> QED BY <3>1, NormalFields
  <2>6. [T[i] EXCEPT !.separator = c] =
            [instance |-> T[i].instance, separator |-> c, pair |-> T[i].pair]
      BY <2>1, PartFields
  <2>7. s[i] \in {":", "-"}
      BY <2>1 DEF Part
  <2> HIDE DEF v, c, s, T
  <2>8. [T[i] EXCEPT !.separator = c] = [instance |-> FALSE, separator |-> c, pair |-> v]
      BY <2>5, <2>6
  <2> QED BY <2>3, <2>7, <2>8 DEF v, c
<1>9. text = [i \in DOMAIN T |-> [T[i] EXCEPT !.separator = s[i]]]
  <2>1. text = [i \in DOMAIN text |-> text[i]]
      OBVIOUS
  <2> HIDE DEF s, T
  <2> QED BY <2>1, <1>4, <1>8
<1>10. s \in [DOMAIN T -> {":", "-"}]
    BY <1>8
<1>11. text \in Writings(n)
  <2>1. \E r \in [DOMAIN T -> {":", "-"}] :
            text = [i \in DOMAIN T |-> [T[i] EXCEPT !.separator = r[i]]]
    <3> HIDE DEF s, T
    <3> QED BY <1>9, <1>10
  <2> QED BY <2>1 DEF Writings
<1> QED BY <1>3, <1>11

\* The id of a node outside instances is understood as it is.
LEMMA TextIsNormal ==
    ASSUME NEW n \in NodeId, ~InInstance(n)
    PROVE  NormalizeNodeId(TextOf[n]) = TextOf[n] /\ TextOf[n] # Malformed
<1> DEFINE T == TextOf[n]
           s == [i \in DOMAIN T |-> ":"]
<1>1. T \in Seq(Part) /\ \A p \in ToSet(T) : p.separator = ":"
    BY TextAssumption
<1>2. ASSUME NEW i \in DOMAIN T
      PROVE  [T[i] EXCEPT !.separator = s[i]] = T[i]
  <2>1. T[i] \in Part /\ T[i] \in ToSet(T)
      BY <1>1, ElementInSet, ElementOfPart
  <2>2. T[i].separator = ":" /\ s[i] = ":"
      BY <1>1, <2>1
  <2>3. [T[i] EXCEPT !.separator = s[i]] =
            [instance |-> T[i].instance, separator |-> s[i], pair |-> T[i].pair]
      BY <2>1, PartFields
  <2>4. T[i] = [instance |-> T[i].instance, separator |-> T[i].separator, pair |-> T[i].pair]
      BY <2>1, PartFields
  <2> HIDE DEF T, s
  <2> QED BY <2>2, <2>3, <2>4
<1>3. T = [i \in DOMAIN T |-> [T[i] EXCEPT !.separator = s[i]]]
  <2>1. T = [i \in DOMAIN T |-> T[i]]
      BY <1>1
  <2> HIDE DEF T, s
  <2> QED BY <1>2, <2>1
<1>4. s \in [DOMAIN T -> {":", "-"}]
    OBVIOUS
<1>5. \E r \in [DOMAIN T -> {":", "-"}] :
          T = [i \in DOMAIN T |-> [T[i] EXCEPT !.separator = r[i]]]
  <2> HIDE DEF s, T
  <2> QED BY <1>3, <1>4
<1>6. T \in Writings(n)
    BY <1>5 DEF Writings
<1>7. T # Malformed
    BY <1>1, NoTextAssumption
<1> QED BY <1>6, <1>7, WritingsMeanTheId


LEMMA FirstIsMin ==
    ASSUME NEW B \in SUBSET Nat, B # {}
    PROVE  Min(B) \in B /\ \A k \in B : Min(B) <= k
<1>1. \E m \in B : \A k \in B : m <= k
    BY LeastNatural
<1> QED BY <1>1 DEF Min

\* The first "branch" of a path counts, unless the path ends there.
LEMMA PathMeansKey ==
    ASSUME NEW segments \in Seq(STRING), Len(segments) > 1, segments[2] # "branch",
           ParsePath(segments) # Malformed
    PROVE  LET keys == ParsePath(segments)
           IN  /\ keys.key = segments[2]
               /\ IF keys.branch # None THEN keys.branch = ShownKey(segments)
                                        ELSE keys.key = ShownKey(segments)
<1> DEFINE at == {i \in DOMAIN segments : segments[i] = "branch"}
           branches == {i \in 3 .. Len(segments) - 1 : segments[i] = "branch"}
           n == Len(segments)
<1>1. /\ n \in Nat /\ DOMAIN segments = 1 .. n
      /\ \A i \in 1 .. n : segments[i] \in STRING /\ segments[i] # None
    BY NoTextAssumption
<1>2. CASE segments[1] \in FileKinds
  <2>1. segments[1] # "branch"
      BY <1>2 DEF FileKinds
  <2>2. at \in SUBSET Nat /\ \A i \in at : i >= 3 /\ i <= n
    <3>1. \A i \in at : i \in 1 .. n /\ i # 1 /\ i # 2
        BY <1>1, <2>1
    <3> HIDE DEF at
    <3> QED BY <1>1, <3>1
  <2>3. PICK b : b = BranchSegment(segments)
      OBVIOUS
  <2>4. ParsePath(segments) =
            [key |-> segments[2],
             branch |-> IF b # 0 /\ b < n THEN segments[b + 1] ELSE None]
    <3>1. ~(Len(segments) < 2) /\ Len(segments) >= 2
        BY <1>1
    <3>2. ParsePath(segments) =
              LET place == BranchSegment(segments)
              IN  [key |-> segments[2],
                   branch |-> IF place # 0 /\ place < Len(segments)
                              THEN segments[place + 1] ELSE None]
        BY <1>2, <2>1, <3>1, Zenon DEF ParsePath
    <3> QED BY <2>3, <3>2
  <2>5. /\ at = {} => b = 0
        /\ at # {} => b \in at /\ \A i \in at : b <= i
    <3>1. b = IF at = {} THEN 0 ELSE Min(at)
        BY <2>3 DEF BranchSegment
    <3> HIDE DEF at
    <3> QED BY <2>2, <3>1, FirstIsMin
  <2>6. CASE b # 0 /\ b < n
    <3>1. b \in branches /\ \A i \in branches : b <= i
        BY <1>1, <2>2, <2>5, <2>6
    <3>2. Min(branches) = b
      <4>1. branches \in SUBSET Nat
          OBVIOUS
      <4>2. PICK m : m = Min(branches)
          OBVIOUS
      <4> HIDE DEF branches, at
      <4>3. m \in branches /\ m <= b
          BY <3>1, <4>1, <4>2, FirstIsMin
      <4>4. b <= m /\ b \in Nat /\ m \in Nat
          BY <3>1, <4>1, <4>3
      <4> QED BY <4>2, <4>3, <4>4
    <3>3. ShownKey(segments) = segments[b + 1]
        BY <2>1, <3>1, <3>2 DEF ShownKey
    <3>4. b + 1 \in 1 .. n
        BY <1>1, <2>2, <2>5, <2>6
    <3>5. segments[b + 1] # None
        BY <1>1, <3>4
    <3> QED BY <2>4, <2>6, <3>3, <3>5
  <2>7. CASE ~(b # 0 /\ b < n)
    <3>1. branches = {}
      <4> SUFFICES ASSUME NEW i \in branches PROVE FALSE
          OBVIOUS
      <4>1. i \in at /\ i < n /\ i >= 3
          BY <1>1
      <4>2. b \in at /\ b <= i
          BY <4>1, <2>5
      <4> QED BY <1>1, <4>1, <4>2, <2>2, <2>7
    <3>2. ShownKey(segments) = segments[2]
        BY <3>1 DEF ShownKey
    <3>3. ParsePath(segments) = [key |-> segments[2], branch |-> None]
        BY <2>4, <2>7
    <3> QED BY <3>2, <3>3
  <2> QED BY <2>6, <2>7
<1>3. CASE segments[1] \notin FileKinds
  <2>1. segments[1] = "branch" /\ ParsePath(segments) = [key |-> segments[2], branch |-> segments[2]]
      BY <1>1, <1>3 DEF ParsePath
  <2>2. ShownKey(segments) = segments[2]
      BY <2>1 DEF ShownKey
  <2> QED BY <1>1, <2>1, <2>2
<1> QED BY <1>2, <1>3

\* A link that is understood means the key that Figma shows for it, and its node.
LEMMA LinkMeansKey ==
    ASSUME NEW link \in Links, ParseFigmaTarget(link) # Malformed
    PROVE  /\ EffectiveFileKey(ParseFigmaTarget(link)) = link.to
           /\ link.form = "key" => link.node = None
           /\ link.node = None => ParseFigmaTarget(link).node = None
           /\ link.node # None =>
                  /\ ParseFigmaTarget(link).node = NormalizeNodeId(link.node)
                  /\ NormalizeNodeId(link.node) # Malformed
<1> DEFINE keys == CASE link.form = "foreign" -> Malformed
                     [] link.form = "key" -> [key |-> link.segments[1], branch |-> None]
                     [] OTHER -> ParsePath(link.segments)
           node == IF link.form = "key" \/ link.node = None THEN None
                   ELSE NormalizeNodeId(link.node)
<1>1. /\ keys # Malformed /\ node # Malformed
      /\ {keys.key, keys.branch} \subseteq Keys \union {None}
      /\ ParseFigmaTarget(link) = [key |-> keys.key, branch |-> keys.branch, node |-> node]
    BY DEF ParseFigmaTarget
<1>2. /\ link.form \in {"key", "url"}
      /\ link.segments \in Seq(STRING)
      /\ link.form = "key" => link.segments = <<link.to>> /\ link.node = None
    BY <1>1, LinksAssumption
<1>3. EffectiveFileKey(ParseFigmaTarget(link)) = IF keys.branch # None THEN keys.branch ELSE keys.key
  <2> HIDE DEF keys, node
  <2> QED BY <1>1 DEF EffectiveFileKey
<1>4. EffectiveFileKey(ParseFigmaTarget(link)) = link.to
  <2>1. CASE link.form = "key"
    <3>1. keys = [key |-> link.segments[1], branch |-> None]
        BY <2>1
    <3> HIDE DEF keys
    <3> QED BY <1>2, <1>3, <2>1, <3>1
  <2>2. CASE link.form = "url"
    <3>1. keys = ParsePath(link.segments)
        BY <2>2
    <3>2. Len(link.segments) > 1
        BY <1>1, <1>2, <3>1 DEF ParsePath
    <3>3. keys.key = link.segments[2]
      <4>1. /\ link.segments[1] \in FileKinds => ParsePath(link.segments).key = link.segments[2]
            /\ link.segments[1] = "branch" => ParsePath(link.segments).key = link.segments[2]
          BY <3>2, <1>2 DEF ParsePath, FileKinds
      <4>2. link.segments[1] \in FileKinds \/ link.segments[1] = "branch"
          BY <1>1, <3>1, <3>2 DEF ParsePath
      <4> QED BY <3>1, <4>1, <4>2
    <3>4. link.segments[2] \in Keys
      <4>1. link.segments[2] \in STRING
          BY <1>2, <3>2
      <4> QED BY <1>1, <3>3, <4>1, NoTextAssumption
    <3>5. link.segments[2] # "branch" /\ link.to = ShownKey(link.segments)
        BY <2>2, <3>2, <3>4, LinksAssumption
    <3>6. ParsePath(link.segments) # Malformed
        BY <1>1, <3>1
    <3>7. IF keys.branch # None THEN keys.branch = ShownKey(link.segments)
                                ELSE keys.key = ShownKey(link.segments)
      <4> HIDE DEF keys
      <4> QED BY <1>2, <3>1, <3>2, <3>5, <3>6, PathMeansKey
    <3> HIDE DEF keys
    <3> QED BY <1>3, <3>5, <3>7
  <2> QED BY <1>2, <2>1, <2>2
<1>5. ParseFigmaTarget(link).node = node
  <2> HIDE DEF keys, node
  <2> QED BY <1>1
<1> QED BY <1>1, <1>2, <1>4, <1>5


\* target_and_node: the key and the node, if any, are those the user gave.
LEMMA NamedNode ==
    ASSUME NEW link \in Links, NEW explicit \in Explicits \union {None},
           TargetAndNode(link, explicit).error = "none"
    PROVE  LET named == TargetAndNode(link, explicit)
               given == {link.node, explicit} \ {None}
           IN  /\ named.key = link.to
               /\ \A text \in given :
                      /\ text \in Seq(Part) /\ CopiedText(text)
                      /\ NormalizeNodeId(text) = named.node
                      /\ named.node # None
               /\ given = {} => named.node = None
               /\ link.form = "key" => link.node = None
<1> DEFINE target == ParseFigmaTarget(link)
           node == IF explicit = None THEN None ELSE NormalizeNodeId(explicit)
           named == TargetAndNode(link, explicit)
<1>1. /\ target # Malformed /\ node # Malformed
      /\ node = None \/ target.node \in {None, node}
      /\ named = [error |-> "none", key |-> EffectiveFileKey(target),
                  node |-> IF node # None THEN node ELSE target.node]
  <2>1. /\ ~(target = Malformed \/ node = Malformed)
        /\ ~(node # None /\ target.node \notin {None, node})
      BY DEF TargetAndNode
  <2>2. named = [error |-> "none", key |-> EffectiveFileKey(target),
                 node |-> IF node # None THEN node ELSE target.node]
      BY <2>1 DEF TargetAndNode
  <2> QED BY <2>1, <2>2
<1>2. /\ EffectiveFileKey(target) = link.to
      /\ link.form = "key" => link.node = None
      /\ link.node = None => target.node = None
      /\ link.node # None => /\ target.node = NormalizeNodeId(link.node)
                             /\ NormalizeNodeId(link.node) # Malformed
    BY <1>1, LinkMeansKey
<1>3. ASSUME NEW text \in {link.node, explicit} \ {None}
      PROVE  text \in Seq(Part) /\ CopiedText(text)
    BY LinksAssumption, ExplicitsAssumption
<1>4. ASSUME NEW text \in Seq(Part), NormalizeNodeId(text) # Malformed
      PROVE  NormalizeNodeId(text) # None
    BY <1>4, NormalIsText, NoTextAssumption
<1>5. explicit # None => node = NormalizeNodeId(explicit) /\ node # None
    BY <1>1, <1>3, <1>4
<1>6. explicit = None => node = None
    OBVIOUS
<1>7. link.node # None => target.node # None
    BY <1>2, <1>3, <1>4
<1> HIDE DEF target, node
<1>8. /\ named.key = link.to
      /\ named.node = IF node # None THEN node ELSE target.node
    BY <1>1, <1>2
<1>9. /\ link.node # None => NormalizeNodeId(link.node) = named.node /\ named.node # None
      /\ explicit # None => NormalizeNodeId(explicit) = named.node /\ named.node # None
      /\ link.node = None /\ explicit = None => named.node = None
    BY <1>1, <1>2, <1>5, <1>6, <1>7, <1>8
<1> HIDE DEF named
<1> QED BY <1>2, <1>3, <1>8, <1>9 DEF named

\* What a link and --node that name one node outside instances give.
LEMMA NodeIsNamed ==
    ASSUME NEW link \in Links, NEW explicit \in Explicits \union {None},
           TargetAndNode(link, None).error = "none",
           NEW n \in NodeId, ~InInstance(n),
           {link.node, explicit} \ {None} # {},
           {link.node, explicit} \ {None} \subseteq Writings(n)
    PROVE  /\ TargetAndNode(link, explicit).error = "none"
           /\ TargetAndNode(link, explicit).node = TextOf[n]
<1> DEFINE target == ParseFigmaTarget(link)
           node == IF explicit = None THEN None ELSE NormalizeNodeId(explicit)
<1>1. target # Malformed
    BY DEF TargetAndNode
<1>2. /\ link.node = None => target.node = None
      /\ link.node # None => target.node = NormalizeNodeId(link.node)
    BY <1>1, LinkMeansKey
<1>3. \A text \in {link.node, explicit} \ {None} : NormalizeNodeId(text) = TextOf[n]
    BY WritingsMeanTheId
<1>4. TextOf[n] # Malformed /\ None # Malformed
  <2>1. None # Malformed
      BY DEF TargetAndNode
  <2> QED BY <2>1, TextIsNormal
<1>5. /\ node # Malformed
      /\ ~(node # None /\ target.node \notin {None, node})
    BY <1>2, <1>3, <1>4
<1>6. TargetAndNode(link, explicit).error = "none"
    BY <1>1, <1>5 DEF TargetAndNode
<1>7. PICK text \in {link.node, explicit} \ {None} : TRUE
    OBVIOUS
<1> QED BY <1>3, <1>6, <1>7, NamedNode


-----------------------------------------------------------------------------
(***************************************************************************)
(* What commands look at                                                   *)
(***************************************************************************)

LEMMA TableIds ==
    ASSUME NEW t, NEW d, TableOf(t, d)
    PROVE  DOMAIN t \subseteq NodeId
BY NodeAt, DocumentIsTree DEF TableOf

\* One id, one text.
LEMMA TextsDiffer ==
    ASSUME NEW m \in NodeId, NEW n \in NodeId, TextOf[m] = TextOf[n]
    PROVE  m = n
BY TextAssumption DEF IsInjective

LEMMA PathIds ==
    ASSUME NEW t, NEW d, TableOf(t, d), NEW m \in DOMAIN t
    PROVE  t[m].path \in Seq(NodeId) /\ ToSet(t[m].path) \subseteq NodeId
<1>1. t[m].path \in Seq(NodeId)
    BY PathElements
<1> QED BY <1>1 DEF ToSet

\* A text on the path of a row: the row is below the node of that text.
LEMMA OnPathIsBelow ==
    ASSUME NEW t, NEW d, TableOf(t, d), NEW n \in NodeId
    PROVE  {m \in DOMAIN t : OnPath(t[m], TextOf[n])} = Below(t, n)
<1>1. ASSUME NEW m \in DOMAIN t
      PROVE  OnPath(t[m], TextOf[n]) <=> n \in ToSet(t[m].path)
    BY PathIds, TextsDiffer DEF OnPath
<1>2. Below(t, n) = {m \in DOMAIN t : n \in ToSet(t[m].path)}
    BY BelowIsOnPath
<1> QED BY <1>1, <1>2

\* The rows that a command reads beside those of the last snapshot.
NoneOrTable(t) == t = NoTable \/ \E d : TableOf(t, d)

LEMMA OnPathOfOther ==
    ASSUME NEW t, NoneOrTable(t), NEW n \in NodeId
    PROVE  {m \in DOMAIN t : OnPath(t[m], TextOf[n])} = Below(t, n)
<1>1. CASE t = NoTable
  <2>1. DOMAIN t = {}
      BY <1>1 DEF NoTable
  <2> QED BY <2>1 DEF Below
<1>2. CASE \E d : TableOf(t, d)
    BY <1>2, OnPathIsBelow
<1> QED BY <1>1, <1>2 DEF NoneOrTable

\* The first part of a path is the path of the node at its end.
LEMMA PathSegments ==
    ASSUME NEW t, NEW d, TableOf(t, d), NEW m \in DOMAIN t, NEW i \in DOMAIN t[m].path
    PROVE  /\ t[m].path[i] \in DOMAIN t
           /\ t[t[m].path[i]].path = SubSeq(t[m].path, 1, i)
<1> DEFINE Good(k, j) == /\ t[k].path[j] \in DOMAIN t
                         /\ t[t[k].path[j]].path = SubSeq(t[k].path, 1, j)
           Wrong == {k \in DOMAIN t : \E j \in DOMAIN t[k].path : ~Good(k, j)}
           Lengths == {Len(t[k].path) : k \in Wrong}
<1>1. \A k \in DOMAIN t : t[k].path \in Seq(NodeId) /\ Len(t[k].path) \in Nat
  <2>1. \A k \in DOMAIN t : t[k].path \in Seq(NodeId)
      BY PathElements
  <2> QED BY <2>1
<1>2. Wrong = {}
  <2> SUFFICES ASSUME Wrong # {} PROVE FALSE
      OBVIOUS
  <2>1. Lengths \in SUBSET Nat /\ Lengths # {}
    <3> HIDE DEF Good
    <3> QED BY <1>1
  <2>2. PICK l \in Lengths : \A k \in Lengths : l <= k
      BY <2>1, LeastNatural
  <2>3. PICK k \in Wrong : l = Len(t[k].path)
      BY <2>2
  <2>4. PICK j \in DOMAIN t[k].path : ~Good(k, j)
    <3> HIDE DEF Good
    <3> QED BY <2>3
  <2>5. k \in DOMAIN t
      BY <2>3
  <2> HIDE DEF Wrong
  <2>6. CASE t[k].parent = None
    <3>1. t[k].path = <<k>>
        BY <2>5, <2>6, TablePaths DEF PathsAgree
    <3>2. j = 1 /\ t[k].path[1] = k /\ SubSeq(t[k].path, 1, 1) = t[k].path
      <4>1. DOMAIN t[k].path = {1} /\ t[k].path[1] = k /\ Len(t[k].path) = 1
          BY <3>1
      <4>2. SubSeq(t[k].path, 1, Len(t[k].path)) = t[k].path
          BY <1>1, <2>5
      <4> QED BY <2>4, <4>1, <4>2
    <3> QED BY <2>4, <2>5, <3>2
  <2>7. CASE t[k].parent # None
    <3> DEFINE q == t[k].parent
               s == t[q].path
    <3>1. q \in DOMAIN t /\ t[k].path = Append(s, k)
        BY <2>5, <2>7, TablePaths DEF PathsAgree
    <3>2. s \in Seq(NodeId) /\ k \in NodeId
        BY <1>1, <2>5, <3>1, TableIds
    <3>3. /\ Len(t[k].path) = Len(s) + 1 /\ Len(s) \in Nat
          /\ DOMAIN t[k].path = DOMAIN s \union {Len(s) + 1}
          /\ \A h \in DOMAIN s : t[k].path[h] = s[h]
          /\ t[k].path[Len(s) + 1] = k
      <4> HIDE DEF s
      <4> QED BY <3>1, <3>2
    <3>4. q \notin Wrong
      <4>1. ~(Len(s) \in Lengths)
        <5> HIDE DEF Lengths, s
        <5> QED BY <2>2, <2>3, <3>3
      <4> QED BY <4>1
    <3>5. CASE j = Len(s) + 1
      <4>1. SubSeq(t[k].path, 1, j) = t[k].path
          BY <1>1, <2>5, <3>3, <3>5
      <4> QED BY <2>4, <2>5, <3>3, <3>5, <4>1
    <3>6. CASE j # Len(s) + 1
      <4>1. j \in DOMAIN s /\ j \in 0 .. Len(s)
        <5>1. j \in DOMAIN s
            BY <2>4, <3>3, <3>6
        <5> QED BY <3>2, <5>1
      <4>2. Good(q, j)
        <5> HIDE DEF Good, s
        <5> QED BY <3>1, <3>4, <4>1 DEF Wrong, s
      <4>3. SubSeq(t[k].path, 1, j) = SubSeq(s, 1, j)
          BY <3>1, <3>2, <4>1, PrefixOfAppend
      <4> QED BY <2>4, <3>3, <4>1, <4>2, <4>3
    <3> QED BY <3>5, <3>6
  <2> QED BY <2>6, <2>7
<1>3. Good(m, i)
  <2> HIDE DEF Good
  <2> QED BY <1>2
<1> QED BY <1>3


LEMMA PrefixElements ==
    ASSUME NEW S, NEW s \in Seq(S), NEW r \in Seq(S)
    PROVE  IsPrefix(s, r) <=> Len(s) <= Len(r) /\ \A i \in 1 .. Len(s) : s[i] = r[i]
<1>1. ASSUME Len(s) <= Len(r), \A i \in 1 .. Len(s) : s[i] = r[i]
      PROVE  SubSeq(s, 1, Len(s)) = SubSeq(r, 1, Len(s))
    BY <1>1
<1>2. ASSUME Len(s) <= Len(r), SubSeq(s, 1, Len(s)) = SubSeq(r, 1, Len(s)),
             NEW i \in 1 .. Len(s)
      PROVE  s[i] = r[i]
  <2>1. SubSeq(s, 1, Len(s))[i] = s[i] /\ SubSeq(r, 1, Len(s))[i] = r[i]
      BY <1>2
  <2> QED BY <1>2, <2>1
<1> QED BY <1>1, <1>2 DEF IsPrefix

Texts(ids) == [i \in DOMAIN ids |-> TextOf[ids[i]]]

LEMMA PrefixOfTexts ==
    ASSUME NEW s \in Seq(NodeId), NEW r \in Seq(NodeId)
    PROVE  IsPrefix(Texts(s), Texts(r)) <=> IsPrefix(s, r)
<1>1. ASSUME NEW u \in Seq(NodeId)
      PROVE  /\ Texts(u) \in Seq(Seq(Part)) /\ Len(Texts(u)) = Len(u)
             /\ \A i \in 1 .. Len(u) : Texts(u)[i] = TextOf[u[i]] /\ u[i] \in NodeId
  <2>1. /\ Len(u) \in Nat /\ DOMAIN u = 1 .. Len(u)
        /\ \A i \in 1 .. Len(u) : u[i] \in NodeId
      OBVIOUS
  <2>2. Texts(u) = [i \in 1 .. Len(u) |-> TextOf[u[i]]]
      BY <2>1 DEF Texts
  <2>3. \A i \in 1 .. Len(u) : TextOf[u[i]] \in Seq(Part)
      BY <2>1, TextAssumption
  <2> QED BY <2>1, <2>2, <2>3
<1>2. IsPrefix(Texts(s), Texts(r)) <=>
          Len(s) <= Len(r) /\ \A i \in 1 .. Len(s) : Texts(s)[i] = Texts(r)[i]
    BY <1>1, PrefixElements
<1>3. Len(s) <= Len(r) =>
          \A i \in 1 .. Len(s) : Texts(s)[i] = Texts(r)[i] <=> s[i] = r[i]
  <2> SUFFICES ASSUME Len(s) <= Len(r), NEW i \in 1 .. Len(s)
               PROVE  Texts(s)[i] = Texts(r)[i] <=> s[i] = r[i]
      OBVIOUS
  <2>1. i \in 1 .. Len(r)
      OBVIOUS
  <2>2. /\ Texts(s)[i] = TextOf[s[i]] /\ s[i] \in NodeId
        /\ Texts(r)[i] = TextOf[r[i]] /\ r[i] \in NodeId
      BY <1>1, <2>1
  <2> QED BY <2>2, TextsDiffer
<1>4. IsPrefix(s, r) <=> Len(s) <= Len(r) /\ \A i \in 1 .. Len(s) : s[i] = r[i]
    BY PrefixElements
<1> QED BY <1>2, <1>3, <1>4

LEMMA PrefixOfPath ==
    ASSUME NEW t, NEW d, TableOf(t, d), NEW m \in DOMAIN t,
           NEW there \in Seq(NodeId), there # <<>>
    PROVE  LET n == there[Len(there)]
           IN  IsPrefix(there, t[m].path) <=>
                   n \in DOMAIN t /\ t[n].path = there /\ n \in ToSet(t[m].path)
<1> DEFINE n == there[Len(there)]
<1>1. PICK p \in Seq(NodeId) : p = t[m].path
    BY PathElements
<1>2. \A i \in DOMAIN p : p[i] \in DOMAIN t /\ t[p[i]].path = SubSeq(p, 1, i)
    BY <1>1, PathSegments
<1>3. Len(there) \in Nat \ {0} /\ SubSeq(there, 1, Len(there)) = there
    OBVIOUS
<1>4. ASSUME IsPrefix(there, p)
      PROVE  n \in DOMAIN t /\ t[n].path = there /\ n \in ToSet(p)
  <2>1. Len(there) <= Len(p) /\ \A i \in 1 .. Len(there) : there[i] = p[i]
      BY <1>4, PrefixElements
  <2>2. Len(there) \in DOMAIN p /\ p[Len(there)] = n
      BY <1>3, <2>1
  <2>3. SubSeq(p, 1, Len(there)) = there
      BY <1>3, <1>4 DEF IsPrefix
  <2>4. n \in ToSet(p)
      BY <2>2 DEF ToSet
  <2> HIDE DEF n
  <2> QED BY <1>2, <2>2, <2>3, <2>4
<1>5. ASSUME t[n].path = there, n \in ToSet(p)
      PROVE  IsPrefix(there, p)
  <2>1. PICK i \in DOMAIN p : p[i] = n
      BY <1>5 DEF ToSet
  <2>2. there = SubSeq(p, 1, i)
      BY <1>2, <1>5, <2>1
  <2>3. Len(there) = i /\ i <= Len(p)
      BY <2>2
  <2> QED BY <1>3, <2>2, <2>3 DEF IsPrefix
<1> HIDE DEF n
<1> QED BY <1>1, <1>4, <1>5 DEF n

LEMMA PathOfOther ==
    ASSUME NEW t, NoneOrTable(t), NEW there \in Seq(NodeId), there # <<>>
    PROVE  LET n == there[Len(there)]
           IN  {m \in DOMAIN t : IsPrefix(Texts(there), Texts(t[m].path))} =
                   IF n \in DOMAIN t /\ t[n].path = there THEN Below(t, n) ELSE {}
<1> DEFINE n == there[Len(there)]
<1>1. CASE t = NoTable
  <2>1. DOMAIN t = {}
      BY <1>1 DEF NoTable
  <2> QED BY <2>1
<1>2. CASE \E d : TableOf(t, d)
  <2>1. PICK d : TableOf(t, d)
      BY <1>2
  <2>2. ASSUME NEW m \in DOMAIN t
        PROVE  IsPrefix(Texts(there), Texts(t[m].path)) <=>
                   n \in DOMAIN t /\ t[n].path = there /\ n \in ToSet(t[m].path)
      BY <2>1, PathIds, PrefixOfTexts, PrefixOfPath
  <2>3. Below(t, n) = {m \in DOMAIN t : n \in ToSet(t[m].path)}
      BY <2>1, BelowIsOnPath
  <2> HIDE DEF n
  <2> QED BY <2>2, <2>3 DEF n
<1> QED BY <1>1, <1>2 DEF NoneOrTable


\* The scopes of diff and search for a node that one of the tables may have.
LEMMA ScopeIsBelow ==
    ASSUME NEW t, NEW d, TableOf(t, d), NEW old, NoneOrTable(old), NEW n \in NodeId
    PROVE  {m \in DOMAIN old \union DOMAIN t :
               \E row \in RowsOf(old, t, m) : OnPath(row, TextOf[n])}
               = Below(t, n) \union Below(old, n)
<1>1. \A m : RowsOf(old, t, m) = {old[k] : k \in DOMAIN old \intersect {m}}
                                     \union {t[k] : k \in DOMAIN t \intersect {m}}
    BY DEF RowsOf
<1>2. {m \in DOMAIN old \union DOMAIN t : \E row \in RowsOf(old, t, m) : OnPath(row, TextOf[n])}
          = {m \in DOMAIN t : OnPath(t[m], TextOf[n])}
                \union {m \in DOMAIN old : OnPath(old[m], TextOf[n])}
    BY <1>1
<1> QED BY <1>2, OnPathIsBelow, OnPathOfOther

LEMMA PathScopeIsBelow ==
    ASSUME NEW t, NEW d, TableOf(t, d), NEW old, NoneOrTable(old), NEW n \in DOMAIN t,
           \A k \in ToSet(t[n].path) : ~InInstance(k)
    PROVE  PathScope(old, t, Texts(t[n].path)) =
               Below(t, n) \union
                   IF n \in DOMAIN old /\ old[n].path = t[n].path THEN Below(old, n) ELSE {}
<1>1. PICK there \in Seq(NodeId) : there = t[n].path
    BY PathIds
<1>2. there # <<>> /\ there[Len(there)] = n
  <2>1. PICK parents \in Seq(NodeId) : there = <<n>> \/ there = Append(parents, n)
    <3>1. t[n].parent = None => there = <<n>>
        BY <1>1, TablePaths DEF PathsAgree
    <3>2. t[n].parent # None =>
              t[n].parent \in DOMAIN t /\ there = Append(t[t[n].parent].path, n)
        BY <1>1, TablePaths DEF PathsAgree
    <3>3. t[n].parent \in DOMAIN t => t[t[n].parent].path \in Seq(NodeId)
        BY PathIds
    <3>4. <<>> \in Seq(NodeId)
        OBVIOUS
    <3> QED BY <3>1, <3>2, <3>3, <3>4
  <2>2. n \in NodeId
      BY TableIds
  <2>3. CASE there = <<n>>
      BY <2>2, <2>3
  <2>4. CASE there = Append(parents, n)
      BY <2>2, <2>4
  <2> QED BY <2>1, <2>3, <2>4
<1>3. \A k \in ToSet(there) : k \in NodeId /\ NormalizeNodeId(TextOf[k]) = TextOf[k]
                              /\ TextOf[k] # Malformed /\ TextOf[k] # <<>>
    BY <1>1, PathIds, TextIsNormal, TextAssumption
<1>4. /\ Texts(there) # <<>> /\ DOMAIN Texts(there) = DOMAIN there
      /\ \A i \in DOMAIN there : Texts(there)[i] = TextOf[there[i]] /\ there[i] \in ToSet(there)
  <2>1. 1 \in DOMAIN there
      BY <1>2
  <2>2. DOMAIN Texts(there) = DOMAIN there
      BY DEF Texts
  <2>3. Texts(there) # <<>>
      BY <2>1, <2>2
  <2> QED BY <2>2, <2>3 DEF Texts, ToSet
<1>5. ParseDiffPath(Texts(there)) = Texts(there)
  <2>1. \A text \in ToSet(Texts(there)) :
            NormalizeNodeId(text) = text /\ text # <<>> /\ text # Malformed
      BY <1>3, <1>4 DEF ToSet
  <2>2. ParseDiffPath(Texts(there)) =
            [i \in DOMAIN there |-> NormalizeNodeId(Texts(there)[i])]
      BY <1>4, <2>1 DEF ParseDiffPath
  <2>3. \A i \in DOMAIN there : NormalizeNodeId(Texts(there)[i]) = TextOf[there[i]]
      BY <1>3, <1>4
  <2> QED BY <2>2, <2>3 DEF Texts
<1>6. Texts(there) # Malformed
  <2>1. Texts(there) \in Seq(Seq(Part))
    <3>1. \A i \in DOMAIN there : TextOf[there[i]] \in Seq(Part)
        BY <1>3, <1>4, TextAssumption
    <3>2. Len(there) \in Nat /\ DOMAIN there = 1 .. Len(there)
        OBVIOUS
    <3> QED BY <3>1, <3>2 DEF Texts
  <2> QED BY <2>1, NoTextAssumption
<1>7. PathScope(old, t, Texts(there)) =
          {m \in DOMAIN old \union DOMAIN t :
              \E row \in RowsOf(old, t, m) : IsPrefix(Texts(there), Texts(row.path))}
    BY <1>5, <1>6 DEF PathScope, Texts
<1>8. {m \in DOMAIN old \union DOMAIN t :
          \E row \in RowsOf(old, t, m) : IsPrefix(Texts(there), Texts(row.path))}
          = {m \in DOMAIN t : IsPrefix(Texts(there), Texts(t[m].path))}
                \union {m \in DOMAIN old : IsPrefix(Texts(there), Texts(old[m].path))}
    BY DEF RowsOf
<1>9. /\ {m \in DOMAIN t : IsPrefix(Texts(there), Texts(t[m].path))} = Below(t, n)
      /\ {m \in DOMAIN old : IsPrefix(Texts(there), Texts(old[m].path))} =
             IF n \in DOMAIN old /\ old[n].path = there THEN Below(old, n) ELSE {}
    BY <1>1, <1>2, PathOfOther DEF NoneOrTable
<1> QED BY <1>1, <1>7, <1>8, <1>9


LEMMA FoundByText ==
    ASSUME NEW t, DOMAIN t \subseteq NodeId, NEW n \in DOMAIN t
    PROVE  LoadNodeWithCandidates(t, TextOf[n]) = [error |-> "none", node |-> n]
<1>1. WithText(t, TextOf[n]) = {n}
    BY TextsDiffer DEF WithText
<1>2. (CHOOSE m \in {n} : TRUE) = n
    OBVIOUS
<1> QED BY <1>1, <1>2 DEF LoadNodeWithCandidates

\* What node get, outline and context answer.
LEMMA AnswerIsNamed ==
    ASSUME NEW t, NEW d, TableOf(t, d), NEW link \in Links,
           NEW explicit \in Explicits \union {None},
           NodeGetCommand(t, link, explicit).error = "none"
    PROVE  LET found == NodeGetCommand(t, link, explicit).node
               named == TargetAndNode(link, explicit)
           IN  /\ found \in DOMAIN t
               /\ named.error = "none"
               /\ IF named.node = None THEN found = RootId(t)
                                       ELSE named.node = TextOf[found]
<1> DEFINE named == TargetAndNode(link, explicit)
           found == NodeGetCommand(t, link, explicit).node
<1>1. named.error = "none"
    BY DEF NodeGetCommand, Error
<1>2. CASE named.node = None
  <2>1. NodeGetCommand(t, link, explicit) = About(RootId(t))
      BY <1>1, <1>2 DEF NodeGetCommand
  <2>2. RootId(t) \in DOMAIN t
      BY RootIsFirst
  <2> QED BY <1>1, <1>2, <2>1, <2>2 DEF About
<1>3. CASE named.node # None
  <2> DEFINE result == LoadNodeWithCandidates(t, named.node)
  <2>1. NodeGetCommand(t, link, explicit) =
            IF result.error = "none" THEN About(result.node) ELSE Error(result.error)
      BY <1>1, <1>3 DEF NodeGetCommand
  <2>2. result.error = "none"
    <3> HIDE DEF result
    <3> QED BY <2>1 DEF Error
  <2>3. WithText(t, named.node) # {}
      BY <2>2 DEF LoadNodeWithCandidates
  <2>4. result.node \in WithText(t, named.node)
    <3>1. result.node = CHOOSE m \in WithText(t, named.node) : TRUE
        BY <2>3 DEF LoadNodeWithCandidates
    <3> QED BY <2>3, <3>1
  <2>5. found = result.node
    <3> HIDE DEF result
    <3> QED BY <2>1, <2>2 DEF About
  <2>6. found \in DOMAIN t /\ TextOf[found] = named.node
      BY <2>4, <2>5 DEF WithText
  <2> QED BY <1>1, <1>3, <2>6
<1> QED BY <1>2, <1>3

\* The answers of all commands to one user, who gives a link and may give --node.
LEMMA CommandsAgree ==
    ASSUME NEW t, NEW d, TableOf(t, d), NEW old, NoneOrTable(old),
           NEW link \in Links, NEW explicit \in Explicits \union {None}
    PROVE  LET answer == NodeGetCommand(t, link, explicit)
               context == ContextCommand(t, link, explicit)
               given == {link.node, explicit} \ {None}
           IN  /\ answer.error = "none" =>
                      /\ given \subseteq Writings(answer.node)
                      /\ given = {} => answer.node = RootId(t)
                      /\ TargetAndNode(link, explicit).key = link.to
                      /\ link.form = "key" => DiffScope(old, t, link, explicit) =
                             Below(t, answer.node) \union
                                 IF given = {} THEN DOMAIN old ELSE Below(old, answer.node)
                      /\ link.form = "key" /\ explicit # None =>
                             SearchScope(t, explicit) = Below(t, answer.node)
               /\ IF given = {} /\ answer.error = "none"
                  THEN context = Error("node_required")
                  ELSE context = answer
               /\ \A n \in DOMAIN t :
                      (/\ TargetAndNode(link, None).error = "none"
                       /\ ~InInstance(n)
                       /\ given # {} /\ given \subseteq Writings(n)) => answer = About(n)
<1> DEFINE answer == NodeGetCommand(t, link, explicit)
           context == ContextCommand(t, link, explicit)
           given == {link.node, explicit} \ {None}
           named == TargetAndNode(link, explicit)
<1>1. DOMAIN t \subseteq NodeId
    BY TableIds
<1>2. ASSUME named.error = "none"
      PROVE  /\ named.key = link.to
             /\ \A text \in given :
                    /\ text \in Seq(Part) /\ CopiedText(text)
                    /\ NormalizeNodeId(text) = named.node
                    /\ named.node # None
             /\ given = {} => named.node = None
             /\ link.form = "key" => link.node = None
    BY <1>2, NamedNode
<1>3. ASSUME answer.error = "none"
      PROVE  /\ answer.node \in DOMAIN t /\ named.error = "none"
             /\ IF named.node = None THEN answer.node = RootId(t)
                                     ELSE named.node = TextOf[answer.node]
    BY <1>3, AnswerIsNamed
<1>4. ASSUME answer.error = "none"
      PROVE  /\ given \subseteq Writings(answer.node)
             /\ given = {} => answer.node = RootId(t)
             /\ named.key = link.to
             /\ link.form = "key" => DiffScope(old, t, link, explicit) =
                    Below(t, answer.node) \union
                        IF given = {} THEN DOMAIN old ELSE Below(old, answer.node)
             /\ link.form = "key" /\ explicit # None =>
                    SearchScope(t, explicit) = Below(t, answer.node)
  <2> DEFINE found == answer.node
  <2>1. found \in DOMAIN t /\ found \in NodeId /\ named.error = "none"
      BY <1>1, <1>3, <1>4
  <2>2. given # {} => named.node = TextOf[found]
      BY <1>2, <1>3, <1>4
  <2>3. given = {} => named.node = None /\ found = RootId(t)
      BY <1>2, <1>3, <1>4
  <2> HIDE DEF answer, named, given, found
  <2>4. given \subseteq Writings(found)
      BY <1>2, <2>1, <2>2, UnderstoodIsWritten
  <2>5. DiffScope(old, t, link, explicit) =
            Below(t, found) \union IF given = {} THEN DOMAIN old ELSE Below(old, found)
    <3>1. DiffScope(old, t, link, explicit) =
              {m \in DOMAIN old \union DOMAIN t :
                  \/ named.node = None
                  \/ \E row \in RowsOf(old, t, m) : OnPath(row, named.node)}
        BY <2>1 DEF DiffScope, named
    <3>2. CASE given = {}
      <4>1. Below(t, found) = DOMAIN t
          BY <2>3, <3>2, RootIsFirst, AllBelowRoot
      <4> QED BY <2>3, <3>1, <3>2, <4>1
    <3>3. CASE given # {}
      <4>1. named.node # None
          BY <1>2, <2>1, <3>3
      <4>2. DiffScope(old, t, link, explicit) =
                {m \in DOMAIN old \union DOMAIN t :
                    \E row \in RowsOf(old, t, m) : OnPath(row, TextOf[found])}
          BY <2>2, <3>1, <3>3, <4>1
      <4>3. DiffScope(old, t, link, explicit) = Below(t, found) \union Below(old, found)
          BY <2>1, <4>2, ScopeIsBelow
      <4> QED BY <3>3, <4>3
    <3> QED BY <3>2, <3>3
  <2>6. ASSUME explicit # None
        PROVE  SearchScope(t, explicit) = Below(t, found)
    <3>1. explicit \in given
        BY <2>6 DEF given
    <3>2. NormalizeNodeId(explicit) = TextOf[found]
        BY <1>2, <2>1, <2>2, <3>1
    <3> QED BY <2>1, <3>2, OnPathIsBelow DEF SearchScope
  <2> QED BY <1>2, <2>1, <2>3, <2>4, <2>5, <2>6 DEF found
<1>5. IF given = {} /\ answer.error = "none"
      THEN context = Error("node_required")
      ELSE context = answer
  <2>1. context = IF named.error = "none" /\ named.node = None
                  THEN Error("node_required") ELSE answer
      BY DEF ContextCommand
  <2>2. named.error = "none" /\ named.node = None => answer.error = "none"
    <3>1. named.error = "none" /\ named.node = None => answer = About(RootId(t))
        BY DEF NodeGetCommand
    <3> QED BY <3>1 DEF About
  <2> HIDE DEF answer, named, given, context
  <2> QED BY <1>2, <1>3, <2>1, <2>2
<1>6. ASSUME NEW n \in DOMAIN t, TargetAndNode(link, None).error = "none", ~InInstance(n),
             given # {}, given \subseteq Writings(n)
      PROVE  answer = About(n)
  <2>1. named.error = "none" /\ named.node = TextOf[n]
      BY <1>1, <1>6, NodeIsNamed
  <2>2. named.node # None
      BY <1>2, <1>6, <2>1
  <2>3. LoadNodeWithCandidates(t, named.node) = [error |-> "none", node |-> n]
      BY <1>1, <2>1, FoundByText
  <2> QED BY <2>1, <2>2, <2>3 DEF NodeGetCommand
<1> HIDE DEF answer, named, given, context
<1> QED BY <1>4, <1>5, <1>6 DEF answer, named, given, context

\* Whatever a user types and whatever was pulled, the commands that take a node
\* mean the one he named, or refuse: they look at the file that Figma shows for
\* the link, and at all that is below the node, in both snapshots of a diff.
THEOREM CommandsMeanOneNode == Spec => []CommandsMeanTheNodeNamed
<1>1. ASSUME IndexInv, phase = "indexed"
      PROVE  TableOf(table, doc) /\ NoneOrTable(before)
    BY <1>1 DEF IndexInv, NoneOrTable
<1>2. ASSUME IndexInv, phase = "indexed", NEW n \in DOMAIN table,
             \A k \in ToSet(table[n].path) : ~InInstance(k)
      PROVE  LET there == table[n].path
                 texts == [i \in DOMAIN there |-> TextOf[there[i]]]
             IN  PathScope(before, table, texts) =
                     Below(table, n) \union
                         IF n \in DOMAIN before /\ before[n].path = there
                         THEN Below(before, n) ELSE {}
    BY <1>1, <1>2, PathScopeIsBelow DEF Texts
<1>3. IndexInv => CommandsMeanTheNodeNamed
  <2>1. ASSUME IndexInv, phase = "indexed", NEW link \in Links,
               NEW explicit \in Explicits \union {None}
        PROVE  LET answer == NodeGetCommand(table, link, explicit)
                   context == ContextCommand(table, link, explicit)
                   given == {link.node, explicit} \ {None}
               IN  /\ answer.error = "none" =>
                          /\ given \subseteq Writings(answer.node)
                          /\ given = {} => answer.node = RootId(table)
                          /\ TargetAndNode(link, explicit).key = link.to
                          /\ link.form = "key" => DiffScope(before, table, link, explicit) =
                                 Below(table, answer.node) \union
                                     IF given = {} THEN DOMAIN before
                                     ELSE Below(before, answer.node)
                          /\ link.form = "key" /\ explicit # None =>
                                 SearchScope(table, explicit) = Below(table, answer.node)
                   /\ IF given = {} /\ answer.error = "none"
                      THEN context = Error("node_required")
                      ELSE context = answer
                   /\ \A n \in DOMAIN table :
                          (/\ TargetAndNode(link, None).error = "none"
                           /\ ~InInstance(n)
                           /\ given # {} /\ given \subseteq Writings(n)) => answer = About(n)
      BY <1>1, <2>1, CommandsAgree
  <2> QED BY <1>2, <2>1 DEF CommandsMeanTheNodeNamed
<1> QED BY IndexInvariant, <1>3, PTL

-----------------------------------------------------------------------------
(***************************************************************************)
(* Nodes, their children and what is below them                            *)
(***************************************************************************)

LEMMA NodeFacts ==
    ASSUME NEW t, NEW d, TableOf(t, d), NEW m \in DOMAIN t
    PROVE  /\ m \in NodeId /\ m # None
           /\ t[m].depth \in Nat /\ t[m].depth <= MaxDepth
           /\ t[m].fields \in Fields
           /\ t[m].path \in Seq(NodeId) /\ Len(t[m].path) = t[m].depth + 1
<1>1. PICK p \in Positions(d) : m = d.id[p] /\ At(t, d, p) = t[m] /\ t[m].id = m
    BY NodeAt
<1>2. Entry(t, d, p) /\ d \in Documents
    BY DEF TableOf
<1>3. m \in NodeId /\ d.fields[p] \in Fields \union {Malformed}
    BY <1>1, <1>2, DocumentIsTree
<1>4. t[m].fields \in Fields /\ t[m].depth \in 0 .. MaxDepth /\ t[m].path \in Seq(NodeId)
    BY <1>1, <1>2, <1>3 DEF Entry
<1>5. t[m].depth + 1 = Len(t[m].path)
    BY TablePaths DEF PathsAgree
<1> QED BY <1>3, <1>4, <1>5, NoneAssumption, LimitsAssumption

\* The children of a node: nodes one level deeper, each once and no others.
LEMMA ChildFacts ==
    ASSUME NEW t, NEW d, TableOf(t, d), NEW m \in DOMAIN t
    PROVE  /\ ChildIds(t, m) \in Seq(DOMAIN t)
           /\ \A i \in DOMAIN ChildIds(t, m) :
                  /\ ChildIds(t, m)[i] \in DOMAIN t
                  /\ t[ChildIds(t, m)[i]].parent = m
                  /\ t[ChildIds(t, m)[i]].depth = t[m].depth + 1
           /\ \A c \in DOMAIN t : t[c].parent = m =>
                  \E i \in DOMAIN ChildIds(t, m) : ChildIds(t, m)[i] = c
           /\ \A i, j \in DOMAIN ChildIds(t, m) :
                  ChildIds(t, m)[i] = ChildIds(t, m)[j] => i = j
<1>1. PICK ks : KidsOf(t, m, ks)
    BY TableKids
<1>2. ChildIds(t, m) = ks
    BY <1>1, ChildrenInOrder
<1>3. /\ ks \in Seq(NodeId) /\ t[m].id = m
      /\ \A j \in DOMAIN ks : ks[j] \in DOMAIN t /\ ChildEntry(t[m], j, t[ks[j]])
      /\ \A k \in DOMAIN t : t[k].parent = m => \E j \in DOMAIN ks : k = ks[j]
    BY <1>1 DEF KidsOf
<1>4. \A j \in DOMAIN ks : /\ ks[j] \in DOMAIN t /\ t[ks[j]].parent = m
                           /\ t[ks[j]].depth = t[m].depth + 1
                           /\ t[ks[j]].order + 1 = j /\ t[ks[j]].order \in Nat
  <2> SUFFICES ASSUME NEW j \in DOMAIN ks
               PROVE  /\ ks[j] \in DOMAIN t /\ t[ks[j]].parent = m
                      /\ t[ks[j]].depth = t[m].depth + 1
                      /\ t[ks[j]].order + 1 = j /\ t[ks[j]].order \in Nat
      OBVIOUS
  <2> QED BY <1>3, OrderIsNatural DEF ChildEntry
<1>5. \A i, j \in DOMAIN ks : ks[i] = ks[j] => i = j
    BY <1>4
<1>6. ks \in Seq(DOMAIN t)
    BY <1>3, <1>4
<1> QED BY <1>2, <1>3, <1>4, <1>5, <1>6

\* A node below another has it on its path, where its depth says.
LEMMA BelowFacts ==
    ASSUME NEW t, NEW d, TableOf(t, d), NEW n, NEW m \in Below(t, n)
    PROVE  /\ m \in DOMAIN t /\ n \in DOMAIN t
           /\ t[n].depth + 1 \in 1 .. Len(t[m].path)
           /\ n = t[m].path[t[n].depth + 1]
           /\ t[n].path = SubSeq(t[m].path, 1, t[n].depth + 1)
           /\ t[n].depth <= t[m].depth
           /\ t[n].depth = t[m].depth => m = n
<1>1. m \in DOMAIN t /\ n \in ToSet(t[m].path)
    BY BelowIsOnPath
<1>2. PICK i \in DOMAIN t[m].path : n = t[m].path[i]
    BY <1>1 DEF ToSet
<1>3. n \in DOMAIN t /\ t[n].path = SubSeq(t[m].path, 1, i)
    BY <1>1, <1>2, PathSegments
<1>4. /\ t[m].path \in Seq(NodeId) /\ Len(t[m].path) = t[m].depth + 1
      /\ Len(t[n].path) = t[n].depth + 1 /\ t[n].depth \in Nat /\ t[m].depth \in Nat
    BY <1>1, <1>3, NodeFacts
<1>5. i \in 1 .. Len(t[m].path) /\ Len(SubSeq(t[m].path, 1, i)) = i
    BY <1>4
<1>6. i = t[n].depth + 1
    BY <1>3, <1>4, <1>5
<1>7. t[m].path[t[m].depth + 1] = m
  <2>1. CASE t[m].parent = None
    <3>1. t[m].path = <<m>>
        BY <1>1, <2>1, TablePaths DEF PathsAgree
    <3> QED BY <3>1, <1>4
  <2>2. CASE t[m].parent # None
    <3>1. /\ t[m].parent \in DOMAIN t
          /\ t[m].path = Append(t[t[m].parent].path, m)
        BY <1>1, <2>2, TablePaths DEF PathsAgree
    <3>2. t[t[m].parent].path \in Seq(NodeId) /\ m \in NodeId
        BY <1>1, <3>1, NodeFacts
    <3> QED BY <3>1, <3>2, <1>4
  <2> QED BY <2>1, <2>2
<1>8. /\ t[n].depth + 1 \in 1 .. Len(t[m].path)
      /\ n = t[m].path[t[n].depth + 1]
      /\ t[n].path = SubSeq(t[m].path, 1, t[n].depth + 1)
    BY <1>2, <1>3, <1>5, <1>6
<1>9. t[n].depth <= t[m].depth
    BY <1>4, <1>8
<1>10. t[n].depth = t[m].depth => m = n
    BY <1>7, <1>8
<1> QED BY <1>1, <1>3, <1>8, <1>9, <1>10

LEMMA BelowTransitive ==
    ASSUME NEW t, NEW d, TableOf(t, d), NEW n, NEW m \in Below(t, n), NEW k \in Below(t, m)
    PROVE  k \in Below(t, n)
<1>1. /\ k \in DOMAIN t /\ m \in DOMAIN t
      /\ t[m].path = SubSeq(t[k].path, 1, t[m].depth + 1)
      /\ t[m].depth + 1 \in 1 .. Len(t[k].path)
      /\ t[k].path \in Seq(NodeId)
    BY BelowFacts, NodeFacts
<1>2. PICK i \in DOMAIN t[m].path : n = t[m].path[i]
    BY BelowIsOnPath DEF ToSet
<1>3. i \in DOMAIN t[k].path /\ t[k].path[i] = t[m].path[i]
    BY <1>1, <1>2
<1>4. n \in ToSet(t[k].path)
    BY <1>2, <1>3 DEF ToSet
<1> QED BY <1>1, <1>4, BelowIsOnPath

\* What is below a node is the node and what is below its children.
LEMMA BelowSteps ==
    ASSUME NEW t, NEW d, TableOf(t, d), NEW n \in DOMAIN t
    PROVE  /\ n \in Below(t, n)
           /\ \A m \in Below(t, n) : m # n =>
                  /\ t[m].parent \in Below(t, n) /\ t[m].parent \in DOMAIN t
                  /\ t[m].depth = t[t[m].parent].depth + 1
           /\ \A m \in DOMAIN t : t[m].parent \in Below(t, n) => m \in Below(t, n)
<1>1. n \in Below(t, n)
    BY OwnPath, BelowIsOnPath
<1>2. ASSUME NEW m \in Below(t, n), m # n
      PROVE  /\ t[m].parent \in Below(t, n) /\ t[m].parent \in DOMAIN t
             /\ t[m].depth = t[t[m].parent].depth + 1
  <2>1. m \in DOMAIN t /\ n \in ToSet(t[m].path)
      BY BelowIsOnPath
  <2>2. t[m].parent # None
    <3>1. t[m].parent = None => ToSet(t[m].path) = {m}
        BY <2>1, PathElements
    <3> QED BY <1>2, <2>1, <3>1
  <2>3. /\ t[m].parent \in DOMAIN t
        /\ ToSet(t[m].path) = ToSet(t[t[m].parent].path) \union {m}
        /\ Len(t[m].path) = Len(t[t[m].parent].path) + 1
      BY <2>1, <2>2, PathElements
  <2>4. /\ Len(t[m].path) = t[m].depth + 1 /\ t[m].depth \in Nat
        /\ Len(t[t[m].parent].path) = t[t[m].parent].depth + 1 /\ t[t[m].parent].depth \in Nat
      BY <2>1, <2>3, NodeFacts
  <2>5. t[m].parent \in Below(t, n)
      BY <1>2, <2>1, <2>3, BelowIsOnPath
  <2> QED BY <2>3, <2>4, <2>5
<1>3. ASSUME NEW m \in DOMAIN t, t[m].parent \in Below(t, n)
      PROVE  m \in Below(t, n)
  <2>1. t[m].parent \in DOMAIN t /\ n \in ToSet(t[t[m].parent].path)
      BY <1>3, BelowIsOnPath
  <2>2. t[m].parent # None
      BY <2>1, NodeFacts
  <2>3. ToSet(t[m].path) = ToSet(t[t[m].parent].path) \union {m}
      BY <2>2, PathElements
  <2> QED BY <2>1, <2>3, BelowIsOnPath
<1> QED BY <1>1, <1>2, <1>3

\* What is below two nodes of one depth is below one node.
LEMMA SiblingsApart ==
    ASSUME NEW t, NEW d, TableOf(t, d), NEW n, NEW m, t[n].depth = t[m].depth,
           NEW k \in Below(t, n), k \in Below(t, m)
    PROVE  n = m
<1>1. n = t[k].path[t[n].depth + 1]
    BY BelowFacts
<1>2. m = t[k].path[t[m].depth + 1]
    BY BelowFacts
<1> QED BY <1>1, <1>2

-----------------------------------------------------------------------------
(***************************************************************************)
(* Walks with a depth limit                                                *)
(***************************************************************************)

\* F holds, for each node and level, the answer of a walk that came to it there.
Unfolds(F, t, limit) ==
    \A m \in DOMAIN t, level \in Nat :
        LET kids == Visited(t, m, level, limit)
        IN  /\ F[m][level].id = m
            /\ F[m][level].children = [i \in DOMAIN kids |-> F[kids[i]][level + 1]]

LEMMA VisitedFacts ==
    ASSUME NEW t, NEW d, TableOf(t, d), NEW m \in DOMAIN t, NEW level \in Nat, NEW limit
    PROVE  LET kids == Visited(t, m, level, limit)
           IN  /\ kids \in Seq(DOMAIN t)
               /\ \A i \in DOMAIN kids :
                      /\ GoesDeeper(level, limit)
                      /\ kids[i] \in DOMAIN t /\ t[kids[i]].parent = m
                      /\ t[kids[i]].depth = t[m].depth + 1
               /\ GoesDeeper(level, limit) => \A c \in DOMAIN t : t[c].parent = m =>
                      \E i \in DOMAIN kids : kids[i] = c
               /\ \A i, j \in DOMAIN kids : kids[i] = kids[j] => i = j
<1>1. CASE GoesDeeper(level, limit)
    BY <1>1, ChildFacts DEF Visited
<1>2. CASE ~GoesDeeper(level, limit)
    BY <1>2 DEF Visited
<1> QED BY <1>1, <1>2

\* A walk shows the nodes that many levels below the first, and nothing else,
\* each with the answer for its level.
LEMMA ShownNodes ==
    ASSUME NEW t, NEW d, TableOf(t, d), NEW F, NEW limit \in Nat \union {None},
           Unfolds(F, t, limit), NEW n \in DOMAIN t
    PROVE  Shown(F[n][0]) = {F[m][t[m].depth - t[n].depth] : m \in Within(t, n, limit)}
<1> DEFINE On(k) == {m \in Within(t, n, limit) : t[m].depth = t[n].depth + k}
           Level(k) == {F[m][k] : m \in On(k)}
           Next_(S) == UNION {ToSet(x.children) : x \in S}
           Solves(level) == level = [k \in 0 .. MaxDepth |->
                                        IF k = 0 THEN {F[n][0]} ELSE Next_(level[k - 1])]
<1>1. /\ Within(t, n, limit) \subseteq Below(t, n)
      /\ \A m \in Below(t, n) : /\ m \in DOMAIN t /\ t[m].depth \in Nat
                                /\ t[n].depth <= t[m].depth /\ t[m].depth <= MaxDepth
                                /\ m \in Within(t, n, limit) <=>
                                       limit = None \/ t[m].depth - t[n].depth <= limit
      /\ t[n].depth \in Nat
  <2>1. \A m \in Below(t, n) : /\ m \in DOMAIN t /\ t[n].depth <= t[m].depth
                               /\ t[m].depth \in Nat /\ t[m].depth <= MaxDepth
      BY BelowFacts, NodeFacts
  <2>2. t[n].depth \in Nat
      BY NodeFacts
  <2> QED BY <2>1, <2>2 DEF Within
<1>2. Level(0) = {F[n][0]}
  <2>1. n \in On(0)
    <3>1. limit = None \/ t[n].depth - t[n].depth <= limit
        BY <1>1
    <3> QED BY <3>1, <1>1, BelowSteps DEF Within
  <2>2. \A m \in On(0) : m = n
    <3>1. \A m \in Below(t, n) : t[n].depth = t[m].depth => m = n
        BY BelowFacts
    <3> QED BY <3>1, <1>1
  <2> HIDE DEF On
  <2> QED BY <2>1, <2>2
<1>3. ASSUME NEW k \in Nat
      PROVE  Next_(Level(k)) = Level(k + 1)
  <2>1. ASSUME NEW m \in On(k), NEW y \in ToSet(F[m][k].children)
        PROVE  y \in Level(k + 1)
    <3>0. m \in DOMAIN t /\ m \in Below(t, n)
        BY <1>1
    <3>1. PICK kids : kids = Visited(t, m, k, limit)
        OBVIOUS
    <3>2. F[m][k].children = [i \in DOMAIN kids |-> F[kids[i]][k + 1]]
        BY <3>0, <3>1 DEF Unfolds
    <3>3. PICK i \in DOMAIN kids : y = F[kids[i]][k + 1]
        BY <2>1, <3>2 DEF ToSet
    <3>4. /\ GoesDeeper(k, limit)
          /\ kids[i] \in DOMAIN t /\ t[kids[i]].parent = m
          /\ t[kids[i]].depth = t[m].depth + 1
        BY <3>0, <3>1, VisitedFacts
    <3>5. kids[i] \in Below(t, n)
        BY <3>0, <3>4, BelowSteps
    <3>6. t[kids[i]].depth = t[n].depth + (k + 1)
        BY <3>4, <1>1
    <3>7. limit = None \/ t[kids[i]].depth - t[n].depth <= limit
      <4>1. t[kids[i]].depth - t[n].depth = k + 1
          BY <3>6, <1>1
      <4> QED BY <3>4, <4>1 DEF GoesDeeper
    <3>8. kids[i] \in On(k + 1)
        BY <3>5, <3>6, <3>7, <1>1
    <3> QED BY <3>3, <3>8
  <2>2. ASSUME NEW m \in On(k + 1)
        PROVE  \E p \in On(k) : F[m][k + 1] \in ToSet(F[p][k].children)
    <3>0. m \in DOMAIN t /\ m \in Below(t, n) /\ t[m].depth = t[n].depth + (k + 1)
        BY <1>1
    <3>1. m # n
        BY <3>0, <1>1
    <3>2. PICK p : p = t[m].parent
        OBVIOUS
    <3>3. p \in Below(t, n) /\ p \in DOMAIN t /\ t[m].depth = t[p].depth + 1
        BY <3>0, <3>1, <3>2, BelowSteps
    <3>4. t[p].depth = t[n].depth + k
        BY <3>0, <3>3, <1>1
    <3>5. limit = None \/ k + 1 <= limit
      <4>1. t[m].depth - t[n].depth = k + 1
          BY <3>0, <1>1
      <4> QED BY <4>1, <3>0, <1>1
    <3>6. p \in On(k)
      <4>1. limit = None \/ t[p].depth - t[n].depth <= limit
          BY <3>4, <3>5, <1>1
      <4> QED BY <4>1, <3>3, <3>4, <1>1
    <3>7. GoesDeeper(k, limit)
        BY <3>5 DEF GoesDeeper
    <3>8. PICK kids : kids = Visited(t, p, k, limit)
        OBVIOUS
    <3>9. PICK i \in DOMAIN kids : kids[i] = m
        BY <3>0, <3>2, <3>3, <3>7, <3>8, VisitedFacts
    <3>10. F[p][k].children = [j \in DOMAIN kids |-> F[kids[j]][k + 1]]
        BY <3>3, <3>8 DEF Unfolds
    <3>11. F[m][k + 1] \in ToSet(F[p][k].children)
        BY <3>9, <3>10 DEF ToSet
    <3> QED BY <3>6, <3>11
  <2> HIDE DEF On
  <2> QED BY <2>1, <2>2
<1> HIDE DEF Level, Next_
<1>4. ASSUME NEW k \in 0 .. MaxDepth, k # 0
      PROVE  Level(k) = Next_(Level(k - 1)) /\ k - 1 \in 0 .. MaxDepth
  <2>1. k - 1 \in Nat /\ (k - 1) + 1 = k /\ k - 1 \in 0 .. MaxDepth
      BY <1>4, LimitsAssumption
  <2> QED BY <2>1, <1>3
<1>5. Solves([k \in 0 .. MaxDepth |-> Level(k)])
    BY <1>2, <1>4
<1>6. ASSUME NEW level, Solves(level)
      PROVE  \A k \in 0 .. MaxDepth : level[k] = Level(k)
  <2> DEFINE Wrong == {k \in 0 .. MaxDepth : level[k] # Level(k)}
  <2> SUFFICES ASSUME Wrong # {} PROVE FALSE
      OBVIOUS
  <2>1. Wrong \in SUBSET Nat
      BY LimitsAssumption
  <2>2. PICK k \in Wrong : \A j \in Wrong : k <= j
    <3> HIDE DEF Wrong
    <3> QED BY <2>1, LeastNatural
  <2>3. k # 0
      BY <1>2, <1>6, <2>2
  <2>4. level[k] = Next_(level[k - 1])
      BY <1>6, <2>2, <2>3
  <2>5. level[k - 1] = Level(k - 1)
    <3>1. ~(k <= k - 1)
        BY <2>1, <2>2
    <3> QED BY <3>1, <1>4, <2>2, <2>3
  <2> QED BY <1>4, <2>2, <2>3, <2>4, <2>5
<1>7. Shown(F[n][0]) = UNION {(CHOOSE level : Solves(level))[k] : k \in 0 .. MaxDepth}
    BY DEF Shown, Next_
<1> HIDE DEF Solves
<1>8. Shown(F[n][0]) = UNION {Level(k) : k \in 0 .. MaxDepth}
  <2>1. Solves(CHOOSE level : Solves(level))
      BY <1>5
  <2> QED BY <2>1, <1>6, <1>7
<1>9. \A m \in Within(t, n, limit) :
          /\ t[m].depth - t[n].depth \in 0 .. MaxDepth
          /\ t[m].depth = t[n].depth + (t[m].depth - t[n].depth)
    BY <1>1, LimitsAssumption
<1>10. \A m \in Within(t, n, limit), k \in 0 .. MaxDepth :
           t[m].depth = t[n].depth + k => t[m].depth - t[n].depth = k
    BY <1>1, LimitsAssumption
<1>11. ASSUME NEW x \in Shown(F[n][0])
       PROVE  x \in {F[m][t[m].depth - t[n].depth] : m \in Within(t, n, limit)}
  <2>1. PICK k \in 0 .. MaxDepth : x \in Level(k)
      BY <1>8
  <2>2. PICK m \in Within(t, n, limit) : t[m].depth = t[n].depth + k /\ x = F[m][k]
      BY <2>1 DEF Level
  <2> QED BY <2>2, <1>10
<1>12. ASSUME NEW m \in Within(t, n, limit)
       PROVE  F[m][t[m].depth - t[n].depth] \in Shown(F[n][0])
  <2>1. PICK k \in 0 .. MaxDepth : k = t[m].depth - t[n].depth /\ t[m].depth = t[n].depth + k
      BY <1>9
  <2>2. F[m][k] \in Level(k)
      BY <2>1 DEF Level
  <2> QED BY <2>1, <2>2, <1>8
<1> QED BY <1>11, <1>12

\* What the walks of outline, compact view and tokens make of a node, from what
\* they made of its children.
OutlineOf(t, limit, load, m, level) ==
    LET kids == Visited(t, m, level, limit)
    IN  OutlineNode(t, m, [i \in DOMAIN kids |-> load[kids[i]][level + 1]])

CompactOf(t, limit, load, m, level) ==
    LET kids == Visited(t, m, level, limit)
        below == [i \in DOMAIN kids |-> load[kids[i]][level + 1]]
    IN  [node |-> CompactNode(t, m, [i \in DOMAIN kids |-> below[i].node]),
         selected |-> <<m>> \o FlattenSeq([i \in DOMAIN kids |-> below[i].selected])]

CollectedOf(t, collect, m) ==
    LET kids == ChildIds(t, m)
    IN  <<m>> \o FlattenSeq([i \in DOMAIN kids |-> collect[kids[i]]])

AllOf(t, limit, G, m, level) ==
    LET kids == Visited(t, m, level, limit)
        all == ChildIds(t, m)
    IN  [outline |-> OutlineNode(t, m, [i \in DOMAIN kids |-> G[kids[i]][level + 1].outline]),
         compact |->
             [node |-> CompactNode(t, m, [i \in DOMAIN kids |-> G[kids[i]][level + 1].compact.node]),
              selected |-> <<m>> \o FlattenSeq(
                  [i \in DOMAIN kids |-> G[kids[i]][level + 1].compact.selected])],
         collected |-> <<m>> \o FlattenSeq([i \in DOMAIN all |-> G[all[i]][0].collected])]

\* They look at the answers for children only.
LEMMA AllOfChildren ==
    ASSUME NEW t, NEW d, TableOf(t, d), NEW limit, NEW G, NEW H,
           NEW m \in DOMAIN t, NEW level \in Nat,
           \A c \in DOMAIN t : t[c].depth = t[m].depth + 1 =>
               \A l \in Nat : G[c][l] = H[c][l]
    PROVE  AllOf(t, limit, G, m, level) = AllOf(t, limit, H, m, level)
<1>1. PICK kids : kids = Visited(t, m, level, limit)
    OBVIOUS
<1>2. PICK all : all = ChildIds(t, m)
    OBVIOUS
<1>3. \A i \in DOMAIN kids : G[kids[i]][level + 1] = H[kids[i]][level + 1]
    BY <1>1, VisitedFacts
<1>4. \A i \in DOMAIN all : G[all[i]][0] = H[all[i]][0]
  <2>1. \A i \in DOMAIN all : all[i] \in DOMAIN t /\ t[all[i]].depth = t[m].depth + 1
      BY <1>2, ChildFacts
  <2> QED BY <2>1
<1>5. /\ [i \in DOMAIN kids |-> G[kids[i]][level + 1].outline]
             = [i \in DOMAIN kids |-> H[kids[i]][level + 1].outline]
      /\ [i \in DOMAIN kids |-> G[kids[i]][level + 1].compact.node]
             = [i \in DOMAIN kids |-> H[kids[i]][level + 1].compact.node]
      /\ [i \in DOMAIN kids |-> G[kids[i]][level + 1].compact.selected]
             = [i \in DOMAIN kids |-> H[kids[i]][level + 1].compact.selected]
      /\ [i \in DOMAIN all |-> G[all[i]][0].collected]
             = [i \in DOMAIN all |-> H[all[i]][0].collected]
    BY <1>3, <1>4
<1> QED BY <1>1, <1>2, <1>5 DEF AllOf

\* The recursions have solutions, made from the deepest nodes up.
LEMMA WalksExist ==
    ASSUME NEW t, NEW d, TableOf(t, d), NEW limit
    PROVE  \E G : \A m \in DOMAIN t, level \in Nat :
               G[m][level] = AllOf(t, limit, G, m, level)
<1> DEFINE Solved(G, k) == \A m \in DOMAIN t : k <= t[m].depth =>
                               \A level \in Nat : G[m][level] = AllOf(t, limit, G, m, level)
           Reached == {k \in 0 .. MaxDepth + 1 : \E G : Solved(G, k)}
<1>1. \A m \in DOMAIN t : t[m].depth \in Nat /\ t[m].depth <= MaxDepth
    BY NodeFacts
<1>2. Reached \in SUBSET Nat /\ Reached # {}
  <2>1. \A m \in DOMAIN t : ~(MaxDepth + 1 <= t[m].depth)
      BY <1>1, LimitsAssumption
  <2>2. Solved(t, MaxDepth + 1)
      BY <2>1
  <2>3. MaxDepth + 1 \in 0 .. MaxDepth + 1
      BY LimitsAssumption
  <2> HIDE DEF Solved
  <2> QED BY <2>2, <2>3, LimitsAssumption
<1>3. PICK k \in Reached : \A j \in Reached : k <= j
  <2> HIDE DEF Reached
  <2> QED BY <1>2, LeastNatural
<1>4. PICK G : Solved(G, k)
  <2> HIDE DEF Solved
  <2> QED BY <1>3
<1>5. k = 0
  <2> SUFFICES ASSUME k # 0 PROVE FALSE
      OBVIOUS
  <2>1. k \in Nat /\ k - 1 \in 0 .. MaxDepth + 1
      BY <1>3, LimitsAssumption
  <2>2. PICK H : H = [m \in DOMAIN t |->
                        IF k <= t[m].depth THEN G[m]
                        ELSE [level \in Nat |-> AllOf(t, limit, G, m, level)]]
      OBVIOUS
  <2>3. ASSUME NEW m \in DOMAIN t, k - 1 <= t[m].depth, NEW level \in Nat
        PROVE  H[m][level] = AllOf(t, limit, H, m, level)
    <3>1. \A c \in DOMAIN t : t[c].depth = t[m].depth + 1 => k <= t[c].depth
        BY <1>1, <2>1, <2>3
    <3>2. \A c \in DOMAIN t : t[c].depth = t[m].depth + 1 =>
              \A l \in Nat : G[c][l] = H[c][l]
        BY <2>2, <3>1
    <3>3. AllOf(t, limit, G, m, level) = AllOf(t, limit, H, m, level)
        BY <3>2, AllOfChildren
    <3>4. H[m][level] = AllOf(t, limit, G, m, level)
        BY <1>4, <2>2
    <3> QED BY <3>3, <3>4
  <2>4. Solved(H, k - 1)
      BY <2>3
  <2> HIDE DEF Solved
  <2>5. k - 1 \in Reached
      BY <2>1, <2>4
  <2> HIDE DEF Reached
  <2> QED BY <1>3, <2>1, <2>5
<1>6. \A m \in DOMAIN t : k <= t[m].depth
    BY <1>1, <1>5
<1> QED BY <1>4, <1>6

\* What the commands show is therefore what their recursions say.
LEMMA OutlineUnfolds ==
    ASSUME NEW t, NEW d, TableOf(t, d), NEW limit
    PROVE  \E load :
               /\ \A n : Outline(t, n, limit) = load[n][0]
               /\ \A m \in DOMAIN t, level \in Nat :
                      load[m][level] = OutlineOf(t, limit, load, m, level)
<1> DEFINE Solves(load) == load = [m \in DOMAIN t |->
                                      [level \in Nat |-> OutlineOf(t, limit, load, m, level)]]
<1>1. PICK G : \A m \in DOMAIN t, level \in Nat :
                   G[m][level] = AllOf(t, limit, G, m, level)
    BY WalksExist
<1>2. PICK made : made = [m \in DOMAIN t |-> [level \in Nat |-> G[m][level].outline]]
    OBVIOUS
<1>3. ASSUME NEW m \in DOMAIN t, NEW level \in Nat
      PROVE  made[m][level] = OutlineOf(t, limit, made, m, level)
  <2>1. PICK kids : kids = Visited(t, m, level, limit)
      OBVIOUS
  <2>2. \A i \in DOMAIN kids : made[kids[i]][level + 1] = G[kids[i]][level + 1].outline
      BY <1>2, <2>1, VisitedFacts
  <2>3. [i \in DOMAIN kids |-> made[kids[i]][level + 1]]
            = [i \in DOMAIN kids |-> G[kids[i]][level + 1].outline]
      BY <2>2
  <2>4. OutlineOf(t, limit, made, m, level) = AllOf(t, limit, G, m, level).outline
      BY <2>1, <2>3 DEF OutlineOf, AllOf
  <2> QED BY <1>1, <1>2, <2>4
<1>4. Solves(made)
  <2>1. \A m \in DOMAIN t : made[m] = [level \in Nat |-> made[m][level]]
      BY <1>2
  <2>2. \A m \in DOMAIN t : made[m] = [level \in Nat |-> OutlineOf(t, limit, made, m, level)]
      BY <1>3, <2>1
  <2> QED BY <1>2, <2>2
<1>5. \A n : Outline(t, n, limit) = (CHOOSE load : Solves(load))[n][0]
    BY DEF Outline, OutlineOf
<1> HIDE DEF Solves
<1>6. PICK load : load = (CHOOSE load_ : Solves(load_))
    OBVIOUS
<1>7. Solves(load)
    BY <1>4, <1>6
<1>8. \A m \in DOMAIN t, level \in Nat : load[m][level] = OutlineOf(t, limit, load, m, level)
    BY <1>7 DEF Solves
<1> QED BY <1>5, <1>6, <1>8

LEMMA CompactUnfolds ==
    ASSUME NEW t, NEW d, TableOf(t, d), NEW limit
    PROVE  \E load :
               /\ \A n : LoadCompact(t, n, limit) = load[n][0]
               /\ \A m \in DOMAIN t, level \in Nat :
                      load[m][level] = CompactOf(t, limit, load, m, level)
<1> DEFINE Solves(load) == load = [m \in DOMAIN t |->
                                      [level \in Nat |-> CompactOf(t, limit, load, m, level)]]
<1>1. PICK G : \A m \in DOMAIN t, level \in Nat :
                   G[m][level] = AllOf(t, limit, G, m, level)
    BY WalksExist
<1>2. PICK made : made = [m \in DOMAIN t |-> [level \in Nat |-> G[m][level].compact]]
    OBVIOUS
<1>3. ASSUME NEW m \in DOMAIN t, NEW level \in Nat
      PROVE  made[m][level] = CompactOf(t, limit, made, m, level)
  <2>1. PICK kids : kids = Visited(t, m, level, limit)
      OBVIOUS
  <2>2. \A i \in DOMAIN kids : made[kids[i]][level + 1] = G[kids[i]][level + 1].compact
      BY <1>2, <2>1, VisitedFacts
  <2>3. PICK below : below = [i \in DOMAIN kids |-> made[kids[i]][level + 1]]
      OBVIOUS
  <2>4. /\ [i \in DOMAIN kids |-> below[i].node]
               = [i \in DOMAIN kids |-> G[kids[i]][level + 1].compact.node]
        /\ [i \in DOMAIN kids |-> below[i].selected]
               = [i \in DOMAIN kids |-> G[kids[i]][level + 1].compact.selected]
      BY <2>2, <2>3
  <2>5. CompactOf(t, limit, made, m, level)
            = [node |-> CompactNode(t, m, [i \in DOMAIN kids |-> below[i].node]),
               selected |-> <<m>> \o FlattenSeq([i \in DOMAIN kids |-> below[i].selected])]
      BY <2>1, <2>3 DEF CompactOf
  <2>6. AllOf(t, limit, G, m, level).compact
            = [node |-> CompactNode(t, m, [i \in DOMAIN kids |-> below[i].node]),
               selected |-> <<m>> \o FlattenSeq([i \in DOMAIN kids |-> below[i].selected])]
      BY <2>1, <2>4 DEF AllOf
  <2> QED BY <1>1, <1>2, <2>5, <2>6
<1>4. Solves(made)
  <2>1. \A m \in DOMAIN t : made[m] = [level \in Nat |-> made[m][level]]
      BY <1>2
  <2>2. \A m \in DOMAIN t : made[m] = [level \in Nat |-> CompactOf(t, limit, made, m, level)]
      BY <1>3, <2>1
  <2> QED BY <1>2, <2>2
<1>5. \A n : LoadCompact(t, n, limit) = (CHOOSE load : Solves(load))[n][0]
    BY DEF LoadCompact, CompactOf
<1> HIDE DEF Solves
<1>6. PICK load : load = (CHOOSE load_ : Solves(load_))
    OBVIOUS
<1>7. Solves(load)
    BY <1>4, <1>6
<1>8. \A m \in DOMAIN t, level \in Nat : load[m][level] = CompactOf(t, limit, load, m, level)
    BY <1>7 DEF Solves
<1> QED BY <1>5, <1>6, <1>8

LEMMA CollectUnfolds ==
    ASSUME NEW t, NEW d, TableOf(t, d)
    PROVE  \E collect :
               /\ \A n : CollectNodes(t, n) = collect[n]
               /\ \A m \in DOMAIN t : collect[m] = CollectedOf(t, collect, m)
<1> DEFINE Solves(collect) == collect = [m \in DOMAIN t |-> CollectedOf(t, collect, m)]
<1>1. PICK G : \A m \in DOMAIN t, level \in Nat :
                   G[m][level] = AllOf(t, None, G, m, level)
    BY WalksExist
<1>2. PICK made : made = [m \in DOMAIN t |-> G[m][0].collected]
    OBVIOUS
<1>3. ASSUME NEW m \in DOMAIN t
      PROVE  made[m] = CollectedOf(t, made, m)
  <2>1. PICK kids : kids = ChildIds(t, m)
      OBVIOUS
  <2>2. \A i \in DOMAIN kids : made[kids[i]] = G[kids[i]][0].collected
      BY <1>2, <2>1, ChildFacts
  <2>3. [i \in DOMAIN kids |-> made[kids[i]]]
            = [i \in DOMAIN kids |-> G[kids[i]][0].collected]
      BY <2>2
  <2>4. CollectedOf(t, made, m) = AllOf(t, None, G, m, 0).collected
      BY <2>1, <2>3 DEF CollectedOf, AllOf
  <2> QED BY <1>1, <1>2, <2>4
<1>4. Solves(made)
    BY <1>2, <1>3
<1>5. \A n : CollectNodes(t, n) = (CHOOSE collect : Solves(collect))[n]
    BY DEF CollectNodes, CollectedOf
<1> HIDE DEF Solves
<1>6. PICK collect : collect = (CHOOSE collect_ : Solves(collect_))
    OBVIOUS
<1>7. Solves(collect)
    BY <1>4, <1>6
<1>8. \A m \in DOMAIN t : collect[m] = CollectedOf(t, collect, m)
    BY <1>7 DEF Solves
<1> QED BY <1>5, <1>6, <1>8

-----------------------------------------------------------------------------
(***************************************************************************)
(* Lists of nodes                                                          *)
(***************************************************************************)

LEMMA ConcatFacts ==
    ASSUME NEW S, NEW s \in Seq(S), NEW r \in Seq(S)
    PROVE  /\ s \o r \in Seq(S)
           /\ ToSet(s \o r) = ToSet(s) \union ToSet(r)
           /\ IsInjective(s) /\ IsInjective(r) /\ ToSet(s) \intersect ToSet(r) = {} =>
                  IsInjective(s \o r)
<1>1. PICK u : u = s \o r
    OBVIOUS
<1>2. PICK k : k = Len(s)
    OBVIOUS
<1>3. /\ k \in Nat /\ DOMAIN s = 1 .. k /\ DOMAIN r = 1 .. Len(r) /\ Len(r) \in Nat
      /\ DOMAIN u = 1 .. k + Len(r)
      /\ \A i \in 1 .. k : u[i] = s[i]
      /\ \A i \in 1 .. k + Len(r) : i > k => u[i] = r[i - k]
      /\ \A i \in 1 .. Len(r) : u[k + i] = r[i]
    BY <1>1, <1>2
<1>4. ToSet(u) = ToSet(s) \union ToSet(r)
  <2>1. \A i \in 1 .. k + Len(r) : i \in 1 .. k \/ (i > k /\ i - k \in 1 .. Len(r))
      BY <1>3
  <2>2. \A i \in 1 .. Len(r) : k + i \in 1 .. k + Len(r)
      BY <1>3
  <2>3. \A i \in 1 .. k : i \in 1 .. k + Len(r)
      BY <1>3
  <2>4. ASSUME NEW x \in ToSet(u) PROVE x \in ToSet(s) \union ToSet(r)
    <3>1. PICK i \in 1 .. k + Len(r) : x = u[i]
        BY <2>4, <1>3 DEF ToSet
    <3> QED BY <3>1, <2>1, <1>3 DEF ToSet
  <2>5. ASSUME NEW x \in ToSet(s) \union ToSet(r) PROVE x \in ToSet(u)
      BY <2>2, <2>3, <1>3 DEF ToSet
  <2> QED BY <2>4, <2>5
<1>5. ASSUME IsInjective(s), IsInjective(r), ToSet(s) \intersect ToSet(r) = {}
      PROVE  IsInjective(u)
  <2>1. ASSUME NEW i \in 1 .. k + Len(r), NEW j \in 1 .. k + Len(r), u[i] = u[j], i < j
        PROVE  FALSE
    <3>1. CASE j <= k
      <4>1. i \in 1 .. k /\ j \in 1 .. k
          BY <1>3, <2>1, <3>1
      <4>2. s[i] = s[j]
          BY <1>3, <2>1, <4>1
      <4>3. i = j
          BY <4>1, <4>2, <1>3, <1>5 DEF IsInjective
      <4> QED BY <2>1, <4>3
    <3>2. CASE i > k
      <4>1. i - k \in 1 .. Len(r) /\ j - k \in 1 .. Len(r) /\ j > k /\ i - k # j - k
          BY <1>3, <2>1, <3>2
      <4>2. r[i - k] = r[j - k]
          BY <1>3, <2>1, <3>2, <4>1
      <4> QED BY <4>1, <4>2, <1>3, <1>5 DEF IsInjective
    <3>3. CASE i <= k /\ j > k
      <4>1. i \in 1 .. k /\ j - k \in 1 .. Len(r)
          BY <1>3, <2>1, <3>3
      <4>2. s[i] = r[j - k]
          BY <1>3, <2>1, <3>3, <4>1
      <4>3. s[i] \in ToSet(s) /\ r[j - k] \in ToSet(r)
          BY <1>3, <4>1 DEF ToSet
      <4> QED BY <1>5, <4>2, <4>3
    <3> QED BY <1>3, <3>1, <3>2, <3>3
  <2>2. \A i, j \in 1 .. k + Len(r) : i < j \/ j < i \/ i = j
      BY <1>3
  <2> QED BY <1>3, <2>1, <2>2 DEF IsInjective
<1> QED BY <1>1, <1>4, <1>5

\* A list of lists laid end to end: its elements are theirs, and none comes twice
\* if none does in one of them or in two.
LEMMA FlattenFacts ==
    ASSUME NEW S, NEW ss \in Seq(Seq(S))
    PROVE  /\ FlattenSeq(ss) \in Seq(S)
           /\ ToSet(FlattenSeq(ss)) = UNION {ToSet(ss[i]) : i \in DOMAIN ss}
           /\ (/\ \A i \in DOMAIN ss : IsInjective(ss[i])
               /\ \A i, j \in DOMAIN ss : i # j => ToSet(ss[i]) \intersect ToSet(ss[j]) = {})
                  => IsInjective(FlattenSeq(ss))
<1> DEFINE Step(f, i) == IF i = 1 THEN ss[i] ELSE f[i - 1] \o ss[i]
           Solves(f) == f = [i \in 1 .. Len(ss) |-> Step(f, i)]
           Apart == /\ \A i \in DOMAIN ss : IsInjective(ss[i])
                    /\ \A i, j \in DOMAIN ss : i # j => ToSet(ss[i]) \intersect ToSet(ss[j]) = {}
<1>1. PICK n : n = Len(ss)
    OBVIOUS
<1>2. n \in Nat /\ DOMAIN ss = 1 .. n /\ \A i \in 1 .. n : ss[i] \in Seq(S)
    BY <1>1
<1>3. CASE n = 0
  <2>1. FlattenSeq(ss) = ss /\ ss = <<>>
    <3>1. Len(ss) = 0
        BY <1>1, <1>3
    <3>2. FlattenSeq(ss) = ss
        BY <3>1, Zenon DEF FlattenSeq
    <3>3. ss = <<>>
        BY <3>1
    <3> QED BY <3>2, <3>3
  <2>2. ss \in Seq(S) /\ ToSet(ss) = {} /\ DOMAIN ss = {} /\ IsInjective(ss)
      BY <2>1 DEF ToSet, IsInjective
  <2> QED BY <2>1, <2>2
<1>4. CASE n # 0
  <2> DEFINE Reached == {k \in 0 .. n : \E f : \A i \in 1 .. k : f[i] = Step(f, i)}
  <2>1. PICK k \in Reached : \A j \in Reached : j <= k
    <3>1. \A f, i : i \in 1 .. 0 => f[i] = Step(f, i)
        OBVIOUS
    <3>2. 0 \in Reached
        BY <1>2, <3>1
    <3>3. Reached \in SUBSET Nat /\ \A j \in Reached : j <= n
        BY <1>2
    <3> HIDE DEF Reached
    <3> QED BY <1>2, <3>2, <3>3, GreatestNatural
  <2>2. PICK f : \A i \in 1 .. k : f[i] = Step(f, i)
      BY <2>1
  <2>3. k = n
    <3> SUFFICES ASSUME k # n PROVE FALSE
        OBVIOUS
    <3>1. k \in Nat /\ k + 1 \in 0 .. n
        BY <1>2, <2>1
    <3>2. PICK g : g = [i \in 1 .. k + 1 |-> IF i <= k THEN f[i] ELSE Step(f, i)]
        OBVIOUS
    <3>3. ASSUME NEW i \in 1 .. k + 1 PROVE g[i] = Step(g, i)
      <4>1. i # 1 => i - 1 \in 1 .. k + 1 /\ i - 1 <= k
          BY <3>1
      <4>2. i # 1 => g[i - 1] = f[i - 1]
          BY <3>2, <4>1
      <4>3. Step(g, i) = Step(f, i)
          BY <4>2
      <4>4. i <= k => i \in 1 .. k
          BY <3>1
      <4>5. g[i] = Step(f, i)
        <5> HIDE DEF Step
        <5> QED BY <3>2, <4>4, <2>2
      <4> QED BY <4>3, <4>5
    <3>4. \E h : \A i \in 1 .. k + 1 : h[i] = Step(h, i)
      <4> HIDE DEF Step
      <4> QED BY <3>3
    <3>5. k + 1 \in Reached
        BY <3>1, <3>4
    <3> HIDE DEF Reached
    <3> QED BY <2>1, <3>1, <3>5
  <2>4. \E g : Solves(g)
    <3>1. PICK g : g = [i \in 1 .. n |-> f[i]]
        OBVIOUS
    <3>2. ASSUME NEW i \in 1 .. n PROVE g[i] = Step(g, i)
      <4>1. i # 1 => i - 1 \in 1 .. n
          BY <1>2
      <4>2. i # 1 => g[i - 1] = f[i - 1]
          BY <3>1, <4>1
      <4>3. Step(g, i) = Step(f, i)
          BY <4>2
      <4>4. f[i] = Step(f, i)
        <5> HIDE DEF Step
        <5> QED BY <2>2, <2>3
      <4>5. g[i] = f[i]
          BY <3>1
      <4> QED BY <4>3, <4>4, <4>5
    <3>3. g = [i \in 1 .. Len(ss) |-> Step(g, i)]
      <4> HIDE DEF Step
      <4> QED BY <1>1, <3>1, <3>2
    <3> QED BY <3>3
  <2>5. FlattenSeq(ss) = (CHOOSE g : Solves(g))[n]
      BY <1>1, <1>4 DEF FlattenSeq
  <2>6. PICK g : g = (CHOOSE g_ : Solves(g_))
      OBVIOUS
  <2>7. \A i \in 1 .. n : g[i] = Step(g, i)
    <3>1. Solves(g)
      <4> HIDE DEF Solves
      <4> QED BY <2>4, <2>6
    <3>2. g = [i \in 1 .. n |-> Step(g, i)]
        BY <3>1, <1>1
    <3> HIDE DEF Step
    <3> QED BY <3>2
  <2> DEFINE Good(i) == /\ g[i] \in Seq(S)
                        /\ ToSet(g[i]) = UNION {ToSet(ss[j]) : j \in 1 .. i}
                        /\ Apart => IsInjective(g[i])
             Wrong == {i \in 1 .. n : ~Good(i)}
  <2> HIDE DEF Apart
  <2>8. Wrong = {}
    <3> SUFFICES ASSUME Wrong # {} PROVE FALSE
        OBVIOUS
    <3>1. Wrong \in SUBSET Nat
        BY <1>2
    <3>2. PICK i \in Wrong : \A j \in Wrong : i <= j
      <4> HIDE DEF Wrong
      <4> QED BY <3>1, LeastNatural
    <3>3. i \in 1 .. n /\ ~Good(i)
        OBVIOUS
    <3> HIDE DEF Wrong
    <3>4. CASE i = 1
      <4>1. g[i] = ss[1] /\ ss[1] \in Seq(S) /\ 1 \in DOMAIN ss
          BY <1>2, <2>7, <3>3, <3>4
      <4>2. UNION {ToSet(ss[j]) : j \in 1 .. 1} = ToSet(ss[1])
          OBVIOUS
      <4>3. Apart => IsInjective(ss[1])
          BY <4>1 DEF Apart
      <4> QED BY <3>3, <3>4, <4>1, <4>2, <4>3
    <3>5. CASE i # 1
      <4>1. i - 1 \in 1 .. n /\ ~(i <= i - 1) /\ i \in Nat
          BY <1>2, <3>3, <3>5
      <4>2. Good(i - 1)
        <5> HIDE DEF Good
        <5> QED BY <4>1, <3>2 DEF Wrong
      <4>3. PICK s : s = g[i - 1]
          OBVIOUS
      <4>4. PICK r : r = ss[i]
          OBVIOUS
      <4>5. g[i] = s \o r /\ s \in Seq(S) /\ r \in Seq(S)
          BY <1>2, <2>7, <3>3, <3>5, <4>2, <4>3, <4>4
      <4>6. /\ g[i] \in Seq(S) /\ ToSet(g[i]) = ToSet(s) \union ToSet(r)
            /\ IsInjective(s) /\ IsInjective(r) /\ ToSet(s) \intersect ToSet(r) = {} =>
                   IsInjective(g[i])
          BY <4>5, ConcatFacts
      <4>7. ToSet(s) = UNION {ToSet(ss[j]) : j \in 1 .. i - 1}
          BY <4>2, <4>3
      <4>8. ToSet(g[i]) = UNION {ToSet(ss[j]) : j \in 1 .. i}
        <5>1. 1 .. i = (1 .. i - 1) \union {i}
            BY <4>1, <3>3
        <5> QED BY <5>1, <4>4, <4>6, <4>7
      <4>9. ASSUME Apart PROVE IsInjective(g[i])
        <5>1. IsInjective(s) /\ IsInjective(r)
          <6>1. IsInjective(s)
              BY <4>2, <4>3, <4>9
          <6>2. IsInjective(ss[i])
              BY <1>2, <3>3, <4>9 DEF Apart
          <6> QED BY <6>1, <6>2, <4>4
        <5>2. \A j \in 1 .. i - 1 : ToSet(ss[j]) \intersect ToSet(r) = {}
          <6>1. \A j \in 1 .. i - 1 : j \in 1 .. n /\ j # i
              BY <3>3, <4>1, <1>2
          <6> QED BY <6>1, <1>2, <3>3, <4>4, <4>9 DEF Apart
        <5>3. ToSet(s) \intersect ToSet(r) = {}
            BY <4>7, <5>2
        <5> QED BY <5>1, <5>3, <4>6
      <4> QED BY <3>3, <4>6, <4>8, <4>9
    <3> QED BY <3>4, <3>5
  <2>9. Good(n)
    <3>1. n \in 1 .. n
        BY <1>2, <1>4
    <3> HIDE DEF Good
    <3> QED BY <2>8, <3>1
  <2>10. FlattenSeq(ss) = g[n]
    <3> HIDE DEF Solves
    <3> QED BY <2>5, <2>6
  <2>11. Apart => IsInjective(FlattenSeq(ss))
      BY <2>9, <2>10
  <2>12. /\ FlattenSeq(ss) \in Seq(S)
         /\ ToSet(FlattenSeq(ss)) = UNION {ToSet(ss[i]) : i \in DOMAIN ss}
      BY <1>2, <2>9, <2>10
  <2> QED BY <2>11, <2>12 DEF Apart
<1> QED BY <1>3, <1>4

\* A node below another is below one of its children.
LEMMA BelowChild ==
    ASSUME NEW t, NEW d, TableOf(t, d), NEW m \in DOMAIN t, NEW k \in Below(t, m), k # m
    PROVE  \E c \in DOMAIN t : t[c].parent = m /\ k \in Below(t, c)
<1> DEFINE Found_(x) == \E c \in DOMAIN t : t[c].parent = m /\ x \in Below(t, c)
           Lost == {x \in Below(t, m) : x # m /\ ~Found_(x)}
           Depths_ == {t[x].depth : x \in Lost}
<1> SUFFICES ASSUME Lost # {} PROVE FALSE
    OBVIOUS
<1>1. Depths_ \in SUBSET Nat /\ Depths_ # {}
  <2>1. \A x \in Below(t, m) : t[x].depth \in Nat
      BY BelowFacts, NodeFacts
  <2> QED BY <2>1
<1>2. PICK l \in Depths_ : \A j \in Depths_ : l <= j
    BY <1>1, LeastNatural
<1>3. PICK x \in Lost : l = t[x].depth
    BY <1>2
<1>4. x \in Below(t, m) /\ x # m /\ ~Found_(x)
    OBVIOUS
<1>5. /\ t[x].parent \in Below(t, m) /\ t[x].parent \in DOMAIN t
      /\ t[x].depth = t[t[x].parent].depth + 1
    BY <1>4, BelowSteps
<1>6. x \in DOMAIN t /\ t[x].depth \in Nat /\ t[t[x].parent].depth \in Nat
  <2>1. x \in DOMAIN t
      BY <1>4, BelowFacts
  <2> QED BY <2>1, <1>5, NodeFacts
<1>7. t[x].parent # m
  <2>1. x \in Below(t, x)
      BY <1>6, BelowSteps
  <2> QED BY <2>1, <1>4, <1>6
<1>8. t[x].parent \notin Lost
  <2>1. t[t[x].parent].depth \notin Depths_
    <3>1. ~(t[x].depth <= t[t[x].parent].depth)
        BY <1>5, <1>6
    <3> HIDE DEF Depths_
    <3> QED BY <3>1, <1>2, <1>3
  <2> HIDE DEF Lost
  <2> QED BY <2>1
<1>9. PICK c \in DOMAIN t : t[c].parent = m /\ t[x].parent \in Below(t, c)
    BY <1>5, <1>7, <1>8
<1>10. x \in Below(t, c)
    BY <1>6, <1>9, BelowSteps
<1> QED BY <1>4, <1>9, <1>10

\* What a walk comes to from a node at a level.
WithinFrom(t, m, level, limit) ==
    {k \in Below(t, m) :
        k = m \/ limit = None \/ level + (t[k].depth - t[m].depth) <= limit}

LEMMA WithinFromTop ==
    ASSUME NEW t, NEW d, TableOf(t, d), NEW m \in DOMAIN t, NEW limit \in Nat \union {None}
    PROVE  WithinFrom(t, m, 0, limit) = Within(t, m, limit)
<1>1. \A k \in Below(t, m) : t[k].depth \in Nat /\ t[m].depth \in Nat
    BY BelowFacts, NodeFacts
<1>2. limit = None \/ t[m].depth - t[m].depth <= limit
  <2>1. t[m].depth \in Nat
      BY NodeFacts
  <2> QED BY <2>1
<1>3. \A k \in Below(t, m) :
          0 + (t[k].depth - t[m].depth) = t[k].depth - t[m].depth
    BY <1>1
<1> QED BY <1>2, <1>3 DEF WithinFrom, Within

LEMMA WithinFromSteps ==
    ASSUME NEW t, NEW d, TableOf(t, d), NEW m \in DOMAIN t, NEW level \in Nat,
           NEW limit \in Nat \union {None}, NEW kids, kids = Visited(t, m, level, limit)
    PROVE  /\ WithinFrom(t, m, level, limit) =
                  {m} \union UNION {WithinFrom(t, kids[i], level + 1, limit) : i \in DOMAIN kids}
           /\ \A i \in DOMAIN kids : m \notin WithinFrom(t, kids[i], level + 1, limit)
           /\ \A i, j \in DOMAIN kids : i # j =>
                  WithinFrom(t, kids[i], level + 1, limit)
                      \intersect WithinFrom(t, kids[j], level + 1, limit) = {}
<1>1. /\ \A i \in DOMAIN kids : /\ GoesDeeper(level, limit)
                                /\ kids[i] \in DOMAIN t /\ t[kids[i]].parent = m
                                /\ t[kids[i]].depth = t[m].depth + 1
      /\ GoesDeeper(level, limit) => \A c \in DOMAIN t : t[c].parent = m =>
             \E i \in DOMAIN kids : kids[i] = c
      /\ \A i, j \in DOMAIN kids : kids[i] = kids[j] => i = j
    BY VisitedFacts
<1>2. \A n : \A k \in Below(t, n) : /\ t[k].depth \in Nat /\ t[n].depth \in Nat
                                    /\ t[n].depth <= t[k].depth
                                    /\ k \in DOMAIN t /\ n \in DOMAIN t
    BY BelowFacts, NodeFacts
<1>3. t[m].depth \in Nat /\ m \in Below(t, m)
    BY NodeFacts, BelowSteps
<1>4. ASSUME NEW k \in WithinFrom(t, m, level, limit), k # m
      PROVE  \E i \in DOMAIN kids : k \in WithinFrom(t, kids[i], level + 1, limit)
  <2>1. k \in Below(t, m) /\ (limit = None \/ level + (t[k].depth - t[m].depth) <= limit)
      BY <1>4 DEF WithinFrom
  <2>2. PICK c \in DOMAIN t : t[c].parent = m /\ k \in Below(t, c)
      BY <1>4, <2>1, BelowChild
  <2>3. t[c].depth = t[m].depth + 1 /\ t[c].depth <= t[k].depth /\ t[k].depth \in Nat
    <3>1. PICK i \in DOMAIN ChildIds(t, m) : ChildIds(t, m)[i] = c
        BY <2>2, ChildFacts
    <3>2. t[ChildIds(t, m)[i]].depth = t[m].depth + 1
        BY ChildFacts
    <3> QED BY <3>1, <3>2, <2>2, <1>2
  <2>4. GoesDeeper(level, limit)
    <3>1. CASE limit = None
        BY <3>1 DEF GoesDeeper
    <3>2. CASE limit # None
      <4>1. limit \in Nat /\ level + (t[k].depth - t[m].depth) <= limit
          BY <2>1, <3>2
      <4>2. level < limit
          BY <4>1, <2>3, <1>3
      <4> QED BY <4>2 DEF GoesDeeper
    <3> QED BY <3>1, <3>2
  <2>5. PICK i \in DOMAIN kids : kids[i] = c
      BY <1>1, <2>2, <2>4
  <2>6. (level + 1) + (t[k].depth - t[c].depth) = level + (t[k].depth - t[m].depth)
      BY <2>3, <1>3
  <2>7. k \in WithinFrom(t, c, level + 1, limit)
      BY <2>1, <2>2, <2>6 DEF WithinFrom
  <2> QED BY <2>5, <2>7
<1>5. ASSUME NEW i \in DOMAIN kids, NEW k \in WithinFrom(t, kids[i], level + 1, limit)
      PROVE  k \in WithinFrom(t, m, level, limit) /\ k # m
  <2>1. PICK c : c = kids[i]
      OBVIOUS
  <2>2. /\ c \in DOMAIN t /\ t[c].parent = m /\ t[c].depth = t[m].depth + 1
        /\ GoesDeeper(level, limit)
      BY <1>1, <2>1
  <2>3. k \in Below(t, c) /\ (k = c \/ limit = None \/ (level + 1) + (t[k].depth - t[c].depth) <= limit)
      BY <1>5, <2>1 DEF WithinFrom
  <2>4. c \in Below(t, m)
      BY <1>3, <2>2, BelowSteps
  <2>5. k \in Below(t, m)
      BY <2>3, <2>4, BelowTransitive
  <2>6. t[k].depth \in Nat /\ t[c].depth <= t[k].depth
      BY <1>2, <2>3
  <2>7. k # m
      BY <1>3, <2>2, <2>6
  <2>8. limit = None \/ level + (t[k].depth - t[m].depth) <= limit
    <3>1. CASE k = c
      <4>1. level + (t[k].depth - t[m].depth) = level + 1
          BY <3>1, <2>2, <1>3
      <4> QED BY <4>1, <2>2 DEF GoesDeeper
    <3>2. CASE k # c
      <4>1. (level + 1) + (t[k].depth - t[c].depth) = level + (t[k].depth - t[m].depth)
          BY <2>2, <2>6, <1>3
      <4> QED BY <4>1, <3>2, <2>3
    <3> QED BY <3>1, <3>2
  <2> QED BY <2>5, <2>7, <2>8 DEF WithinFrom
<1>6. m \in WithinFrom(t, m, level, limit)
    BY <1>3 DEF WithinFrom
<1>7. ASSUME NEW i \in DOMAIN kids, NEW j \in DOMAIN kids, i # j,
             NEW k \in WithinFrom(t, kids[i], level + 1, limit),
             k \in WithinFrom(t, kids[j], level + 1, limit)
      PROVE  FALSE
  <2>1. k \in Below(t, kids[i]) /\ k \in Below(t, kids[j])
      BY <1>7 DEF WithinFrom
  <2>2. t[kids[i]].depth = t[kids[j]].depth
      BY <1>1
  <2>3. kids[i] = kids[j]
      BY <2>1, <2>2, SiblingsApart
  <2> QED BY <2>3, <1>1, <1>7
<1> QED BY <1>4, <1>5, <1>6, <1>7

\* A list holds what a walk comes to, each node once.
Lists(t, list, m, level, limit) ==
    /\ list \in Seq(DOMAIN t) /\ IsInjective(list)
    /\ ToSet(list) = WithinFrom(t, m, level, limit)

\* So does a node followed by the lists of its children.
LEMMA NodeThenChildren ==
    ASSUME NEW t, NEW d, TableOf(t, d), NEW m \in DOMAIN t, NEW level \in Nat,
           NEW limit \in Nat \union {None}, NEW kids, kids = Visited(t, m, level, limit),
           NEW ss, ss = [i \in DOMAIN kids |-> ss[i]],
           \A i \in DOMAIN kids : Lists(t, ss[i], kids[i], level + 1, limit),
           NEW list, list = <<m>> \o FlattenSeq(ss)
    PROVE  Lists(t, list, m, level, limit)
<1>0. \A i \in DOMAIN kids :
          /\ ss[i] \in Seq(DOMAIN t) /\ IsInjective(ss[i])
          /\ ToSet(ss[i]) = WithinFrom(t, kids[i], level + 1, limit)
    BY DEF Lists
<1>1. kids \in Seq(DOMAIN t) /\ DOMAIN ss = DOMAIN kids
    BY VisitedFacts
<1>2. ss \in Seq(Seq(DOMAIN t))
  <2>1. DOMAIN kids = 1 .. Len(kids) /\ Len(kids) \in Nat
      BY <1>1
  <2> QED BY <1>0, <2>1
<1>3. \A i, j \in DOMAIN ss : i # j => ToSet(ss[i]) \intersect ToSet(ss[j]) = {}
    BY <1>0, <1>1, WithinFromSteps
<1>4. PICK rest : rest = FlattenSeq(ss)
    OBVIOUS
<1>5. /\ rest \in Seq(DOMAIN t)
      /\ ToSet(rest) = UNION {ToSet(ss[i]) : i \in DOMAIN ss}
      /\ IsInjective(rest)
  <2>1. \A i \in DOMAIN ss : IsInjective(ss[i])
      BY <1>0, <1>1
  <2> QED BY <1>2, <1>3, <1>4, <2>1, FlattenFacts
<1>6. ToSet(rest) = UNION {WithinFrom(t, kids[i], level + 1, limit) : i \in DOMAIN kids}
    BY <1>0, <1>1, <1>5
<1>7. PICK one : one = <<m>>
    OBVIOUS
<1>8. one \in Seq(DOMAIN t) /\ ToSet(one) = {m} /\ IsInjective(one)
    BY <1>7 DEF ToSet, IsInjective
<1>9. ToSet(one) \intersect ToSet(rest) = {}
    BY <1>6, <1>8, WithinFromSteps
<1>10. /\ one \o rest \in Seq(DOMAIN t)
       /\ ToSet(one \o rest) = ToSet(one) \union ToSet(rest)
       /\ IsInjective(one \o rest)
  <2>1. one \in Seq(DOMAIN t) /\ rest \in Seq(DOMAIN t)
      BY <1>5, <1>8
  <2>2. IsInjective(one) /\ IsInjective(rest)
      BY <1>5, <1>8
  <2>3. one \o rest \in Seq(DOMAIN t)
      BY <2>1, ConcatFacts
  <2>4. ToSet(one \o rest) = ToSet(one) \union ToSet(rest)
      BY <2>1, ConcatFacts
  <2>5. IsInjective(one \o rest)
      BY <2>1, <2>2, <1>9, ConcatFacts, Zenon
  <2> QED BY <2>3, <2>4, <2>5
<1>11. ToSet(one) \union ToSet(rest) = WithinFrom(t, m, level, limit)
    BY <1>6, <1>8, WithinFromSteps
<1>12. list = one \o rest
    BY <1>4, <1>7, Zenon
<1> QED BY <1>10, <1>11, <1>12 DEF Lists

\* selected_nodes holds the nodes of the view, each once.
LEMMA SelectedNodes ==
    ASSUME NEW t, NEW d, TableOf(t, d), NEW limit \in Nat \union {None}, NEW load,
           \A m \in DOMAIN t, level \in Nat :
               load[m][level] = CompactOf(t, limit, load, m, level)
    PROVE  \A m \in DOMAIN t, level \in Nat :
               Lists(t, load[m][level].selected, m, level, limit)
<1> DEFINE Good(m, level) == Lists(t, load[m][level].selected, m, level, limit)
           Wrong == {m \in DOMAIN t : \E level \in Nat : ~Good(m, level)}
           Depths_ == {t[m].depth : m \in Wrong}
<1>1. \A m \in DOMAIN t : t[m].depth \in Nat /\ t[m].depth <= MaxDepth
    BY NodeFacts
<1> HIDE DEF Good
<1>2. Wrong = {}
  <2> SUFFICES ASSUME Wrong # {} PROVE FALSE
      OBVIOUS
  <2>1. /\ Depths_ \in SUBSET Nat /\ Depths_ # {}
        /\ \A k \in Depths_ : k <= MaxDepth
      BY <1>1
  <2>2. PICK l \in Depths_ : \A k \in Depths_ : k <= l
    <3> HIDE DEF Depths_
    <3> QED BY <2>1, LimitsAssumption, GreatestNatural
  <2>3. PICK m \in Wrong : l = t[m].depth
      BY <2>2
  <2>4. PICK level \in Nat : ~Good(m, level)
      BY <2>3
  <2>5. m \in DOMAIN t
      BY <2>3
  <2>6. PICK kids : kids = Visited(t, m, level, limit)
      OBVIOUS
  <2>7. ASSUME NEW i \in DOMAIN kids
        PROVE  Good(kids[i], level + 1)
    <3>1. kids[i] \in DOMAIN t /\ t[kids[i]].depth = t[m].depth + 1
        BY <2>5, <2>6, VisitedFacts
    <3>2. ~(t[kids[i]].depth <= t[m].depth)
        BY <3>1, <1>1, <2>5
    <3>3. t[kids[i]].depth \notin Depths_
      <4> HIDE DEF Depths_
      <4> QED BY <2>2, <2>3, <3>2
    <3>4. kids[i] \notin Wrong
      <4> HIDE DEF Wrong
      <4> QED BY <3>3
    <3> QED BY <3>1, <3>4
  <2>8. PICK below : below = [i \in DOMAIN kids |-> load[kids[i]][level + 1]]
      OBVIOUS
  <2>9. PICK ss : ss = [i \in DOMAIN kids |-> below[i].selected]
      OBVIOUS
  <2>10. \A i \in DOMAIN kids : Lists(t, ss[i], kids[i], level + 1, limit)
    <3>1. \A i \in DOMAIN kids : ss[i] = load[kids[i]][level + 1].selected
        BY <2>8, <2>9
    <3> QED BY <3>1, <2>7 DEF Good
  <2>11. load[m][level].selected = <<m>> \o FlattenSeq(ss)
    <3>1. load[m][level] = CompactOf(t, limit, load, m, level)
        BY <2>5
    <3>2. PICK node : node = CompactNode(t, m, [i \in DOMAIN kids |-> below[i].node])
        OBVIOUS
    <3>3. PICK list : list = <<m>> \o FlattenSeq([i \in DOMAIN kids |-> below[i].selected])
        OBVIOUS
    <3>4. CompactOf(t, limit, load, m, level) = [node |-> node, selected |-> list]
        BY <2>6, <2>8, <3>2, <3>3 DEF CompactOf
    <3>5. load[m][level].selected = list
        BY <3>1, <3>4
    <3> QED BY <3>3, <3>5, <2>9, Zenon
  <2>12. ss = [i \in DOMAIN kids |-> ss[i]]
      BY <2>9
  <2>13. Lists(t, load[m][level].selected, m, level, limit)
    <3>1. PICK list : list = load[m][level].selected
        OBVIOUS
    <3>2. list = <<m>> \o FlattenSeq(ss)
        BY <2>11, <3>1, Zenon
    <3>3. Lists(t, list, m, level, limit)
        BY <3>2, <2>5, <2>6, <2>10, <2>12, NodeThenChildren
    <3> QED BY <3>1, <3>3
  <2> QED BY <2>4, <2>13 DEF Good
<1> QED BY <1>2 DEF Good

\* collect_nodes lists what is below a node, each once.
LEMMA CollectedNodes ==
    ASSUME NEW t, NEW d, TableOf(t, d), NEW n \in DOMAIN t
    PROVE  /\ CollectNodes(t, n) \in Seq(DOMAIN t)
           /\ IsInjective(CollectNodes(t, n))
           /\ ToSet(CollectNodes(t, n)) = Below(t, n)
<1>1. PICK collect : /\ \A m : CollectNodes(t, m) = collect[m]
                     /\ \A m \in DOMAIN t : collect[m] = CollectedOf(t, collect, m)
    BY CollectUnfolds
<1> DEFINE Good(m) == /\ collect[m] \in Seq(DOMAIN t)
                      /\ IsInjective(collect[m])
                      /\ ToSet(collect[m]) = Below(t, m)
           Wrong == {m \in DOMAIN t : ~Good(m)}
           Depths_ == {t[m].depth : m \in Wrong}
<1>2. \A m \in DOMAIN t : t[m].depth \in Nat /\ t[m].depth <= MaxDepth
    BY NodeFacts
<1> HIDE DEF Good
<1>3. Wrong = {}
  <2> SUFFICES ASSUME Wrong # {} PROVE FALSE
      OBVIOUS
  <2>1. /\ Depths_ \in SUBSET Nat /\ Depths_ # {}
        /\ \A k \in Depths_ : k <= MaxDepth
      BY <1>2
  <2>2. PICK l \in Depths_ : \A k \in Depths_ : k <= l
    <3> HIDE DEF Depths_
    <3> QED BY <2>1, LimitsAssumption, GreatestNatural
  <2>3. PICK m \in Wrong : l = t[m].depth
      BY <2>2
  <2>4. m \in DOMAIN t /\ ~Good(m)
      BY <2>3
  <2>5. PICK kids : kids = ChildIds(t, m)
      OBVIOUS
  <2>6. kids = Visited(t, m, 0, None)
      BY <2>5 DEF Visited, GoesDeeper
  <2>7. \A k \in DOMAIN t, level \in Nat : WithinFrom(t, k, level, None) = Below(t, k)
      BY DEF WithinFrom
  <2>8. ASSUME NEW i \in DOMAIN kids
        PROVE  Good(kids[i]) /\ kids[i] \in DOMAIN t
    <3>1. kids[i] \in DOMAIN t /\ t[kids[i]].depth = t[m].depth + 1
        BY <2>4, <2>5, ChildFacts
    <3>2. ~(t[kids[i]].depth <= t[m].depth)
        BY <3>1, <1>2, <2>4
    <3>3. t[kids[i]].depth \notin Depths_
      <4> HIDE DEF Depths_
      <4> QED BY <2>2, <2>3, <3>2
    <3>4. kids[i] \notin Wrong
      <4> HIDE DEF Wrong
      <4> QED BY <3>3
    <3> QED BY <3>1, <3>4
  <2>9. PICK ss : ss = [i \in DOMAIN kids |-> collect[kids[i]]]
      OBVIOUS
  <2>10. \A i \in DOMAIN kids : Lists(t, ss[i], kids[i], 0 + 1, None)
    <3>1. \A i \in DOMAIN kids : /\ ss[i] \in Seq(DOMAIN t) /\ IsInjective(ss[i])
                                 /\ ToSet(ss[i]) = WithinFrom(t, kids[i], 0 + 1, None)
        BY <2>7, <2>8, <2>9 DEF Good
    <3> QED BY <3>1 DEF Lists
  <2>11. collect[m] = <<m>> \o FlattenSeq(ss)
    <3>1. collect[m] = CollectedOf(t, collect, m)
        BY <1>1, <2>4
    <3> QED BY <3>1, <2>5, <2>9 DEF CollectedOf
  <2>12. ss = [i \in DOMAIN kids |-> ss[i]]
      BY <2>9
  <2>13. Lists(t, collect[m], m, 0, None)
    <3>1. PICK list : list = collect[m]
        OBVIOUS
    <3>2. list = <<m>> \o FlattenSeq(ss)
        BY <2>11, <3>1, Zenon
    <3>3. Lists(t, list, m, 0, None)
        BY <3>2, <2>4, <2>6, <2>10, <2>12, NodeThenChildren
    <3> QED BY <3>1, <3>3
  <2> QED BY <2>4, <2>7, <2>13 DEF Good, Lists
<1> QED BY <1>1, <1>3 DEF Good

-----------------------------------------------------------------------------
(***************************************************************************)
(* What the views show                                                     *)
(***************************************************************************)

\* What an outline says of the children of a node, and a compact view of its
\* styles, does not depend on where the walk stopped.
Counts(F, t) ==
    \A m \in DOMAIN t, level \in Nat : F[m][level].childCount = Len(ChildIds(t, m))
Styled(F, t) ==
    \A m \in DOMAIN t, level \in Nat : F[m][level].styles = StylesOf[t[m].fields]

LEMMA OutlineShows ==
    ASSUME NEW t, NEW d, TableOf(t, d), NEW limit
    PROVE  \E F : /\ Unfolds(F, t, limit)
                  /\ \A n : Outline(t, n, limit) = F[n][0]
                  /\ Counts(F, t)
<1>1. PICK F : /\ \A n : Outline(t, n, limit) = F[n][0]
               /\ \A m \in DOMAIN t, level \in Nat :
                      F[m][level] = OutlineOf(t, limit, F, m, level)
    BY OutlineUnfolds
<1>2. ASSUME NEW m \in DOMAIN t, NEW level \in Nat, NEW kids,
             kids = Visited(t, m, level, limit)
      PROVE  /\ F[m][level].id = m
             /\ F[m][level].children = [i \in DOMAIN kids |-> F[kids[i]][level + 1]]
             /\ F[m][level].childCount = Len(ChildIds(t, m))
  <2>1. PICK children : children = [i \in DOMAIN kids |-> F[kids[i]][level + 1]]
      OBVIOUS
  <2>2. F[m][level] = OutlineNode(t, m, children)
      BY <1>1, <1>2, <2>1 DEF OutlineOf
  <2>3. /\ OutlineNode(t, m, children).id = m
        /\ OutlineNode(t, m, children).children = children
        /\ OutlineNode(t, m, children).childCount = Len(ChildIds(t, m))
      BY DEF OutlineNode
  <2> QED BY <2>1, <2>2, <2>3
<1>3. Unfolds(F, t, limit)
    BY <1>2 DEF Unfolds
<1>4. Counts(F, t)
    BY <1>2 DEF Counts
<1> QED BY <1>1, <1>3, <1>4

LEMMA CompactShows ==
    ASSUME NEW t, NEW d, TableOf(t, d), NEW limit \in Nat \union {None}, NEW n \in DOMAIN t
    PROVE  \E F : /\ Unfolds(F, t, limit)
                  /\ LoadCompact(t, n, limit).node = F[n][0]
                  /\ Styled(F, t)
                  /\ LoadCompact(t, n, limit).selected \in Seq(DOMAIN t)
                  /\ IsInjective(LoadCompact(t, n, limit).selected)
                  /\ ToSet(LoadCompact(t, n, limit).selected) = Within(t, n, limit)
<1>1. PICK load : /\ \A m : LoadCompact(t, m, limit) = load[m][0]
                  /\ \A m \in DOMAIN t, level \in Nat :
                         load[m][level] = CompactOf(t, limit, load, m, level)
    BY CompactUnfolds
<1>2. PICK F : F = [m \in DOMAIN t |-> [level \in Nat |-> load[m][level].node]]
    OBVIOUS
<1>3. ASSUME NEW m \in DOMAIN t, NEW level \in Nat, NEW kids,
             kids = Visited(t, m, level, limit)
      PROVE  /\ F[m][level].id = m
             /\ F[m][level].children = [i \in DOMAIN kids |-> F[kids[i]][level + 1]]
             /\ F[m][level].styles = StylesOf[t[m].fields]
  <2>1. PICK below : below = [i \in DOMAIN kids |-> load[kids[i]][level + 1]]
      OBVIOUS
  <2>2. PICK children : children = [i \in DOMAIN kids |-> below[i].node]
      OBVIOUS
  <2>3. PICK list : list = <<m>> \o FlattenSeq([i \in DOMAIN kids |-> below[i].selected])
      OBVIOUS
  <2>4. load[m][level] = [node |-> CompactNode(t, m, children), selected |-> list]
      BY <1>1, <1>3, <2>1, <2>2, <2>3 DEF CompactOf
  <2>5. F[m][level] = CompactNode(t, m, children)
      BY <1>2, <2>4
  <2>6. /\ CompactNode(t, m, children).id = m
        /\ CompactNode(t, m, children).children = children
        /\ CompactNode(t, m, children).styles = StylesOf[t[m].fields]
      BY DEF CompactNode
  <2>7. \A i \in DOMAIN kids : kids[i] \in DOMAIN t /\ level + 1 \in Nat
      BY <1>3, VisitedFacts
  <2>8. children = [i \in DOMAIN kids |-> F[kids[i]][level + 1]]
      BY <1>2, <2>1, <2>2, <2>7
  <2> QED BY <2>5, <2>6, <2>8
<1>4. Unfolds(F, t, limit)
    BY <1>3 DEF Unfolds
<1>5. LoadCompact(t, n, limit).node = F[n][0]
    BY <1>1, <1>2
<1>6. Lists(t, load[n][0].selected, n, 0, limit)
    BY <1>1, SelectedNodes
<1>7. Lists(t, LoadCompact(t, n, limit).selected, n, 0, limit)
    BY <1>1, <1>6
<1>8. WithinFrom(t, n, 0, limit) = Within(t, n, limit)
    BY WithinFromTop
<1>9. Styled(F, t)
    BY <1>3 DEF Styled
<1>10. /\ LoadCompact(t, n, limit).selected \in Seq(DOMAIN t)
       /\ IsInjective(LoadCompact(t, n, limit).selected)
       /\ ToSet(LoadCompact(t, n, limit).selected) = Within(t, n, limit)
    BY <1>7, <1>8 DEF Lists
<1> QED BY <1>4, <1>5, <1>9, <1>10

LEMMA ShownIdsOf ==
    ASSUME NEW t, NEW d, TableOf(t, d), NEW F, NEW limit \in Nat \union {None},
           Unfolds(F, t, limit), NEW n \in DOMAIN t
    PROVE  /\ ShownIds(F[n][0]) = Within(t, n, limit)
           /\ \A m \in Within(t, n, limit) :
                  m \in DOMAIN t /\ t[m].depth - t[n].depth \in Nat
<1>1. Shown(F[n][0]) = {F[m][t[m].depth - t[n].depth] : m \in Within(t, n, limit)}
    BY ShownNodes
<1>2. \A m \in Within(t, n, limit) : m \in DOMAIN t /\ t[m].depth - t[n].depth \in Nat
  <2>1. \A m \in Below(t, n) : /\ m \in DOMAIN t /\ t[n].depth <= t[m].depth
                               /\ t[m].depth \in Nat /\ t[n].depth \in Nat
      BY BelowFacts, NodeFacts
  <2> QED BY <2>1 DEF Within
<1>3. \A m \in Within(t, n, limit) : F[m][t[m].depth - t[n].depth].id = m
    BY <1>2 DEF Unfolds
<1> QED BY <1>1, <1>2, <1>3 DEF ShownIds

\* A shown node has children that are not exactly at the limit, and then none of
\* them is.
IsCut(t, m, level, limit) ==
    ~GoesDeeper(level, limit) /\ \E c \in DOMAIN t : t[c].parent = m

LEMMA CutsOf ==
    ASSUME NEW t, NEW d, TableOf(t, d), NEW F, NEW limit \in Nat \union {None},
           Unfolds(F, t, limit), NEW m \in DOMAIN t, NEW level \in Nat,
           Counts(F, t)
    PROVE  (Len(F[m][level].children) < F[m][level].childCount) <=> IsCut(t, m, level, limit)
<1>1. PICK kids : kids = Visited(t, m, level, limit)
    OBVIOUS
<1>2. PICK all : all = ChildIds(t, m)
    OBVIOUS
<1>3. F[m][level].children = [i \in DOMAIN kids |-> F[kids[i]][level + 1]]
    BY <1>1 DEF Unfolds
<1>4. kids \in Seq(DOMAIN t) /\ all \in Seq(DOMAIN t)
    BY <1>1, <1>2, VisitedFacts, ChildFacts
<1>5. Len(F[m][level].children) = Len(kids)
  <2>1. DOMAIN kids = 1 .. Len(kids) /\ Len(kids) \in Nat
      BY <1>4
  <2>2. PICK children : children = [i \in 1 .. Len(kids) |-> F[kids[i]][level + 1]]
      OBVIOUS
  <2>3. Len(children) = Len(kids)
      BY <2>1, <2>2
  <2> QED BY <1>3, <2>1, <2>2, <2>3
<1>6. CASE GoesDeeper(level, limit)
  <2>1. kids = all
      BY <1>1, <1>2, <1>6 DEF Visited
  <2> QED BY <1>2, <1>4, <1>5, <1>6, <2>1 DEF Counts, IsCut
<1>7. CASE ~GoesDeeper(level, limit)
  <2>1. Len(kids) = 0
      BY <1>1, <1>7 DEF Visited
  <2>2. 0 < Len(all) <=> \E i \in DOMAIN all : TRUE
    <3>1. DOMAIN all = 1 .. Len(all) /\ Len(all) \in Nat
        BY <1>4
    <3>2. 0 < Len(all) => 1 \in DOMAIN all
        BY <3>1
    <3>3. ASSUME NEW i \in DOMAIN all PROVE 0 < Len(all)
        BY <3>1
    <3> QED BY <3>2, <3>3
  <2>3. (\E i \in DOMAIN all : TRUE) <=> \E c \in DOMAIN t : t[c].parent = m
      BY <1>2, ChildFacts
  <2> QED BY <1>2, <1>5, <1>7, <2>1, <2>2, <2>3 DEF Counts, IsCut
<1> QED BY <1>6, <1>7

LEMMA OutlineCovers ==
    ASSUME NEW t, NEW d, TableOf(t, d), NEW n \in DOMAIN t,
           NEW limit \in Nat \union {None}
    PROVE  LET answer == Outline(t, n, limit)
               cut == {x \in Shown(answer) : Len(x.children) < x.childCount}
           IN  /\ ShownIds(answer) = Within(t, n, limit)
               /\ ShownIds(answer) \union UNION {Below(t, x.id) : x \in cut} = Below(t, n)
               /\ limit = None => cut = {}
<1>1. PICK F : /\ Unfolds(F, t, limit)
               /\ \A k : Outline(t, k, limit) = F[k][0]
               /\ Counts(F, t)
    BY OutlineShows
<1> DEFINE answer == Outline(t, n, limit)
           level(m) == t[m].depth - t[n].depth
           cut == {x \in Shown(answer) : Len(x.children) < x.childCount}
           Cut(m) == IsCut(t, m, level(m), limit)
           covered == Within(t, n, limit)
                          \union UNION {Below(t, m) : m \in {k \in Within(t, n, limit) : Cut(k)}}
<1>2. ShownIds(answer) = Within(t, n, limit)
    BY <1>1, ShownIdsOf
<1>3. \A m \in Within(t, n, limit) : m \in DOMAIN t /\ level(m) \in Nat
    BY <1>1, ShownIdsOf
<1>4. Shown(answer) = {F[m][level(m)] : m \in Within(t, n, limit)}
  <2>1. Shown(F[n][0]) = {F[m][t[m].depth - t[n].depth] : m \in Within(t, n, limit)}
      BY <1>1, ShownNodes
  <2> QED BY <1>1, <2>1
<1>5. \A m \in Within(t, n, limit) :
          /\ F[m][level(m)].id = m
          /\ Len(F[m][level(m)].children) < F[m][level(m)].childCount <=> Cut(m)
  <2> SUFFICES ASSUME NEW m \in Within(t, n, limit)
               PROVE  /\ F[m][level(m)].id = m
                      /\ Len(F[m][level(m)].children) < F[m][level(m)].childCount <=> Cut(m)
      OBVIOUS
  <2>1. PICK k \in Nat : k = level(m)
      BY <1>3
  <2>2. m \in DOMAIN t
      BY <1>3
  <2>3. F[m][k].id = m
      BY <1>1, <2>2 DEF Unfolds
  <2>5. (Len(F[m][k].children) < F[m][k].childCount) <=> IsCut(t, m, k, limit)
      BY <1>1, <2>2, CutsOf
  <2> QED BY <2>1, <2>3, <2>5
<1> HIDE DEF answer, level, Cut
<1>6. UNION {Below(t, x.id) : x \in cut}
          = UNION {Below(t, m) : m \in {k \in Within(t, n, limit) : Cut(k)}}
    BY <1>4, <1>5
<1>7. Within(t, n, limit) \subseteq Below(t, n)
    BY DEF Within
<1>8. covered \subseteq Below(t, n)
    BY <1>7, BelowTransitive
<1>9. Below(t, n) \subseteq covered
  <2> DEFINE Lost == Below(t, n) \ covered
             Depths_ == {t[m].depth : m \in Lost}
  <2> SUFFICES ASSUME Lost # {} PROVE FALSE
      OBVIOUS
  <2>1. \A m \in Below(t, n) : m \in DOMAIN t /\ t[m].depth \in Nat /\ t[n].depth \in Nat
      BY BelowFacts, NodeFacts
  <2>2. Depths_ \in SUBSET Nat /\ Depths_ # {}
    <3> HIDE DEF covered
    <3> QED BY <2>1
  <2>3. PICK l \in Depths_ : \A j \in Depths_ : l <= j
    <3> HIDE DEF Depths_
    <3> QED BY <2>2, LeastNatural
  <2>4. PICK m \in Lost : l = t[m].depth
      BY <2>3
  <2>5. m \in Below(t, n) /\ m \notin covered
      BY <2>4
  <2>6. m # n
    <3>1. n \in Within(t, n, limit)
      <4>1. limit = None \/ t[n].depth - t[n].depth <= limit
          BY <2>1, <2>5
      <4> QED BY <4>1, BelowSteps DEF Within
    <3> QED BY <2>5, <3>1
  <2>7. PICK p : p = t[m].parent
      OBVIOUS
  <2>8. p \in Below(t, n) /\ p \in DOMAIN t /\ t[m].depth = t[p].depth + 1
      BY <2>5, <2>6, <2>7, BelowSteps
  <2>9. p \in covered
    <3>1. ~(t[m].depth <= t[p].depth)
        BY <2>1, <2>8
    <3>2. t[p].depth \notin Depths_
      <4> HIDE DEF Depths_
      <4> QED BY <2>3, <2>4, <3>1
    <3> HIDE DEF covered
    <3> QED BY <2>8, <3>2
  <2>10. m \in Below(t, p)
      BY <2>1, <2>5, <2>7, <2>8, BelowSteps
  <2>11. CASE p \in Within(t, n, limit)
    <3>1. CASE Cut(p)
        BY <2>5, <2>10, <2>11, <3>1
    <3>2. CASE ~Cut(p)
      <4>1. GoesDeeper(t[p].depth - t[n].depth, limit)
          BY <2>1, <2>5, <2>7, <3>2 DEF Cut, level, IsCut
      <4>2. limit = None \/ t[m].depth - t[n].depth <= limit
          BY <4>1, <2>1, <2>5, <2>8 DEF GoesDeeper
      <4>3. m \in Within(t, n, limit)
          BY <4>2, <2>5 DEF Within
      <4> QED BY <4>3, <2>5
    <3> QED BY <3>1, <3>2
  <2>12. CASE p \notin Within(t, n, limit)
    <3>1. PICK k \in Within(t, n, limit) : Cut(k) /\ p \in Below(t, k)
        BY <2>9, <2>12
    <3>2. m \in Below(t, k)
        BY <2>10, <3>1, BelowTransitive
    <3> QED BY <3>1, <3>2, <2>5
  <2> QED BY <2>11, <2>12
<1>10. limit = None => cut = {}
  <2>1. limit = None => \A m : ~Cut(m)
      BY DEF Cut, GoesDeeper, IsCut
  <2> QED BY <2>1, <1>4, <1>5
<1>11. covered = Below(t, n)
    BY <1>8, <1>9
<1> QED BY <1>2, <1>6, <1>10, <1>11 DEF answer

\* Outline and compact view of a node agree with its subtree at every depth, and
\* nobody misses what a cut hides who asks again where child_count says so: for
\* files of any shape and any depth.
THEOREM OutlineHidesNothing == Spec => []OutlineTellsItsCuts
<1>1. ASSUME IndexInv, phase = "indexed", NEW n \in DOMAIN table, NEW limit \in Depths
      PROVE  LET answer == Outline(table, n, limit)
                 cut == {x \in Shown(answer) : Len(x.children) < x.childCount}
             IN  /\ ShownIds(answer) = Within(table, n, limit)
                 /\ ShownIds(NodeGet(table, entities, n, limit).node) = ShownIds(answer)
                 /\ ShownIds(answer) \union UNION {Below(table, x.id) : x \in cut}
                        = Below(table, n)
                 /\ limit = None => cut = {}
  <2>1. TableOf(table, doc) /\ limit \in Nat \union {None}
      BY <1>1, DepthsAssumption DEF IndexInv
  <2>2. PICK F : /\ Unfolds(F, table, limit)
                 /\ LoadCompact(table, n, limit).node = F[n][0]
      BY <2>1, CompactShows
  <2>3. ShownIds(LoadCompact(table, n, limit).node) = Within(table, n, limit)
      BY <2>1, <2>2, ShownIdsOf
  <2>4. NodeGet(table, entities, n, limit).node = LoadCompact(table, n, limit).node
      BY DEF NodeGet
  <2> QED BY <2>1, <2>3, <2>4, OutlineCovers
<1>2. IndexInv => OutlineTellsItsCuts
    BY <1>1 DEF OutlineTellsItsCuts
<1> QED BY IndexInvariant, <1>2, PTL

\* The references of a view follow from the set of the nodes it shows.
LEMMA ReferencesOf ==
    ASSUME NEW t, NEW d, TableOf(t, d), NEW ents, NEW n \in DOMAIN t,
           NEW limit \in Nat \union {None}
    PROVE  LET answer == NodeGet(t, ents, n, limit)
               shown == Shown(answer.node)
               listed == ComponentsList(t, ents)
           IN  /\ ShownIds(answer.node) = Within(t, n, limit)
               /\ answer.references.styles = (DOMAIN ents \intersect Styles)
                                                 \intersect UNION {x.styles : x \in shown}
               /\ answer.references.components =
                      {e \in listed.components :
                          \/ listed.usage[e] \intersect ShownIds(answer.node) # {}
                          \/ NodeOf[ents[e]] \in ShownIds(answer.node)}
               /\ answer.references.sets =
                      {e \in listed.sets : NodeOf[ents[e]] \in ShownIds(answer.node)}
<1>1. PICK F : /\ Unfolds(F, t, limit)
               /\ LoadCompact(t, n, limit).node = F[n][0]
               /\ Styled(F, t)
               /\ ToSet(LoadCompact(t, n, limit).selected) = Within(t, n, limit)
    BY CompactShows
<1>2. PICK selected : selected = LoadCompact(t, n, limit).selected
    OBVIOUS
<1>3. PICK node : node = F[n][0]
    OBVIOUS
<1>4. PICK refs : refs = References(t, ents, selected)
    OBVIOUS
<1>5. NodeGet(t, ents, n, limit) = [node |-> node, references |-> refs]
    BY <1>1, <1>2, <1>3, <1>4 DEF NodeGet
<1>6. PICK ids : ids = Within(t, n, limit)
    OBVIOUS
<1>7. /\ refs.styles = {e \in DOMAIN ents \intersect Styles :
                            \E k \in ids : e \in StylesOf[t[k].fields]}
      /\ refs.components =
             {e \in DOMAIN ents \intersect Components :
                 (\E k \in ids : ComponentOf[t[k].fields] = e) \/ NodeOf[ents[e]] \in ids}
      /\ refs.sets = {e \in DOMAIN ents \intersect ComponentSets : NodeOf[ents[e]] \in ids}
    BY <1>1, <1>2, <1>4, <1>6 DEF References
<1>8. ShownIds(node) = ids
    BY <1>1, <1>3, <1>6, ShownIdsOf
<1>9. UNION {x.styles : x \in Shown(node)} = UNION {StylesOf[t[k].fields] : k \in ids}
  <2>1. Shown(node) = {F[m][t[m].depth - t[n].depth] : m \in ids}
      BY <1>1, <1>3, <1>6, ShownNodes, SMTT(30)
  <2>2. \A m \in ids : m \in DOMAIN t /\ t[m].depth - t[n].depth \in Nat
      BY <1>1, <1>6, ShownIdsOf
  <2>3. \A m \in ids : F[m][t[m].depth - t[n].depth].styles = StylesOf[t[m].fields]
      BY <1>1, <2>2 DEF Styled
  <2> QED BY <2>1, <2>3
<1>10. refs.styles = (DOMAIN ents \intersect Styles)
                         \intersect UNION {x.styles : x \in Shown(node)}
    BY <1>7, <1>9
<1>11. ids \subseteq DOMAIN t
    BY <1>1, <1>6, ShownIdsOf
<1>12. PICK listed : listed = ComponentsList(t, ents)
    OBVIOUS
<1>13. /\ listed.components = DOMAIN ents \intersect Components
       /\ listed.sets = DOMAIN ents \intersect ComponentSets
       /\ \A e \in listed.components :
              listed.usage[e] = {k \in DOMAIN t : ComponentOf[t[k].fields] = e}
    BY <1>12 DEF ComponentsList, Usage
<1>14. refs.components =
           {e \in listed.components :
               listed.usage[e] \intersect ids # {} \/ NodeOf[ents[e]] \in ids}
    BY <1>7, <1>11, <1>13
<1>15. refs.sets = {e \in listed.sets : NodeOf[ents[e]] \in ids}
    BY <1>7, <1>13
<1>16. PICK answer : answer = NodeGet(t, ents, n, limit)
    OBVIOUS
<1>17. answer.node = node /\ answer.references = refs
    BY <1>5, <1>16
<1> QED BY <1>6, <1>8, <1>10, <1>12, <1>14, <1>15, <1>16, <1>17

\* The references of a view are those of the nodes it shows at every depth, and
\* agree with what the other commands list.
THEOREM ReferencesAreOfTheShown == Spec => []ReferencesFollowTheShownNodes
<1>1. ASSUME IndexInv, phase = "indexed", NEW n \in DOMAIN table, NEW limit \in Depths
      PROVE  LET answer == NodeGet(table, entities, n, limit)
                 shown == Shown(answer.node)
                 listed == ComponentsList(table, entities)
                 named == TokensGet(table, entities).namedStyles
             IN  /\ answer.references.styles = named \intersect UNION {x.styles : x \in shown}
                 /\ answer.references.components =
                        {e \in listed.components :
                            \/ listed.usage[e] \intersect ShownIds(answer.node) # {}
                            \/ NodeOf[entities[e]] \in ShownIds(answer.node)}
                 /\ answer.references.sets =
                        {e \in listed.sets : NodeOf[entities[e]] \in ShownIds(answer.node)}
  <2>1. TableOf(table, doc) /\ limit \in Nat \union {None}
      BY <1>1, DepthsAssumption DEF IndexInv
  <2>2. TokensGet(table, entities).namedStyles = DOMAIN entities \intersect Styles
      BY DEF TokensGet
  <2>3. PICK answer : answer = NodeGet(table, entities, n, limit)
      OBVIOUS
  <2>4. PICK listed : listed = ComponentsList(table, entities)
      OBVIOUS
  <2>5. /\ answer.references.styles = (DOMAIN entities \intersect Styles)
                                         \intersect UNION {x.styles : x \in Shown(answer.node)}
        /\ answer.references.components =
               {e \in listed.components :
                   \/ listed.usage[e] \intersect ShownIds(answer.node) # {}
                   \/ NodeOf[entities[e]] \in ShownIds(answer.node)}
        /\ answer.references.sets =
               {e \in listed.sets : NodeOf[entities[e]] \in ShownIds(answer.node)}
      BY <2>1, <2>3, <2>4, ReferencesOf
  <2> QED BY <2>2, <2>3, <2>4, <2>5
<1>2. IndexInv => ReferencesFollowTheShownNodes
    BY <1>1 DEF ReferencesFollowTheShownNodes
<1> QED BY IndexInvariant, <1>2, PTL

-----------------------------------------------------------------------------
(***************************************************************************)
(* The variables                                                           *)
(***************************************************************************)

\* derive_variables of a set of nodes: no list, so no order.
UsesWithin(t, S, key) ==
    {p \in S \X DOMAIN Category :
        /\ p[2] \in DOMAIN TokensOf[t[p[1]].fields]
        /\ <<Category[p[2]], TokensOf[t[p[1]].fields][p[2]]>> = key}
Variable(key, uses) == [key |-> key, occurrences |-> Cardinality(uses), references |-> uses]
IsVariable(t, S, v) ==
    \E key : v = Variable(key, UsesWithin(t, S, key)) /\ Cardinality(UsesWithin(t, S, key)) > 1

\* A list of nodes counts no use twice.
LEMMA UsesOfList ==
    ASSUME NEW t, NEW nodes \in Seq(DOMAIN t), IsInjective(nodes), NEW key
    PROVE  LET uses == {u \in TokenUses(t, nodes) : TokenKey(t, nodes, u) = key}
           IN  /\ {<<nodes[u[1]], u[2]>> : u \in uses} = UsesWithin(t, ToSet(nodes), key)
               /\ Cardinality(uses) = Cardinality(UsesWithin(t, ToSet(nodes), key))
               /\ IsFiniteSet(UsesWithin(t, ToSet(nodes), key))
<1> DEFINE uses == {u \in TokenUses(t, nodes) : TokenKey(t, nodes, u) = key}
           within == UsesWithin(t, ToSet(nodes), key)
           named == [u \in uses |-> <<nodes[u[1]], u[2]>>]
<1>1. \A u : u \in uses <=> /\ u \in (DOMAIN nodes) \X (DOMAIN Category)
                            /\ u[2] \in DOMAIN TokensOf[t[nodes[u[1]]].fields]
                            /\ <<Category[u[2]], TokensOf[t[nodes[u[1]]].fields][u[2]]>> = key
    BY DEF TokenUses, TokenKey
<1>2. \A p : p \in within <=> /\ p \in ToSet(nodes) \X (DOMAIN Category)
                              /\ p[2] \in DOMAIN TokensOf[t[p[1]].fields]
                              /\ <<Category[p[2]], TokensOf[t[p[1]].fields][p[2]]>> = key
    BY DEF UsesWithin
<1> HIDE DEF uses, within
<1>3. \A u \in uses : named[u] = <<nodes[u[1]], u[2]>> /\ named[u] \in within
  <2> SUFFICES ASSUME NEW u \in uses
               PROVE  named[u] = <<nodes[u[1]], u[2]>> /\ named[u] \in within
      OBVIOUS
  <2>1. u[1] \in DOMAIN nodes /\ u[2] \in DOMAIN Category
      BY <1>1
  <2>2. nodes[u[1]] \in ToSet(nodes)
      BY <2>1 DEF ToSet
  <2>3. PICK p : p = <<nodes[u[1]], u[2]>>
      OBVIOUS
  <2>4. p \in ToSet(nodes) \X (DOMAIN Category) /\ p[1] = nodes[u[1]] /\ p[2] = u[2]
      BY <2>1, <2>2, <2>3
  <2>5. p \in within
      BY <1>1, <1>2, <2>4
  <2> QED BY <2>3, <2>5
<1>4. \A p \in within : \E u \in uses : named[u] = p
  <2> SUFFICES ASSUME NEW p \in within PROVE \E u \in uses : named[u] = p
      OBVIOUS
  <2>1. p[1] \in ToSet(nodes) /\ p[2] \in DOMAIN Category /\ p = <<p[1], p[2]>>
      BY <1>2
  <2>2. PICK i \in DOMAIN nodes : nodes[i] = p[1]
      BY <2>1 DEF ToSet
  <2>3. PICK u : u = <<i, p[2]>>
      OBVIOUS
  <2>4. u \in (DOMAIN nodes) \X (DOMAIN Category) /\ nodes[u[1]] = p[1] /\ u[2] = p[2]
      BY <2>1, <2>2, <2>3
  <2>5. u \in uses
      BY <1>1, <1>2, <2>4
  <2> QED BY <2>1, <2>4, <2>5, <1>3
<1>5. \A u, v \in uses : named[u] = named[v] => u = v
  <2> SUFFICES ASSUME NEW u \in uses, NEW v \in uses, named[u] = named[v] PROVE u = v
      OBVIOUS
  <2>1. nodes[u[1]] = nodes[v[1]] /\ u[2] = v[2]
      BY <1>3
  <2>2. u[1] \in DOMAIN nodes /\ v[1] \in DOMAIN nodes /\ u = <<u[1], u[2]>> /\ v = <<v[1], v[2]>>
      BY <1>1
  <2>3. u[1] = v[1]
      BY <2>1, <2>2 DEF IsInjective
  <2> QED BY <2>1, <2>2, <2>3
<1>6. named \in [uses -> within]
    BY <1>3
<1>7. named \in Bijection(uses, within)
  <2> HIDE DEF named
  <2> QED BY <1>4, <1>5, <1>6 DEF Bijection, Injection, Surjection, IsInjective
<1>8. IsFiniteSet(uses)
  <2>1. DOMAIN nodes = 1 .. Len(nodes) /\ 1 \in Int /\ Len(nodes) \in Int
      OBVIOUS
  <2>2. IsFiniteSet(DOMAIN nodes)
      BY <2>1, FS_Interval
  <2>3. IsFiniteSet((DOMAIN nodes) \X (DOMAIN Category))
      BY <2>2, FieldsAssumption, FS_Product
  <2>4. uses \in SUBSET ((DOMAIN nodes) \X (DOMAIN Category))
      BY <1>1
  <2> QED BY <2>3, <2>4, FS_Subset
<1>9. ExistsBijection(uses, within)
    BY <1>7 DEF ExistsBijection
<1>10. IsFiniteSet(within) /\ Cardinality(within) = Cardinality(uses)
    BY <1>8, <1>9, FS_Bijection
<1>11. {<<nodes[u[1]], u[2]>> : u \in uses} = within
    BY <1>3, <1>4
<1> QED BY <1>10, <1>11 DEF uses, within

LEMMA VariablesOfList ==
    ASSUME NEW t, NEW nodes \in Seq(DOMAIN t), IsInjective(nodes)
    PROVE  /\ \A v : v \in DeriveVariables(t, nodes) <=> IsVariable(t, ToSet(nodes), v)
           /\ \A key : IsFiniteSet(UsesWithin(t, ToSet(nodes), key))
<1> DEFINE Uses(key) == {u \in TokenUses(t, nodes) : TokenKey(t, nodes, u) = key}
           keys == {TokenKey(t, nodes, u) : u \in TokenUses(t, nodes)}
           References_(key) == {<<nodes[u[1]], u[2]>> : u \in Uses(key)}
           Within_(key) == UsesWithin(t, ToSet(nodes), key)
<1>1. \A key : /\ References_(key) = Within_(key)
               /\ Cardinality(Uses(key)) = Cardinality(Within_(key))
               /\ IsFiniteSet(Within_(key))
    BY UsesOfList
<1>2. DeriveVariables(t, nodes) =
          {[key |-> key, occurrences |-> Cardinality(Uses(key)), references |-> References_(key)] :
              key \in {k \in keys : Cardinality(Uses(k)) > 1}}
    BY DEF DeriveVariables
<1>3. \A key : Cardinality(Uses(key)) > 1 => key \in keys
  <2> SUFFICES ASSUME NEW key, Cardinality(Uses(key)) > 1 PROVE key \in keys
      OBVIOUS
  <2>1. Uses(key) # {}
    <3>1. ASSUME Uses(key) = {} PROVE Cardinality(Uses(key)) = 0
        BY <3>1, FS_EmptySet
    <3> HIDE DEF Uses
    <3> QED BY <3>1
  <2> QED BY <2>1
<1> HIDE DEF Uses, keys, References_, Within_
<1>4. \A v : v \in DeriveVariables(t, nodes) <=>
          \E key : /\ v = [key |-> key, occurrences |-> Cardinality(Within_(key)),
                           references |-> Within_(key)]
                   /\ Cardinality(Within_(key)) > 1
    BY <1>1, <1>2, <1>3
<1> QED BY <1>1, <1>4 DEF Within_, IsVariable, Variable

\* The variables of some of the nodes: those of all, restricted to these.
LEMMA VariablesOfPart ==
    ASSUME NEW t, NEW all, NEW part \in SUBSET all,
           \A key : IsFiniteSet(UsesWithin(t, all, key)), NEW v
    PROVE  IsVariable(t, part, v) <=>
               /\ \E g : /\ IsVariable(t, all, g)
                         /\ v = Variable(g.key, {r \in g.references : r[1] \in part})
               /\ v.occurrences > 1
<1>1. \A key : {r \in UsesWithin(t, all, key) : r[1] \in part} = UsesWithin(t, part, key)
    BY DEF UsesWithin
<1>2. \A key : UsesWithin(t, part, key) \in SUBSET UsesWithin(t, all, key)
    BY <1>1
<1>3. \A key : /\ Cardinality(UsesWithin(t, part, key)) <= Cardinality(UsesWithin(t, all, key))
               /\ Cardinality(UsesWithin(t, part, key)) \in Nat
               /\ Cardinality(UsesWithin(t, all, key)) \in Nat
    BY <1>2, FS_Subset, FS_CardinalityType
<1>4. \A key, uses : /\ Variable(key, uses).key = key
                     /\ Variable(key, uses).occurrences = Cardinality(uses)
                     /\ Variable(key, uses).references = uses
    BY DEF Variable
<1>5. ASSUME IsVariable(t, part, v)
      PROVE  /\ \E g : /\ IsVariable(t, all, g)
                       /\ v = Variable(g.key, {r \in g.references : r[1] \in part})
             /\ v.occurrences > 1
  <2>1. PICK key : /\ v = Variable(key, UsesWithin(t, part, key))
                   /\ Cardinality(UsesWithin(t, part, key)) > 1
      BY <1>5 DEF IsVariable
  <2>2. PICK g : g = Variable(key, UsesWithin(t, all, key))
      OBVIOUS
  <2>3. Cardinality(UsesWithin(t, all, key)) > 1
      BY <1>3, <2>1
  <2>4. IsVariable(t, all, g)
      BY <2>2, <2>3 DEF IsVariable
  <2>5. g.key = key /\ {r \in g.references : r[1] \in part} = UsesWithin(t, part, key)
      BY <1>1, <1>4, <2>2
  <2>6. v = Variable(g.key, {r \in g.references : r[1] \in part})
      BY <2>1, <2>5
  <2> QED BY <1>4, <2>1, <2>4, <2>6
<1>6. ASSUME NEW g, IsVariable(t, all, g),
             v = Variable(g.key, {r \in g.references : r[1] \in part}), v.occurrences > 1
      PROVE  IsVariable(t, part, v)
  <2>1. PICK key : g = Variable(key, UsesWithin(t, all, key))
      BY <1>6 DEF IsVariable
  <2>2. g.key = key /\ {r \in g.references : r[1] \in part} = UsesWithin(t, part, key)
      BY <1>1, <1>4, <2>1
  <2>3. v = Variable(key, UsesWithin(t, part, key))
      BY <1>6, <2>2
  <2>4. Cardinality(UsesWithin(t, part, key)) > 1
      BY <1>4, <1>6, <2>3
  <2> QED BY <2>3, <2>4 DEF IsVariable
<1> QED BY <1>5, <1>6

\* What a view calls a variable does not depend on how it was walked to: it is
\* what `tokens get` says, as far as the shown nodes go.
THEOREM VariablesAreOfTheShown == Spec => []ViewVariablesAreTokens
<1>1. ASSUME IndexInv, phase = "indexed", NEW n \in DOMAIN table, NEW limit \in Depths
      PROVE  LET answer == NodeGet(table, entities, n, limit)
                 shown == ShownIds(answer.node)
             IN  answer.references.variables =
                     {v \in {[key |-> g.key,
                              occurrences |-> Cardinality({r \in g.references : r[1] \in shown}),
                              references |-> {r \in g.references : r[1] \in shown}] :
                                 g \in TokensGet(table, entities).globalVars} :
                         v.occurrences > 1}
  <2>1. TableOf(table, doc) /\ limit \in Nat \union {None}
      BY <1>1, DepthsAssumption DEF IndexInv
  <2>2. PICK loaded : loaded = LoadCompact(table, n, limit)
      OBVIOUS
  <2>3. /\ ShownIds(loaded.node) = Within(table, n, limit)
        /\ loaded.selected \in Seq(DOMAIN table) /\ IsInjective(loaded.selected)
        /\ ToSet(loaded.selected) = Within(table, n, limit)
      BY <2>1, <2>2, CompactShows, ShownIdsOf
  <2>4. PICK nodes : nodes = CollectNodes(table, RootId(table))
      OBVIOUS
  <2>5. /\ nodes \in Seq(DOMAIN table) /\ IsInjective(nodes)
        /\ ToSet(nodes) = DOMAIN table
      BY <2>1, <2>4, RootIsFirst, AllBelowRoot, CollectedNodes
  <2>6. PICK shown : shown = Within(table, n, limit)
      OBVIOUS
  <2>7. shown \in SUBSET DOMAIN table
      BY <2>1, <2>6, BelowFacts DEF Within
  <2>8. PICK part : part = DeriveVariables(table, loaded.selected)
      OBVIOUS
  <2>9. PICK all : all = DeriveVariables(table, nodes)
      OBVIOUS
  <2>10. \A v : v \in part <=> IsVariable(table, shown, v)
      BY <2>3, <2>6, <2>8, VariablesOfList
  <2>11. /\ \A v : v \in all <=> IsVariable(table, DOMAIN table, v)
         /\ \A key : IsFiniteSet(UsesWithin(table, DOMAIN table, key))
      BY <2>5, <2>9, VariablesOfList
  <2>12. \A v : v \in part <=>
             /\ \E g \in all : v = Variable(g.key, {r \in g.references : r[1] \in shown})
             /\ v.occurrences > 1
    <3>1. ASSUME NEW v
          PROVE  IsVariable(table, shown, v) <=>
                     /\ \E g : /\ IsVariable(table, DOMAIN table, g)
                               /\ v = Variable(g.key, {r \in g.references : r[1] \in shown})
                     /\ v.occurrences > 1
        BY <2>7, <2>11, VariablesOfPart
    <3> QED BY <3>1, <2>10, <2>11
  <2>13. part = {v \in {[key |-> g.key,
                         occurrences |-> Cardinality({r \in g.references : r[1] \in shown}),
                         references |-> {r \in g.references : r[1] \in shown}] : g \in all} :
                    v.occurrences > 1}
      BY <2>12 DEF Variable
  <2>14. PICK node : node = loaded.node
      OBVIOUS
  <2>15. PICK refs : refs = References(table, entities, loaded.selected)
      OBVIOUS
  <2>16. refs.variables = part
      BY <2>8, <2>15 DEF References
  <2>17. PICK answer : answer = NodeGet(table, entities, n, limit)
      OBVIOUS
  <2>18. answer = [node |-> node, references |-> refs]
      BY <2>2, <2>14, <2>15, <2>17 DEF NodeGet
  <2>19. answer.references.variables = part /\ ShownIds(answer.node) = shown
      BY <2>3, <2>6, <2>14, <2>16, <2>18
  <2>20. TokensGet(table, entities).globalVars = all
      BY <2>4, <2>9 DEF TokensGet
  <2> QED BY <2>13, <2>17, <2>19, <2>20
<1>2. IndexInv => ViewVariablesAreTokens
    BY <1>1 DEF ViewVariablesAreTokens
<1> QED BY IndexInvariant, <1>2, PTL

-----------------------------------------------------------------------------
(***************************************************************************)
(* Search                                                                  *)
(***************************************************************************)

\* Paths of one length are totally ordered.
LEMMA PathsOrdered ==
    ASSUME NEW p \in Seq(NodeId), NEW q \in Seq(NodeId), NEW r \in Seq(NodeId),
           Len(p) = Len(q), Len(q) = Len(r)
    PROVE  /\ ~PathBefore(p, p)
           /\ PathBefore(p, q) /\ PathBefore(q, r) => PathBefore(p, r)
           /\ p # q => PathBefore(p, q) \/ PathBefore(q, p)
<1>0. PICK l : l = Len(p)
    OBVIOUS
<1>1. /\ l \in Nat /\ DOMAIN p = 1 .. l /\ DOMAIN q = 1 .. l /\ DOMAIN r = 1 .. l
      /\ \A i \in 1 .. l : /\ p[i] \in NodeId /\ q[i] \in NodeId /\ r[i] \in NodeId
                           /\ Rank[p[i]] \in Nat /\ Rank[q[i]] \in Nat /\ Rank[r[i]] \in Nat
  <2>1. /\ l \in Nat /\ DOMAIN p = 1 .. l /\ DOMAIN q = 1 .. l /\ DOMAIN r = 1 .. l
    <3>1. \A s \in Seq(NodeId) : Len(s) \in Nat /\ DOMAIN s = 1 .. Len(s)
        OBVIOUS
    <3> QED BY <3>1, <1>0
  <2>2. \A i \in 1 .. l : p[i] \in NodeId /\ q[i] \in NodeId /\ r[i] \in NodeId
      BY <2>1
  <2>3. \A x \in NodeId : Rank[x] \in Nat
      BY RankAssumption
  <2> QED BY <2>1, <2>2, <2>3
<1>2. ~PathBefore(p, p)
    BY <1>1 DEF PathBefore
<1>3. ASSUME PathBefore(p, q), PathBefore(q, r) PROVE PathBefore(p, r)
  <2>1. PICK i \in 1 .. l : Rank[p[i]] < Rank[q[i]] /\ \A j \in 1 .. i - 1 : p[j] = q[j]
      BY <1>1, <1>3 DEF PathBefore
  <2>2. PICK k \in 1 .. l : Rank[q[k]] < Rank[r[k]] /\ \A j \in 1 .. k - 1 : q[j] = r[j]
      BY <1>1, <1>3 DEF PathBefore
  <2>3. CASE i < k
    <3>1. q[i] = r[i] /\ \A j \in 1 .. i - 1 : p[j] = r[j]
        BY <1>1, <2>1, <2>2, <2>3
    <3>2. Rank[p[i]] < Rank[r[i]]
        BY <2>1, <3>1
    <3> QED BY <1>1, <3>1, <3>2 DEF PathBefore
  <2>4. CASE k < i
    <3>1. p[k] = q[k] /\ \A j \in 1 .. k - 1 : p[j] = r[j]
        BY <1>1, <2>1, <2>2, <2>4
    <3>2. Rank[p[k]] < Rank[r[k]]
        BY <2>2, <3>1
    <3> QED BY <1>1, <3>1, <3>2 DEF PathBefore
  <2>5. CASE i = k
    <3>1. \A j \in 1 .. i - 1 : p[j] = r[j]
        BY <2>1, <2>2, <2>5
    <3>2. Rank[p[i]] < Rank[r[i]]
        BY <1>1, <2>1, <2>2, <2>5
    <3> QED BY <1>1, <3>1, <3>2 DEF PathBefore
  <2> QED BY <2>3, <2>4, <2>5
<1>4. ASSUME p # q PROVE PathBefore(p, q) \/ PathBefore(q, p)
  <2> DEFINE Apart == {i \in 1 .. l : p[i] # q[i]}
  <2>1. Apart # {}
    <3> SUFFICES ASSUME Apart = {} PROVE FALSE
        OBVIOUS
    <3>1. \A i \in 1 .. l : p[i] = q[i]
        OBVIOUS
    <3> QED BY <1>1, <1>4, <3>1
  <2>2. Apart \in SUBSET Nat
      BY <1>1
  <2>3. PICK i \in Apart : \A j \in Apart : i <= j
    <3> HIDE DEF Apart
    <3> QED BY <2>1, <2>2, LeastNatural
  <2>4. \A j \in 1 .. i - 1 : p[j] = q[j]
    <3> SUFFICES ASSUME NEW j \in 1 .. i - 1 PROVE p[j] = q[j]
        OBVIOUS
    <3>1. j \in 1 .. l /\ ~(i <= j)
        BY <1>1, <2>3
    <3> QED BY <2>3, <3>1
  <2>5. Rank[p[i]] # Rank[q[i]]
    <3>1. p[i] \in DOMAIN Rank /\ q[i] \in DOMAIN Rank /\ p[i] # q[i]
        BY <1>1, <2>3, RankAssumption
    <3> QED BY <3>1, RankAssumption DEF IsInjective
  <2>6. Rank[p[i]] < Rank[q[i]] \/ Rank[q[i]] < Rank[p[i]]
      BY <1>1, <2>3, <2>5
  <2> QED BY <1>1, <2>3, <2>4, <2>6 DEF PathBefore
<1> QED BY <1>2, <1>3, <1>4

\* So are the rows of a table: ORDER BY leaves nothing to chance.
LEMMA RowsOrdered ==
    ASSUME NEW t, NEW d, TableOf(t, d),
           NEW n \in DOMAIN t, NEW m \in DOMAIN t, NEW k \in DOMAIN t
    PROVE  /\ ~RowBefore(t[n], t[n])
           /\ RowBefore(t[n], t[m]) /\ RowBefore(t[m], t[k]) => RowBefore(t[n], t[k])
           /\ n # m => RowBefore(t[n], t[m]) \/ RowBefore(t[m], t[n])
<1>1. \A x \in DOMAIN t : /\ t[x].depth \in Nat /\ t[x].path \in Seq(NodeId)
                          /\ Len(t[x].path) = t[x].depth + 1
    BY NodeFacts
<1>2. ~RowBefore(t[n], t[n])
  <2>1. ~PathBefore(t[n].path, t[n].path)
      BY <1>1, PathsOrdered
  <2> QED BY <1>1, <2>1 DEF RowBefore
<1>3. ASSUME RowBefore(t[n], t[m]), RowBefore(t[m], t[k]) PROVE RowBefore(t[n], t[k])
  <2>1. CASE t[n].depth = t[m].depth /\ t[m].depth = t[k].depth
    <3>1. PathBefore(t[n].path, t[m].path) /\ PathBefore(t[m].path, t[k].path)
        BY <1>1, <1>3, <2>1 DEF RowBefore
    <3>2. Len(t[n].path) = Len(t[m].path) /\ Len(t[m].path) = Len(t[k].path)
        BY <1>1, <2>1
    <3>3. PathBefore(t[n].path, t[k].path)
        BY <1>1, <3>1, <3>2, PathsOrdered
    <3> QED BY <2>1, <3>3 DEF RowBefore
  <2>2. CASE ~(t[n].depth = t[m].depth /\ t[m].depth = t[k].depth)
    <3>1. t[n].depth < t[k].depth
        BY <1>1, <1>3, <2>2 DEF RowBefore
    <3> QED BY <3>1 DEF RowBefore
  <2> QED BY <2>1, <2>2
<1>4. ASSUME n # m PROVE RowBefore(t[n], t[m]) \/ RowBefore(t[m], t[n])
  <2>1. CASE t[n].depth = t[m].depth
    <3>1. n = t[n].path[t[n].depth + 1] /\ m = t[m].path[t[m].depth + 1]
        BY BelowSteps, BelowFacts
    <3>2. t[n].path # t[m].path
        BY <1>4, <2>1, <3>1
    <3>3. Len(t[n].path) = Len(t[m].path)
        BY <1>1, <2>1
    <3>4. PathBefore(t[n].path, t[m].path) \/ PathBefore(t[m].path, t[n].path)
        BY <1>1, <3>2, <3>3, PathsOrdered
    <3> QED BY <2>1, <3>4 DEF RowBefore
  <2>2. CASE t[n].depth # t[m].depth
      BY <1>1, <2>2 DEF RowBefore
  <2> QED BY <2>1, <2>2
<1> QED BY <1>2, <1>3, <1>4

\* A list without repetition has as many members as places.
LEMMA ListSize ==
    ASSUME NEW S, NEW list \in Seq(S), IsInjective(list)
    PROVE  IsFiniteSet(ToSet(list)) /\ Cardinality(ToSet(list)) = Len(list)
<1>1. DOMAIN list = 1 .. Len(list) /\ Len(list) \in Nat
    OBVIOUS
<1>2. list \in [1 .. Len(list) -> ToSet(list)]
    BY <1>1 DEF ToSet
<1>3. list \in Bijection(1 .. Len(list), ToSet(list))
    BY <1>1, <1>2 DEF Bijection, Injection, Surjection, IsInjective, ToSet
<1>4. ExistsBijection(1 .. Len(list), ToSet(list))
    BY <1>3 DEF ExistsBijection
<1> QED BY <1>1, <1>4, IntervalSize, FS_Bijection

\* The sorted matches: every match, each once.
LEMMA SortedFacts ==
    ASSUME NEW t, NEW d, TableOf(t, d), NEW q
    PROVE  /\ Sorted(t, q) \in Seq(Found(t, q))
           /\ IsInjective(Sorted(t, q))
           /\ ToSet(Sorted(t, q)) = Found(t, q)
<1> DEFINE found == Found(t, q)
           Before(n) == {m \in found : RowBefore(t[m], t[n])}
           rank == [n \in found |-> Cardinality(Before(n))]
<1>1. found \in SUBSET DOMAIN t
    BY DEF Found
<1>2. IsFiniteSet(found)
  <2>1. PICK nodes : nodes = CollectNodes(t, d.id[Root])
      OBVIOUS
  <2>2. nodes \in Seq(DOMAIN t) /\ IsInjective(nodes) /\ ToSet(nodes) = DOMAIN t
      BY <2>1, RootIsFirst, AllBelowRoot, CollectedNodes
  <2>3. IsFiniteSet(DOMAIN t)
      BY <2>2, ListSize
  <2> QED BY <1>1, <2>3, FS_Subset
<1>3. PICK size : size = Cardinality(found)
    OBVIOUS
<1>4. size \in Nat
    BY <1>2, <1>3, FS_CardinalityType
<1> HIDE DEF found
<1>5. \A n \in found : /\ IsFiniteSet(Before(n)) /\ Cardinality(Before(n)) \in Nat
                       /\ Cardinality(Before(n)) < size
  <2> SUFFICES ASSUME NEW n \in found
               PROVE  /\ IsFiniteSet(Before(n)) /\ Cardinality(Before(n)) \in Nat
                      /\ Cardinality(Before(n)) < size
      OBVIOUS
  <2>1. Before(n) \in SUBSET found /\ n \notin Before(n)
      BY <1>1, RowsOrdered
  <2> HIDE DEF Before
  <2>2. IsFiniteSet(Before(n)) /\ Cardinality(Before(n)) \in Nat
      BY <1>2, <2>1, FS_Subset, FS_CardinalityType
  <2>3. Cardinality(Before(n)) <= size /\ Cardinality(Before(n)) # size
      BY <1>2, <1>3, <2>1, FS_Subset
  <2> QED BY <1>4, <2>2, <2>3
<1>6. \A n, m \in found : RowBefore(t[n], t[m]) => Cardinality(Before(n)) < Cardinality(Before(m))
  <2> SUFFICES ASSUME NEW n \in found, NEW m \in found, RowBefore(t[n], t[m])
               PROVE  Cardinality(Before(n)) < Cardinality(Before(m))
      OBVIOUS
  <2>1. Before(n) \in SUBSET Before(m)
      BY <1>1, RowsOrdered
  <2>2. n \in Before(m) /\ n \notin Before(n)
      BY <1>1, RowsOrdered
  <2> HIDE DEF Before
  <2>3. Cardinality(Before(n)) <= Cardinality(Before(m)) /\ Cardinality(Before(n)) # Cardinality(Before(m))
      BY <1>5, <2>1, <2>2, FS_Subset
  <2> QED BY <1>5, <2>3
<1>7. \A n, m \in found : rank[n] = rank[m] => n = m
  <2> SUFFICES ASSUME NEW n \in found, NEW m \in found, rank[n] = rank[m], n # m PROVE FALSE
      OBVIOUS
  <2>1. RowBefore(t[n], t[m]) \/ RowBefore(t[m], t[n])
      BY <1>1, RowsOrdered
  <2>2. Cardinality(Before(n)) = Cardinality(Before(m))
    <3>1. rank[n] = Cardinality(Before(n))
        OBVIOUS
    <3>2. rank[m] = Cardinality(Before(m))
        OBVIOUS
    <3> HIDE DEF Before, rank
    <3> QED BY <3>1, <3>2
  <2>3. \/ Cardinality(Before(n)) < Cardinality(Before(m))
        \/ Cardinality(Before(m)) < Cardinality(Before(n))
    <3> HIDE DEF Before
    <3> QED BY <2>1, <1>6
  <2>4. Cardinality(Before(n)) \in Nat
      BY <1>5
  <2> HIDE DEF Before, rank
  <2> QED BY <2>2, <2>3, <2>4
<1>8. \A n \in found : rank[n] \in 0 .. size - 1
  <2>1. \A n \in found : rank[n] = Cardinality(Before(n))
      OBVIOUS
  <2> HIDE DEF Before, rank
  <2> QED BY <2>1, <1>4, <1>5
<1>9. ASSUME NEW i \in 1 .. size
      PROVE  \E n \in found : rank[n] = i - 1
  <2> DEFINE ranks == {rank[n] : n \in found}
  <2>1. rank \in [found -> ranks]
      OBVIOUS
  <2>2. \A x \in ranks : \E n \in found : rank[n] = x
      OBVIOUS
  <2>3. ranks \in SUBSET (0 .. size - 1)
      BY <1>8
  <2> HIDE DEF rank, ranks
  <2>4. rank \in Bijection(found, ranks)
      BY <1>7, <2>1, <2>2 DEF Bijection, Injection, Surjection, IsInjective
  <2>5. ExistsBijection(found, ranks)
      BY <2>4 DEF ExistsBijection
  <2>6. IsFiniteSet(ranks) /\ Cardinality(ranks) = size
      BY <1>2, <1>3, <2>5, FS_Bijection
  <2>7. IsFiniteSet(0 .. size - 1) /\ Cardinality(0 .. size - 1) = size
    <3>1. 0 \in Int /\ size - 1 \in Int
        BY <1>4
    <3>2. /\ IsFiniteSet(0 .. size - 1)
          /\ Cardinality(0 .. size - 1) = IF 0 > size - 1 THEN 0 ELSE (size - 1) - 0 + 1
        BY <3>1, FS_Interval
    <3> QED BY <3>2, <1>4
  <2>8. ranks = 0 .. size - 1
      BY <2>3, <2>6, <2>7, FS_Subset
  <2>9. i - 1 \in ranks
      BY <1>4, <2>8
  <2> QED BY <2>2, <2>9
<1>10. PICK all : all = [i \in 1 .. size |-> CHOOSE n \in found : Cardinality(Before(n)) = i - 1]
    OBVIOUS
<1>11. Sorted(t, q) = all
    BY <1>3, <1>10 DEF Sorted, found
<1>12. \A i \in 1 .. size : all[i] \in found /\ rank[all[i]] = i - 1
  <2> SUFFICES ASSUME NEW i \in 1 .. size PROVE all[i] \in found /\ rank[all[i]] = i - 1
      OBVIOUS
  <2>1. \A n \in found : rank[n] = Cardinality(Before(n))
      OBVIOUS
  <2>2. \E n \in found : Cardinality(Before(n)) = i - 1
      BY <1>9, <2>1
  <2>3. all[i] = CHOOSE n \in found : Cardinality(Before(n)) = i - 1
      BY <1>10
  <2> HIDE DEF Before, rank
  <2> QED BY <2>1, <2>2, <2>3
<1> HIDE DEF Before, rank
<1>13. all \in Seq(found) /\ DOMAIN all = 1 .. size
  <2>1. all = [i \in 1 .. size |-> all[i]]
      BY <1>10
  <2> QED BY <1>4, <1>12, <2>1
<1>14. IsInjective(all)
  <2>1. \A i, j \in 1 .. size : all[i] = all[j] => i = j
      BY <1>4, <1>12
  <2> QED BY <1>13, <2>1 DEF IsInjective
<1>15. ToSet(all) = found
  <2>1. \A n \in found : \E i \in 1 .. size : all[i] = n
    <3> SUFFICES ASSUME NEW n \in found PROVE \E i \in 1 .. size : all[i] = n
        OBVIOUS
    <3>1. rank[n] + 1 \in 1 .. size /\ (rank[n] + 1) - 1 = rank[n]
        BY <1>4, <1>8
    <3>2. all[rank[n] + 1] \in found /\ rank[all[rank[n] + 1]] = rank[n]
        BY <1>12, <3>1
    <3> QED BY <1>7, <3>1, <3>2
  <2> QED BY <1>12, <1>13, <2>1 DEF ToSet
<1> QED BY <1>11, <1>13, <1>14, <1>15 DEF found

\* The members of a list after the first a, up to the b-th.
Slice(list, a, b) == SubSeq(list, a + 1, b)

IsSlice(S, part, list, a, b) ==
    /\ part \in Seq(S)
    /\ Len(part) = IF a <= b THEN b - a ELSE 0
    /\ \A i \in DOMAIN part : a + i \in (a + 1) .. b /\ part[i] = list[a + i]
    /\ ToSet(part) = {list[i] : i \in (a + 1) .. b}
    /\ IsInjective(list) => IsInjective(part)

LEMMA SliceOfList ==
    ASSUME NEW S, NEW list \in Seq(S), NEW a \in Nat, NEW b \in Nat, b <= Len(list)
    PROVE  IsSlice(S, Slice(list, a, b), list, a, b)
<1>1. PICK part : part = Slice(list, a, b)
    OBVIOUS
<1>2. PICK l : l = IF a <= b THEN b - a ELSE 0
    OBVIOUS
<1>0. Len(list) \in Nat /\ DOMAIN list = 1 .. Len(list)
    OBVIOUS
<1>3. l \in Nat /\ \A i \in 1 .. l : a + i \in (a + 1) .. b /\ a + i \in 1 .. Len(list)
  <2>1. Len(list) \in Nat
      BY <1>0
  <2> QED BY <2>1, <1>2
<1>4. part = [i \in 1 .. l |-> list[a + i]]
  <2>1. part = [i \in 1 .. (IF a + 1 <= b THEN b - (a + 1) + 1 ELSE 0) |-> list[(a + 1) + i - 1]]
      BY <1>1 DEF Slice
  <2>2. (IF a + 1 <= b THEN b - (a + 1) + 1 ELSE 0) = l
      BY <1>2
  <2>3. \A i \in 1 .. l : (a + 1) + i - 1 = a + i
      BY <1>3
  <2> QED BY <2>1, <2>2, <2>3
<1>5. \A i \in 1 .. l : part[i] = list[a + i] /\ part[i] \in S
    BY <1>3, <1>4
<1>6. part \in Seq(S) /\ DOMAIN part = 1 .. l /\ Len(part) = l
    BY <1>3, <1>4, <1>5
<1>7. ToSet(part) = {list[i] : i \in (a + 1) .. b}
  <2>1. \A k \in (a + 1) .. b : k - a \in 1 .. l /\ a + (k - a) = k
      BY <1>2, <1>3
  <2>2. \A k \in (a + 1) .. b : list[k] = part[k - a]
      BY <2>1, <1>5
  <2>3. ASSUME NEW k \in (a + 1) .. b PROVE \E i \in 1 .. l : part[i] = list[k]
      BY <2>1, <2>2
  <2>4. ASSUME NEW i \in 1 .. l PROVE \E k \in (a + 1) .. b : part[i] = list[k]
      BY <1>3, <1>5
  <2>5. ToSet(part) = {part[i] : i \in 1 .. l}
      BY <1>6 DEF ToSet
  <2>6. \A x : x \in ToSet(part) <=> \E k \in (a + 1) .. b : x = list[k]
    <3>1. ASSUME NEW x \in ToSet(part) PROVE \E k \in (a + 1) .. b : x = list[k]
        BY <2>4, <2>5
    <3>2. ASSUME NEW k \in (a + 1) .. b PROVE list[k] \in ToSet(part)
      <4>1. PICK i \in 1 .. l : part[i] = list[k]
          BY <2>3
      <4> QED BY <4>1, <2>5
    <3> QED BY <3>1, <3>2
  <2> QED BY <2>6
<1>8. ASSUME IsInjective(list) PROVE IsInjective(part)
  <2> SUFFICES ASSUME NEW i \in 1 .. l, NEW j \in 1 .. l, part[i] = part[j] PROVE i = j
      BY <1>6 DEF IsInjective
  <2>1. a + i \in DOMAIN list /\ a + j \in DOMAIN list
      BY <1>0, <1>3
  <2>2. a + i = a + j
      BY <2>1, <1>5, <1>8 DEF IsInjective
  <2> QED BY <2>2, <1>3
<1> QED BY <1>1, <1>2, <1>3, <1>5, <1>6, <1>7, <1>8 DEF IsSlice

\* Two parts of a list, one after the other.
LEMMA SlicesJoin ==
    ASSUME NEW S, NEW list \in Seq(S), NEW a \in Nat, NEW b \in Nat, a <= b, b <= Len(list)
    PROVE  Slice(list, a, b) \o Slice(list, b, Len(list))
               = Slice(list, a, Len(list))
<1>1. PICK l : l = Len(list)
    OBVIOUS
<1>2. l \in Nat /\ b <= l /\ a <= l /\ l <= l
    BY <1>1
<1>3. PICK front : front = Slice(list, a, b)
    OBVIOUS
<1>4. PICK second : second = Slice(list, b, l)
    OBVIOUS
<1>5. PICK whole : whole = Slice(list, a, l)
    OBVIOUS
<1>6. /\ front \in Seq(S) /\ Len(front) = b - a
      /\ \A i \in DOMAIN front : front[i] = list[a + i]
  <2>1. IsSlice(S, front, list, a, b)
      BY <1>3, SliceOfList
  <2> QED BY <2>1 DEF IsSlice
<1>7. /\ second \in Seq(S) /\ Len(second) = l - b
      /\ \A i \in DOMAIN second : second[i] = list[b + i]
  <2>1. IsSlice(S, second, list, b, l)
      BY <1>1, <1>2, <1>4, SliceOfList
  <2> QED BY <2>1, <1>2 DEF IsSlice
<1>8. /\ whole \in Seq(S) /\ Len(whole) = l - a
      /\ \A i \in DOMAIN whole : whole[i] = list[a + i]
  <2>1. IsSlice(S, whole, list, a, l)
      BY <1>1, <1>2, <1>5, SliceOfList
  <2> QED BY <2>1, <1>2 DEF IsSlice
<1>9. PICK both : both = front \o second
    OBVIOUS
<1>10. both \in Seq(S) /\ Len(both) = l - a
  <2>1. front \in Seq(S) /\ second \in Seq(S)
      BY <1>6, <1>7
  <2>2. both \in Seq(S)
      BY <2>1, <1>9
  <2>3. Len(both) = Len(front) + Len(second)
      BY <2>1, <1>9
  <2> QED BY <2>2, <2>3, <1>2, <1>6, <1>7
<1>11. ASSUME NEW i \in 1 .. l - a PROVE both[i] = whole[i]
  <2>1. whole[i] = list[a + i]
    <3>1. DOMAIN whole = 1 .. l - a
        BY <1>8
    <3> QED BY <3>1, <1>8
  <2>2. CASE i <= b - a
    <3>1. i \in DOMAIN front /\ both[i] = front[i]
        BY <2>2, <1>2, <1>6, <1>7, <1>9
    <3> QED BY <3>1, <2>1, <1>6
  <2>3. CASE b - a < i
    <3>1. i - (b - a) \in DOMAIN second /\ both[i] = second[i - (b - a)]
        BY <2>3, <1>2, <1>6, <1>7, <1>9
    <3>2. b + (i - (b - a)) = a + i
        BY <1>2
    <3> QED BY <3>1, <3>2, <2>1, <1>7
  <2> QED BY <2>2, <2>3, <1>2
<1>12. both = whole
    BY <1>8, <1>10, <1>11, <1>2
<1> QED BY <1>1, <1>3, <1>4, <1>5, <1>9, <1>12

LEMMA MinOfTwo ==
    ASSUME NEW a \in Nat, NEW b \in Nat
    PROVE  Min({a, b}) = IF a <= b THEN a ELSE b
<1>1. ASSUME NEW m \in {a, b}, \A y \in {a, b} : m <= y
      PROVE  m = IF a <= b THEN a ELSE b
    BY <1>1
<1>2. \E m \in {a, b} : \A y \in {a, b} : m <= y
    OBVIOUS
<1>3. PICK m \in {a, b} : m = Min({a, b}) /\ \A y \in {a, b} : m <= y
    BY <1>2 DEF Min
<1> QED BY <1>1, <1>3

LEMMA PageSizeFacts ==
    ASSUME NEW asked \in Limits
    PROVE  PageSize(asked) \in Nat /\ PageSize(asked) > 0
<1>1. asked \in Nat /\ DefaultLimit \in Nat \ {0} /\ MaxLimit \in Nat \ {0}
    BY PageSizeAssumption
<1>2. Min({asked, MaxLimit}) = IF asked <= MaxLimit THEN asked ELSE MaxLimit
    BY <1>1, MinOfTwo
<1> QED BY <1>1, <1>2 DEF PageSize

\* A page is full, and has a cursor, if so many matches are left.
LEMMA PageFacts ==
    ASSUME NEW t, NEW d, TableOf(t, d), NEW q, NEW asked \in Limits, NEW offset \in Nat,
           NEW all, all = Sorted(t, q)
    PROVE  LET page == Page(t, q, asked, offset)
           IN  /\ offset + PageSize(asked) <= Len(all) =>
                      /\ page = Slice(all, offset, offset + PageSize(asked))
                      /\ NextCursor(asked, offset, page) = offset + PageSize(asked)
               /\ ~(offset + PageSize(asked) <= Len(all)) =>
                      /\ page = Slice(all, offset, Len(all))
                      /\ NextCursor(asked, offset, page) = None
<1>1. PICK size : size = PageSize(asked)
    OBVIOUS
<1>2. size \in Nat /\ size > 0
    BY <1>1, PageSizeFacts
<1>3. all \in Seq(Found(t, q))
    BY SortedFacts
<1>4. PICK l : l = Len(all)
    OBVIOUS
<1>5. l \in Nat
    BY <1>3, <1>4
<1>6. PICK page : page = Page(t, q, asked, offset)
    OBVIOUS
<1>7. page = Slice(all, offset, Min({l, offset + size}))
    BY <1>1, <1>4, <1>6 DEF Page, Slice
<1>8. Min({l, offset + size}) = IF l <= offset + size THEN l ELSE offset + size
    BY <1>2, <1>5, MinOfTwo
<1>9. CASE offset + size <= l
  <2>1. Min({l, offset + size}) = offset + size
      BY <1>2, <1>5, <1>8, <1>9
  <2>2. page = Slice(all, offset, offset + size)
      BY <1>7, <2>1
  <2>3. Len(page) = (offset + size) - offset
    <3>1. offset + size \in Nat /\ offset + size <= Len(all) /\ offset <= offset + size
        BY <1>2, <1>4, <1>9
    <3>2. IsSlice(Found(t, q), page, all, offset, offset + size)
        BY <3>1, <1>3, <2>2, SliceOfList
    <3> QED BY <3>1, <3>2 DEF IsSlice
  <2>4. Len(page) = size
      BY <2>3, <1>2
  <2>5. NextCursor(asked, offset, page) = offset + size
      BY <2>4, <1>1 DEF NextCursor
  <2> QED BY <1>1, <1>4, <1>6, <1>9, <2>2, <2>5
<1>10. CASE ~(offset + size <= l)
  <2>1. Min({l, offset + size}) = l
      BY <1>2, <1>5, <1>8, <1>10
  <2>2. page = Slice(all, offset, l)
      BY <1>7, <2>1
  <2>3. Len(page) = IF offset <= l THEN l - offset ELSE 0
    <3>1. l <= Len(all)
        BY <1>4, <1>5
    <3>2. IsSlice(Found(t, q), page, all, offset, l)
        BY <3>1, <1>3, <1>5, <2>2, SliceOfList
    <3> QED BY <3>2 DEF IsSlice
  <2>4. Len(page) # size
      BY <2>3, <1>2, <1>5, <1>10
  <2>5. NextCursor(asked, offset, page) = None
      BY <2>4, <1>1 DEF NextCursor
  <2> QED BY <1>1, <1>4, <1>6, <1>10, <2>2, <2>5
<1> QED BY <1>9, <1>10

\* Whoever follows the cursors sees the rest of the list.
LEMMA FollowedPages ==
    ASSUME NEW t, NEW d, TableOf(t, d), NEW q, NEW asked \in Limits, NEW cursor \in Nat,
           NEW all, all = Sorted(t, q)
    PROVE  FollowCursors(t, q, asked, cursor) = Slice(all, cursor, Len(all))
<1> DEFINE page(o) == Page(t, q, asked, o)
           next(o) == NextCursor(asked, o, page(o))
           rest(o) == Slice(all, o, Len(all))
           Solves(from) ==
               from = [o \in Nat |-> IF next(o) = None THEN page(o) ELSE page(o) \o from[next(o)]]
<1>1. PICK size : size = PageSize(asked)
    OBVIOUS
<1>2. size \in Nat /\ size > 0
    BY <1>1, PageSizeFacts
<1>3. all \in Seq(Found(t, q)) /\ Len(all) \in Nat
    BY SortedFacts
<1>4. \A o \in Nat :
          /\ o + size <= Len(all) =>
                 page(o) = Slice(all, o, o + size) /\ next(o) = o + size
          /\ ~(o + size <= Len(all)) => page(o) = rest(o) /\ next(o) = None
    BY <1>1, PageFacts
<1>5. \A o \in Nat : o + size \in Nat /\ o + size # None
    BY <1>2, CursorAssumption
<1>6. \A o \in Nat : o + size <= Len(all) =>
          Slice(all, o, o + size) \o rest(o + size) = rest(o)
  <2> SUFFICES ASSUME NEW o \in Nat, o + size <= Len(all)
               PROVE  Slice(all, o, o + size) \o rest(o + size) = rest(o)
      OBVIOUS
  <2>1. o + size \in Nat /\ o <= o + size
      BY <1>2
  <2> QED BY <2>1, <1>3, SlicesJoin
<1>7. FollowCursors(t, q, asked, cursor) = (CHOOSE from : Solves(from))[cursor]
  <2>1. cursor # None
      BY CursorAssumption
  <2> QED BY <2>1 DEF FollowCursors
<1> HIDE DEF page, next, rest
<1>8. Solves([o \in Nat |-> rest(o)])
  <2>1. ASSUME NEW o \in Nat, NEW from, from = [x \in Nat |-> rest(x)]
        PROVE  rest(o) = IF next(o) = None THEN page(o) ELSE page(o) \o from[next(o)]
    <3>1. CASE o + size <= Len(all)
      <4>1. from[o + size] = rest(o + size)
          BY <1>5, <2>1
      <4>2. next(o) = o + size /\ next(o) # None
          BY <1>4, <1>5, <3>1
      <4>3. page(o) \o from[next(o)] = rest(o)
          BY <1>4, <1>6, <3>1, <4>1, <4>2
      <4> QED BY <4>2, <4>3
    <3>2. CASE ~(o + size <= Len(all))
        BY <1>4, <3>2
    <3> QED BY <3>1, <3>2
  <2> QED BY <2>1
<1>9. ASSUME NEW from, Solves(from)
      PROVE  \A o \in Nat : from[o] = rest(o)
  <2> DEFINE Wrong == {o \in Nat : from[o] # rest(o)}
  <2>1. \A o \in Nat : from[o] = IF next(o) = None THEN page(o) ELSE page(o) \o from[next(o)]
      BY <1>9
  <2>2. \A o \in Wrong : o + size <= Len(all)
      BY <2>1, <1>4
  <2> SUFFICES ASSUME Wrong # {} PROVE FALSE
      OBVIOUS
  <2>3. \A o \in Wrong : o <= Len(all)
      BY <2>2, <1>2, <1>3
  <2>4. PICK o \in Wrong : \A x \in Wrong : x <= o
    <3>1. Wrong \in SUBSET Nat
        OBVIOUS
    <3> HIDE DEF Wrong
    <3> QED BY <3>1, <2>3, <1>3, GreatestNatural
  <2>5. o \in Nat /\ o + size <= Len(all)
      BY <2>2, <2>4
  <2>6. from[o + size] = rest(o + size)
    <3>1. ~(o + size <= o)
        BY <1>2, <2>5
    <3>2. o + size \notin Wrong
      <4> HIDE DEF Wrong
      <4> QED BY <2>4, <3>1
    <3> QED BY <3>2, <2>5, <1>5
  <2>7. next(o) = o + size /\ next(o) # None
      BY <1>4, <1>5, <2>5
  <2>8. from[o] = Slice(all, o, o + size) \o rest(o + size)
      BY <1>4, <2>1, <2>5, <2>6, <2>7
  <2>9. from[o] = rest(o)
      BY <1>6, <2>5, <2>8
  <2> QED BY <2>4, <2>9
<1> HIDE DEF Solves
<1>10. Solves(CHOOSE from : Solves(from))
    BY <1>8
<1>11. FollowCursors(t, q, asked, cursor) = rest(cursor)
    BY <1>7, <1>9, <1>10
<1> QED BY <1>11 DEF rest

\* Search filters the ancestor by the paths, which are those of the parent links.
LEMMA FoundMatches ==
    ASSUME NEW t, NEW d, TableOf(t, d), NEW q,
           NEW under, under = IF q.ancestor = None THEN DOMAIN t ELSE Below(t, q.ancestor)
    PROVE  Found(t, q) = {n \in under : /\ t[n].fields \in q.says
                                        /\ q.type = None \/ TypeOf[t[n].fields] = q.type}
<1>1. \A n : n \in Below(t, q.ancestor) <=> n \in DOMAIN t /\ q.ancestor \in ToSet(t[n].path)
    BY BelowIsOnPath
<1>2. CASE q.ancestor = None
    BY <1>2 DEF Found
<1>3. CASE q.ancestor # None
    BY <1>1, <1>3 DEF Found
<1> QED BY <1>2, <1>3

\* The pages of a search lose and repeat nothing but what a pull moved across
\* the first cursor: for every page size and every number of matches.
THEOREM PagesAreComplete == Spec => []PagesLoseOnlyWhatMoved
<1>1. ASSUME IndexInv, phase = "indexed", NEW q \in Queries, NEW asked \in Limits,
             NEW old \in {table, before} \ {NoTable}
      PROVE  LET page == Page(old, q, asked, 0)
                 next == NextCursor(asked, 0, page)
                 others == FollowCursors(table, q, asked, next)
                 moved == ToSet(Page(table, q, asked, 0))
                 under == IF q.ancestor = None THEN DOMAIN table
                                               ELSE Below(table, q.ancestor)
                 matches == {n \in under :
                                /\ table[n].fields \in q.says
                                /\ q.type = None \/ TypeOf[table[n].fields] = q.type}
             IN  /\ next = None => ToSet(page) = Found(old, q)
                 /\ next # None =>
                        /\ IsInjective(others)
                        /\ matches \ (ToSet(page) \union ToSet(others)) = moved \ ToSet(page)
                        /\ ToSet(page) \intersect ToSet(others)
                               = (ToSet(page) \intersect matches) \ moved
  <2>1. TableOf(table, doc)
      BY <1>1 DEF IndexInv
  <2>2. PICK d : TableOf(old, d)
    <3>1. CASE old = table
        BY <2>1, <3>1
    <3>2. CASE old = before
        BY <1>1, <3>2 DEF IndexInv
    <3> QED BY <3>1, <3>2
  <2>3. PICK size : size = PageSize(asked)
      OBVIOUS
  <2>4. size \in Nat /\ size > 0 /\ 0 + size = size
      BY <2>3, PageSizeFacts
  <2>5. PICK listed : listed = Sorted(old, q)
      OBVIOUS
  <2>6. PICK all : all = Sorted(table, q)
      OBVIOUS
  <2>7. /\ listed \in Seq(Found(old, q)) /\ ToSet(listed) = Found(old, q)
        /\ Len(listed) \in Nat
      BY <2>2, <2>5, SortedFacts
  <2>8. /\ all \in Seq(Found(table, q)) /\ IsInjective(all) /\ ToSet(all) = Found(table, q)
        /\ Len(all) \in Nat
      BY <2>1, <2>6, SortedFacts
  <2>9. PICK page : page = Page(old, q, asked, 0)
      OBVIOUS
  <2>10. PICK next : next = NextCursor(asked, 0, page)
      OBVIOUS
  <2>11. PICK others : others = FollowCursors(table, q, asked, next)
      OBVIOUS
  <2>12. PICK moved : moved = ToSet(Page(table, q, asked, 0))
      OBVIOUS
  <2>13. PICK matches : matches = Found(table, q)
      OBVIOUS
  <2>14. ASSUME next = None PROVE ToSet(page) = Found(old, q)
    <3>1. ~(0 + size <= Len(listed))
      <4>1. 0 + size # None
          BY <2>4, CursorAssumption
      <4> QED BY <4>1, <2>2, <2>3, <2>5, <2>9, <2>10, <2>14, PageFacts
    <3>2. page = Slice(listed, 0, Len(listed))
        BY <3>1, <2>2, <2>3, <2>5, <2>9, PageFacts
    <3>3. ToSet(page) = {listed[i] : i \in (0 + 1) .. Len(listed)}
      <4>1. IsSlice(Found(old, q), page, listed, 0, Len(listed))
          BY <3>2, <2>7, SliceOfList
      <4> QED BY <4>1 DEF IsSlice
    <3>4. DOMAIN listed = (0 + 1) .. Len(listed)
        BY <2>7
    <3> QED BY <3>3, <3>4, <2>7 DEF ToSet
  <2>15. ASSUME next # None PROVE next = size
    <3>1. 0 + size <= Len(listed)
        BY <2>2, <2>3, <2>5, <2>9, <2>10, <2>15, PageFacts
    <3> QED BY <3>1, <2>2, <2>3, <2>4, <2>5, <2>9, <2>10, PageFacts
  <2>16. ASSUME next # None
         PROVE  /\ IsInjective(others)
                /\ \A n : n \in matches <=> n \in moved \/ n \in ToSet(others)
                /\ \A n : ~(n \in moved /\ n \in ToSet(others))
    <3>1. others = Slice(all, size, Len(all))
        BY <2>1, <2>4, <2>6, <2>11, <2>15, <2>16, FollowedPages
    <3>2. ToSet(others) = {all[i] : i \in (size + 1) .. Len(all)} /\ IsInjective(others)
      <4>1. IsSlice(Found(table, q), others, all, size, Len(all))
          BY <3>1, <2>4, <2>8, SliceOfList
      <4> QED BY <4>1, <2>8 DEF IsSlice
    <3>3. PICK last : last = IF size <= Len(all) THEN size ELSE Len(all)
        OBVIOUS
    <3>4. last \in Nat /\ last <= Len(all)
        BY <3>3, <2>4, <2>8
    <3>5. Page(table, q, asked, 0) = Slice(all, 0, last)
      <4>1. CASE 0 + size <= Len(all)
          BY <4>1, <3>3, <2>1, <2>3, <2>4, <2>6, PageFacts
      <4>2. CASE ~(0 + size <= Len(all))
          BY <4>2, <3>3, <2>1, <2>3, <2>4, <2>6, PageFacts
      <4> QED BY <4>1, <4>2
    <3>6. moved = {all[i] : i \in (0 + 1) .. last}
      <4>1. IsSlice(Found(table, q), Page(table, q, asked, 0), all, 0, last)
          BY <3>4, <3>5, <2>8, SliceOfList
      <4> QED BY <4>1, <2>12 DEF IsSlice
    <3>7. matches = {all[i] : i \in 1 .. Len(all)}
        BY <2>8, <2>13 DEF ToSet
    <3>8. \A i : i \in 1 .. Len(all) <=> i \in (0 + 1) .. last \/ i \in (size + 1) .. Len(all)
        BY <3>3, <2>4, <2>8
    <3>9. \A i, j : i \in (0 + 1) .. last /\ j \in (size + 1) .. Len(all) => i # j
        BY <3>3, <2>4, <2>8
    <3>10. \A i, j \in 1 .. Len(all) : all[i] = all[j] => i = j
        BY <2>8 DEF IsInjective
    <3>11. \A n : n \in matches <=> n \in moved \/ n \in ToSet(others)
        BY <3>2, <3>6, <3>7, <3>8
    <3>12. \A n : ~(n \in moved /\ n \in ToSet(others))
        BY <3>2, <3>6, <3>8, <3>9, <3>10
    <3> QED BY <3>2, <3>11, <3>12
  <2>17. ASSUME next # None
         PROVE  /\ matches \ (ToSet(page) \union ToSet(others)) = moved \ ToSet(page)
                /\ ToSet(page) \intersect ToSet(others) = (ToSet(page) \intersect matches) \ moved
      BY <2>16, <2>17
  <2>18. PICK under : under = IF q.ancestor = None THEN DOMAIN table ELSE Below(table, q.ancestor)
      OBVIOUS
  <2>19. matches = {n \in under : /\ table[n].fields \in q.says
                                  /\ q.type = None \/ TypeOf[table[n].fields] = q.type}
      BY <2>1, <2>13, <2>18, FoundMatches
  <2> QED BY <2>9, <2>10, <2>11, <2>12, <2>14, <2>16, <2>17, <2>18, <2>19
<1>2. IndexInv => PagesLoseOnlyWhatMoved
    BY <1>1 DEF PagesLoseOnlyWhatMoved
<1> QED BY IndexInvariant, <1>2, PTL
=============================================================================
