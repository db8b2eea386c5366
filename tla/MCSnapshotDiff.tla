--------------------------- MODULE MCSnapshotDiff ---------------------------
(***************************************************************************)
(* Files of up to three nodes in every shape, with every choice of ids and *)
(* fields, some of four, and files that are refused: not whole, nested too *)
(* far for serde_json by their nodes or by their fields, too deep, too     *)
(* large, malformed, an id twice.  Some differ in their entities only.     *)
(***************************************************************************)
EXTENDS LocalQueries, TLC

CONSTANTS top, n1, n2, n3,  \* node ids, top that of the document
          f1, f2,            \* fields of a node
          t1, t2,            \* their types
          style1, component1, set1,  \* keys of entities: a kind and an id
          v1, v2             \* what is said of them

File(ids, fields, kids) ==
    [id |-> ids, fields |-> fields, kids |-> kids, entities |-> NoEntities,
     envelope |-> TRUE]

Leaf == <<>>
Chain2 == << <<2>>, Leaf >>
Chain3 == << <<2>>, <<3>>, Leaf >>
Fork3 == << <<2, 3>>, Leaf, Leaf >>

FilesOfEntities ==
    {[File(<<top>>, <<f1>>, <<Leaf>>) EXCEPT !.entities = e] :
        e \in {NoEntities, style1 :> v1, style1 :> v2, component1 :> v1,
               style1 :> v1 @@ component1 :> v2}}
Files2 == {File(<<top, i>>, <<f1, f>>, Chain2) :
              i \in {n1, n2}, f \in {f1, f2}}
Files3 == {File(<<top, i[1], i[2]>>, <<h, f, g>>, k) :
              i \in {<<n1, n2>>, <<n2, n1>>, <<n1, n1>>}, f, g, h \in {f1, f2},
              k \in {Chain3, Fork3}}
Files4 == {File(<<top, i[1], i[2], i[3]>>, <<f1, f1, f, f1>>, k) :
              i \in {<<n1, n2, n3>>, <<n2, n1, n3>>, <<n3, n1, n2>>}, f \in {f1, f2},
              k \in {<< <<2, 3>>, <<4>>, Leaf, Leaf >>,
                     << <<2, 3>>, Leaf, <<4>>, Leaf >>,
                     << <<2, 3, 4>>, Leaf, Leaf, Leaf >>}}
\* Trees whose nodes refer to entities: component1 is node n1, if v2 is said of it.
FilesStyled ==
    {[File(<<top, n1, n2>>, <<f1, f, g>>, k) EXCEPT !.entities = e] :
        f, g \in {f1, f2}, k \in {Chain3, Fork3},
        e \in {style1 :> v1 @@ component1 :> v2, component1 :> v1 @@ set1 :> v2}}
Chain4 == << <<2>>, <<3>>, <<4>>, Leaf >>
Chain5 == << <<2>>, <<3>>, <<4>>, <<5>>, Leaf >>
Refused == {[File(<<top>>, <<f1>>, <<Leaf>>) EXCEPT !.envelope = FALSE],
            File(<<top, n1, n2, n3>>, <<f2, f2, f2, f1>>, Chain4),
            File(<<top, n1, n2, n3, n1>>, <<f2, f2, f2, f2, f2>>, Chain5),
            File(<<top, n1, n2, n3>>, <<f2, f2, f2, f2>>, Chain4),
            File(<<top, n1, n2, n3, n3>>, <<f1, f1, f1, f1, f1>>,
                 << <<2, 3, 4, 5>>, Leaf, Leaf, Leaf, Leaf >>),
            File(<<top, n1>>, <<f1, Malformed>>, Chain2)}

MCDocuments ==
    FilesOfEntities \union Files2 \union Files3 \union Files4
        \union FilesStyled \union Refused

\* The node of f2 at depth 3 is 8 levels deep, that of f1 at depth 2 is 6 and 3.
MCNesting == [f \in {f1, f2, Malformed} |-> IF f = f1 THEN 3 ELSE 0]
MCTypeOf == [f \in {f1, f2} |-> IF f = f1 THEN t1 ELSE t2]
MCStylesOf == [f \in {f1, f2} |-> IF f = f1 THEN {style1} ELSE {}]
MCComponentOf == [f \in {f1, f2} |-> IF f = f1 THEN None ELSE component1]
MCNodeOf == [v \in {v1, v2} |-> IF v = v1 THEN None ELSE n1]

\* A fill and a stroke of one colour in one node; equal numbers of two categories.
MCTokensOf ==
    [f \in {f1, f2} |-> IF f = f1 THEN [fills |-> 9, strokes |-> 9, cornerRadius |-> 4]
                                 ELSE [fills |-> 9, itemSpacing |-> 4]]
MCCategory == [fills |-> "paint", strokes |-> "paint",
               cornerRadius |-> "radius", itemSpacing |-> "spacing"]
MCFilters ==
    {NoFilter,
     [node |-> n1, type |-> None, prefix |-> <<>>],
     [node |-> None, type |-> t1, prefix |-> <<top>>],
     [node |-> n2, type |-> t2, prefix |-> <<>>],
     [node |-> None, type |-> None, prefix |-> <<top, n1>>]}

MCQueries ==
    {[says |-> {f1, f2}, type |-> None, ancestor |-> None],
     [says |-> {f1}, type |-> None, ancestor |-> n1],
     [says |-> {f1, f2}, type |-> t1, ancestor |-> None],
     [says |-> {f1, f2}, type |-> None, ancestor |-> n2]}

\* The ids as Figma writes them: n2 is the id of a node inside an instance, and
\* n3 of one in another document whose first numbers are the same.
Id(pairs) == [i \in DOMAIN pairs |->
                 [instance |-> FALSE, separator |-> ":", pair |-> pairs[i]]]
MCTextOf == [n \in NodeId |->
    CASE n = top -> Id(<<"0:0">>)
      [] n = n1 -> Id(<<"1:2">>)
      [] n = n2 -> [Id(<<"1:2", "3:4">>) EXCEPT ![1].instance = TRUE]
      [] OTHER -> Id(<<"3:4">>)]
NoNumbers == <<[instance |-> FALSE, separator |-> ":", pair |-> Malformed]>>

\* A key, the shapes of file and branch URLs, a file named "branch", and
\* targets that are refused; with and without a node.
Shapes ==
    {<<<<"design", "fileK1", "title">>, "fileK1">>,
     <<<<"file", "fileK1", "title", "branch", "branchK1">>, "branchK1">>,
     <<<<"design", "fileK1", "branch", "branchK1", "branch">>, "branchK1">>,
     <<<<"proto", "fileK1", "branch">>, "fileK1">>,
     <<<<"branch", "branchK1">>, "branchK1">>}
MCLinks ==
    {[form |-> "key", segments |-> <<k>>, node |-> None, to |-> k] : k \in {"fileK1", "branchK1"}}
        \union {[form |-> "url", segments |-> s[1], node |-> MCTextOf[n1], to |-> s[2]] :
                   s \in Shapes}
        \union {[form |-> f, segments |-> <<"design", "fileK1", "title">>,
                  node |-> n, to |-> "fileK1"] :
                   f \in {"url", "foreign"}, n \in {None, MCTextOf[n2], NoNumbers}}
        \union {[form |-> "url", segments |-> s, node |-> None, to |-> "fileK1"] :
                   s \in {<<"design">>, <<"community", "fileK1">>, <<"design", "title">>}}
\* 1:2, 1-2, I1:2;3-4 and 3-4.
Dashed(text, i) == [text EXCEPT ![i].separator = "-"]
MCExplicits == {MCTextOf[n1], Dashed(MCTextOf[n1], 1), Dashed(MCTextOf[n2], 2),
                Dashed(MCTextOf[n3], 1)}
MCNameHolds == [f \in {f1, f2} |-> IF f = f1 THEN {MCTextOf[n1]} ELSE {}]
MCRank == [n \in NodeId |-> CASE n = top -> 0 [] n = n1 -> 2 [] n = n2 -> 1 [] OTHER -> 3]
=============================================================================
