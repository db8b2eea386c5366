------------------------- MODULE SnapshotDiffProofs -------------------------
(***************************************************************************)
(* Proofs about the node tables that pulls index and what a diff of two of *)
(* them answers, for files of any size and shape.                          *)
(***************************************************************************)
EXTENDS SnapshotDiff, FiniteSetTheorems, WellFoundedInduction, TLAPS

-----------------------------------------------------------------------------
(***************************************************************************)
(* Numbers and sequences                                                   *)
(***************************************************************************)

\* Induction over data is by a least counterexample.
LEMMA LeastNatural ==
    ASSUME NEW S \in SUBSET Nat, S # {}
    PROVE  \E m \in S : \A k \in S : m <= k
<1>1. IsWellFoundedOn(OpToRel(<, Nat), Nat)
    BY NatLessThanWellFounded
<1>2. PICK m \in S : \A k \in S : ~(<<k, m>> \in OpToRel(<, Nat))
  <2> HIDE DEF OpToRel
  <2> QED BY <1>1, WFMin
<1>3. \A k \in S : <<k, m>> \in OpToRel(<, Nat) <=> k < m
    BY DEF OpToRel
<1>4. \A k \in S : ~(k < m)
    BY <1>2, <1>3, Zenon
<1> QED BY <1>4

LEMMA GreatestNatural ==
    ASSUME NEW S \in SUBSET Nat, S # {}, NEW b \in Nat, \A k \in S : k <= b
    PROVE  \E m \in S : \A k \in S : k <= m
<1> DEFINE T == {b - k : k \in S}
<1>1. T \in SUBSET Nat /\ T # {}
  <2>1. \A k \in S : b - k \in Nat
      OBVIOUS
  <2> QED BY <2>1
<1>2. PICK l \in T : \A k \in T : l <= k
    BY <1>1, LeastNatural
<1>3. PICK m \in S : l = b - m
    OBVIOUS
<1>4. ASSUME NEW k \in S PROVE k <= m
  <2>1. b - k \in T
      OBVIOUS
  <2>2. b - m <= b - k
      BY <2>1, <1>2, <1>3
  <2> QED BY <2>2
<1> QED BY <1>4

LEMMA IntervalSize ==
    ASSUME NEW n \in Nat
    PROVE  IsFiniteSet(1 .. n) /\ Cardinality(1 .. n) = n
<1>1. IsFiniteSet(1 .. n) /\ Cardinality(1 .. n) = IF 1 > n THEN 0 ELSE n - 1 + 1
    BY FS_Interval
<1> QED BY <1>1

LEMMA JustAbove ==
    ASSUME NEW n \in Nat, NEW m \in Nat, NEW d \in Nat, d + 1 = n, d <= m, n > m
    PROVE  n = m + 1
OBVIOUS

\* A prefix of a prefix.
LEMMA PrefixOfPrefix ==
    ASSUME NEW S, NEW s \in Seq(S), NEW n \in 0 .. Len(s), NEW k \in 0 .. n
    PROVE  SubSeq(SubSeq(s, 1, n), 1, k) = SubSeq(s, 1, k)
OBVIOUS

\* Elements of a sequence may come from a larger set.
LEMMA WiderSeq ==
    ASSUME NEW S, NEW T, S \subseteq T
    PROVE  Seq(S) \subseteq Seq(T)
OBVIOUS

LEMMA PrefixOfAppend ==
    ASSUME NEW S, NEW s \in Seq(S), NEW e \in S, NEW k \in 0 .. Len(s)
    PROVE  /\ SubSeq(Append(s, e), 1, k) = SubSeq(s, 1, k)
           /\ SubSeq(Append(s, e), 1, Len(s) + 1) = Append(s, e)
OBVIOUS

\* Replacing an element of a sequence.
LEMMA ReplaceInSeq ==
    ASSUME NEW S, NEW s \in Seq(S), NEW k \in DOMAIN s, NEW e \in S
    PROVE  LET t == [s EXCEPT ![k] = e]
           IN  /\ t \in Seq(S) /\ Len(t) = Len(s) /\ DOMAIN t = DOMAIN s
               /\ t[k] = e
               /\ \A i \in DOMAIN s : i # k => t[i] = s[i]
OBVIOUS

-----------------------------------------------------------------------------
(***************************************************************************)
(* The steps of the parser, as what they do to each row and each call      *)
(***************************************************************************)

\* Rows and open calls, with hashes of any kind.
Row(H) == [id : NodeId, parent : NodeId \union {None}, depth : Nat, order : Nat,
           path : Seq(NodeId), fields : Fields \union {Malformed}, subtree : H]
Frame(H) == [pos : Nat, row : Nat, hashes : Seq(H)]

WalkTypes ==
    /\ path \in Seq(NodeId)
    /\ \E H : rows \in Seq(Row(H)) /\ stack \in Seq(Frame(H))

LEMMA DocumentIsTree ==
    ASSUME NEW d \in Documents
    PROVE  /\ d.id \in Seq(NodeId) /\ d.id # <<>>
           /\ Positions(d) = 1 .. Len(d.id) /\ Root \in Positions(d)
           /\ \A p \in Positions(d) :
                  /\ d.id[p] \in NodeId
                  /\ d.fields[p] \in Fields \union {Malformed}
                  /\ d.kids[p] \in Seq(Positions(d))
                  /\ Len(d.kids[p]) \in Nat /\ DOMAIN d.kids[p] = 1 .. Len(d.kids[p])
                  /\ \A j \in DOMAIN d.kids[p] :
                         d.kids[p][j] \in Positions(d) /\ d.kids[p][j] > p
           /\ \A p \in Positions(d) \ {Root} :
                  \E q \in Positions(d) : \E j \in DOMAIN d.kids[q] : d.kids[q][j] = p
           /\ \A p, q \in Positions(d) :
                  \A j \in DOMAIN d.kids[p], k \in DOMAIN d.kids[q] :
                      d.kids[p][j] = d.kids[q][k] => p = q /\ j = k
<1> USE DEF Positions, Root
<1>1. /\ d.id \in Seq(NodeId) /\ d.id # <<>>
      /\ d.fields \in [Positions(d) -> Fields \union {Malformed}]
      /\ d.kids \in [Positions(d) -> Seq(Positions(d))]
    BY DocumentsAssumption
<1>2. \A p \in Positions(d) : \A j \in DOMAIN d.kids[p] : d.kids[p][j] > p
    BY <1>1, DocumentsAssumption DEF ToSet
<1>3. \A p \in Positions(d) \ {Root} :
          \E q \in Positions(d) : \E j \in DOMAIN d.kids[q] : d.kids[q][j] = p
  <2> SUFFICES ASSUME NEW p \in Positions(d) \ {Root}
               PROVE  \E q \in Positions(d) : \E j \in DOMAIN d.kids[q] : d.kids[q][j] = p
      OBVIOUS
  <2>1. PICK q \in Positions(d) : p \in ToSet(d.kids[q])
      BY DocumentsAssumption
  <2> QED BY <2>1 DEF ToSet
<1>4. \A p, q \in Positions(d) :
          \A j \in DOMAIN d.kids[p], k \in DOMAIN d.kids[q] :
              d.kids[p][j] = d.kids[q][k] => p = q /\ j = k
    BY DocumentsAssumption
<1> QED BY <1>1, <1>2, <1>3, <1>4

LEMMA KidPlaces ==
    ASSUME NEW d \in Documents, NEW p \in Positions(d)
    PROVE  Len(d.kids[p]) \in Nat /\ DOMAIN d.kids[p] = 1 .. Len(d.kids[p])
BY DocumentIsTree

LEMMA KidsOnce ==
    ASSUME NEW d \in Documents, NEW p \in Positions(d), NEW kids, kids = d.kids[p],
           NEW j \in DOMAIN kids, NEW k \in DOMAIN kids, kids[j] = kids[k]
    PROVE  j = k
BY DocumentIsTree

LEMMA EnterFacts ==
    ASSUME WalkTypes, doc \in Documents,
           \A k \in DOMAIN stack : stack[k].pos \in Positions(doc),
           NEW pos \in Positions(doc), Enter(pos)
    PROVE  /\ WalkTypes'
           /\ Len(rows') = Len(rows) + 1 /\ DOMAIN rows' = DOMAIN rows \union {Len(rows) + 1}
           /\ \A i \in DOMAIN rows : rows'[i] = rows[i]
           /\ rows'[Len(rows) + 1] =
                  [id |-> doc.id[pos],
                   parent |-> IF stack = <<>> THEN None ELSE doc.id[stack[Len(stack)].pos],
                   depth |-> Len(stack),
                   order |-> IF stack = <<>> THEN 0 ELSE Len(stack[Len(stack)].hashes),
                   path |-> path',
                   fields |-> doc.fields[pos],
                   subtree |-> None]
           /\ Len(stack') = Len(stack) + 1
           /\ DOMAIN stack' = DOMAIN stack \union {Len(stack) + 1}
           /\ \A k \in DOMAIN stack : stack'[k] = stack[k]
           /\ stack'[Len(stack) + 1] = [pos |-> pos, row |-> Len(rows) + 1, hashes |-> <<>>]
           /\ path' = Append(path, doc.id[pos]) /\ Len(path') = Len(path) + 1
           /\ \A k \in 0 .. Len(path) : SubSeq(path', 1, k) = SubSeq(path, 1, k)
           /\ SubSeq(path', 1, Len(path')) = path'
           /\ UNCHANGED <<phase, doc, table, entities>>
<1> DEFINE row == [id |-> doc.id[pos],
                   parent |-> IF stack = <<>> THEN None ELSE doc.id[Last(stack).pos],
                   depth |-> Len(stack),
                   order |-> IF stack = <<>> THEN 0 ELSE Len(Last(stack).hashes),
                   path |-> path',
                   fields |-> doc.fields[pos],
                   subtree |-> None]
           frame == [pos |-> pos, row |-> Len(rows'), hashes |-> <<>>]
<1>1. /\ path' = Append(path, doc.id[pos])
      /\ rows' = Append(rows, row)
      /\ stack' = Append(stack, frame)
      /\ UNCHANGED <<phase, doc, table, entities>>
    BY DEF Enter, tables
<1>2. /\ doc.id[pos] \in NodeId
      /\ doc.fields[pos] \in Fields \union {Malformed}
      /\ pos \in Nat
    BY DocumentIsTree
<1>3. PICK H : rows \in Seq(Row(H)) /\ stack \in Seq(Frame(H))
    BY DEF WalkTypes
<1>4. path \in Seq(NodeId) /\ path' \in Seq(NodeId) /\ Len(path') = Len(path) + 1
    BY <1>1, <1>2 DEF WalkTypes
<1>5. stack # <<>> => /\ Last(stack) = stack[Len(stack)]
                      /\ Len(stack) \in DOMAIN stack
                      /\ stack[Len(stack)] \in Frame(H)
    BY <1>3 DEF Last
<1>6. row \in Row(H \union {None})
  <2>1. row.parent \in NodeId \union {None}
      BY <1>5, DocumentIsTree
  <2>2. row.order \in Nat
      BY <1>3, <1>5 DEF Frame
  <2>3. row.depth \in Nat
      BY <1>3
  <2> QED BY <2>1, <2>2, <2>3, <1>2, <1>4 DEF Row
<1>7. frame \in Frame(H \union {None})
    BY <1>1, <1>2, <1>3 DEF Frame
<1>8. /\ rows \in Seq(Row(H \union {None}))
      /\ stack \in Seq(Frame(H \union {None}))
  <2>1. Seq(H) \subseteq Seq(H \union {None})
      BY WiderSeq
  <2>2. Frame(H) \subseteq Frame(H \union {None})
      BY <2>1 DEF Frame
  <2>3. Row(H) \subseteq Row(H \union {None})
      BY DEF Row
  <2> QED BY <1>3, <2>2, <2>3, WiderSeq
<1>9. WalkTypes'
    BY <1>1, <1>4, <1>6, <1>7, <1>8 DEF WalkTypes
<1>10. /\ Len(rows') = Len(rows) + 1 /\ Len(stack') = Len(stack) + 1
       /\ \A i \in DOMAIN rows : rows'[i] = rows[i]
       /\ \A k \in DOMAIN stack : stack'[k] = stack[k]
       /\ rows'[Len(rows) + 1] = row
       /\ stack'[Len(stack) + 1] = frame
       /\ DOMAIN rows' = DOMAIN rows \union {Len(rows) + 1}
       /\ DOMAIN stack' = DOMAIN stack \union {Len(stack) + 1}
    BY <1>1, <1>6, <1>7, <1>8, SMTT(30)
<1>11. \A k \in 0 .. Len(path) : SubSeq(path', 1, k) = SubSeq(path, 1, k)
    BY <1>1, <1>2, <1>4, PrefixOfAppend
<1>12. SubSeq(path', 1, Len(path')) = path'
    BY <1>4
<1>13. /\ frame = [pos |-> pos, row |-> Len(rows) + 1, hashes |-> <<>>]
       /\ row = [id |-> doc.id[pos],
                 parent |-> IF stack = <<>> THEN None ELSE doc.id[stack[Len(stack)].pos],
                 depth |-> Len(stack),
                 order |-> IF stack = <<>> THEN 0 ELSE Len(stack[Len(stack)].hashes),
                 path |-> path',
                 fields |-> doc.fields[pos],
                 subtree |-> None]
    BY <1>5, <1>10
<1> HIDE DEF row, frame
<1> QED BY <1>1, <1>4, <1>9, <1>10, <1>11, <1>12, <1>13

LEMMA RowWithHash ==
    ASSUME NEW H, NEW r \in Row(H), NEW h \in H
    PROVE  LET s == [r EXCEPT !.subtree = h]
           IN  /\ s \in Row(H)
               /\ s.id = r.id /\ s.parent = r.parent /\ s.order = r.order
               /\ s.depth = r.depth /\ s.path = r.path /\ s.fields = r.fields
               /\ s.subtree = h
BY DEF Row

LEMMA FrameWithHash ==
    ASSUME NEW H, NEW f \in Frame(H), NEW h \in H
    PROVE  LET g == [f EXCEPT !.hashes = Append(@, h)]
           IN  /\ g \in Frame(H) /\ g.pos = f.pos /\ g.row = f.row
               /\ g.hashes = Append(f.hashes, h)
<1>1. Append(f.hashes, h) \in Seq(H)
    BY DEF Frame
<1> QED BY <1>1 DEF Frame

LEMMA LeaveFacts ==
    ASSUME WalkTypes, Len(path) = Len(stack),
           \A k \in DOMAIN stack : stack[k].row \in DOMAIN rows,
           Leave,
           NEW f, f = stack[Len(stack)], NEW n, n = Len(stack) - 1
    PROVE  /\ WalkTypes'
           /\ Len(stack) \in DOMAIN stack /\ n \in Nat /\ Len(stack') = n
           /\ DOMAIN stack' = 1 .. n /\ DOMAIN stack = 1 .. n + 1
           /\ Len(f.hashes) = Len(doc.kids[f.pos])
           /\ \A k \in 1 .. n :
                  /\ stack'[k].pos = stack[k].pos /\ stack'[k].row = stack[k].row
                  /\ stack'[k].hashes =
                         IF k = n THEN Append(stack[k].hashes, SubtreeHash(f))
                         ELSE stack[k].hashes
           /\ Len(rows') = Len(rows) /\ DOMAIN rows' = DOMAIN rows
           /\ \A i \in DOMAIN rows :
                  /\ rows'[i].id = rows[i].id
                  /\ rows'[i].parent = rows[i].parent
                  /\ rows'[i].order = rows[i].order
                  /\ rows'[i].depth = rows[i].depth
                  /\ rows'[i].path = rows[i].path
                  /\ rows'[i].fields = rows[i].fields
                  /\ rows'[i].subtree =
                         IF i = f.row THEN SubtreeHash(f) ELSE rows[i].subtree
           /\ path' = SubSeq(path, 1, n) /\ Len(path') = n
           /\ \A k \in 1 .. n : SubSeq(path', 1, k) = SubSeq(path, 1, k)
           /\ UNCHANGED <<phase, doc, table, entities>>
<1> DEFINE callers == Front(stack)
           hash == SubtreeHash(f)
<1>0. Last(stack) = f
    BY DEF Last
<1>1. /\ UNCHANGED <<phase, doc, table, entities>>
      /\ stack # <<>>
      /\ Len(f.hashes) = Len(doc.kids[f.pos])
      /\ rows' = [rows EXCEPT ![f.row].subtree = hash]
      /\ stack' = IF callers = <<>> THEN <<>>
                  ELSE [callers EXCEPT ![Len(callers)].hashes = Append(@, hash)]
      /\ path' = Front(path)
    BY <1>0 DEF Leave, tables
<1>2. PICK H : rows \in Seq(Row(H)) /\ stack \in Seq(Frame(H))
    BY DEF WalkTypes
<1> DEFINE G == H \union {hash}
<1>3. /\ rows \in Seq(Row(G)) /\ stack \in Seq(Frame(G))
      /\ hash \in G
  <2>1. Seq(H) \subseteq Seq(G)
      BY WiderSeq
  <2>2. Frame(H) \subseteq Frame(G)
      BY <2>1 DEF Frame
  <2>3. Row(H) \subseteq Row(G)
      BY DEF Row
  <2> HIDE DEF G, hash
  <2>4. rows \in Seq(Row(G)) /\ stack \in Seq(Frame(G))
      BY <1>2, <2>2, <2>3, WiderSeq
  <2> QED BY <2>4 DEF G
<1> HIDE DEF hash, G
<1>4. /\ Len(stack) \in DOMAIN stack
      /\ f.row \in DOMAIN rows
      /\ n = Len(callers) /\ n \in Nat
      /\ DOMAIN stack = 1 .. n + 1
      /\ callers \in Seq(Frame(G))
      /\ \A k \in 1 .. n : k \in DOMAIN stack /\ callers[k] = stack[k]
    BY <1>1, <1>3, SMTT(30) DEF Front
<1> HIDE DEF callers
<1>5. /\ rows' \in Seq(Row(G)) /\ DOMAIN rows' = DOMAIN rows /\ Len(rows') = Len(rows)
      /\ \A i \in DOMAIN rows :
             /\ rows'[i].id = rows[i].id
             /\ rows'[i].parent = rows[i].parent
             /\ rows'[i].order = rows[i].order
             /\ rows'[i].depth = rows[i].depth
             /\ rows'[i].path = rows[i].path
             /\ rows'[i].fields = rows[i].fields
             /\ rows'[i].subtree = IF i = f.row THEN hash ELSE rows[i].subtree
  <2> DEFINE r == rows[f.row]
             changed == [r EXCEPT !.subtree = hash]
  <2>1. r \in Row(G)
      BY <1>3, <1>4
  <2>2. /\ changed \in Row(G)
        /\ changed.id = r.id /\ changed.parent = r.parent /\ changed.order = r.order
        /\ changed.depth = r.depth /\ changed.path = r.path /\ changed.fields = r.fields
        /\ changed.subtree = hash
      BY <1>3, <2>1, RowWithHash
  <2>3. rows' = [rows EXCEPT ![f.row] = changed]
      BY <1>1
  <2> HIDE DEF changed
  <2> QED BY <1>3, <1>4, <2>2, <2>3, ReplaceInSeq
<1>6. /\ stack' \in Seq(Frame(G)) /\ Len(stack') = n
      /\ \A k \in 1 .. n :
             /\ stack'[k].pos = stack[k].pos
             /\ stack'[k].row = stack[k].row
             /\ stack'[k].hashes = IF k = n THEN Append(stack[k].hashes, hash)
                                   ELSE stack[k].hashes
  <2>1. CASE callers = <<>>
      BY <2>1, <1>1, <1>4
  <2>2. CASE callers # <<>>
    <3>0. PICK c : c = callers[n]
        OBVIOUS
    <3> DEFINE g == [c EXCEPT !.hashes = Append(@, hash)]
    <3>1. n \in DOMAIN callers /\ c \in Frame(G)
        BY <2>2, <1>4, <3>0
    <3>2. /\ g \in Frame(G) /\ g.pos = callers[n].pos /\ g.row = callers[n].row
          /\ g.hashes = Append(callers[n].hashes, hash)
      <4>1. hash \in G
          BY <1>3
      <4> HIDE DEF hash, callers
      <4>2. /\ g \in Frame(G) /\ g.pos = c.pos /\ g.row = c.row
            /\ g.hashes = Append(c.hashes, hash)
          BY <3>1, <4>1, FrameWithHash
      <4> QED BY <3>0, <4>2
    <3>3. stack' = [callers EXCEPT ![n] = g]
        BY <1>1, <1>4, <2>2, <3>0
    <3> HIDE DEF g
    <3>4. /\ stack' \in Seq(Frame(G)) /\ Len(stack') = n
          /\ stack'[n] = g
          /\ \A k \in 1 .. n : k # n => stack'[k] = callers[k]
        BY <3>1, <3>2, <3>3, <1>4, ReplaceInSeq
    <3>5. ASSUME NEW k \in 1 .. n
          PROVE  /\ stack'[k].pos = stack[k].pos
                 /\ stack'[k].row = stack[k].row
                 /\ stack'[k].hashes = IF k = n THEN Append(stack[k].hashes, hash)
                                       ELSE stack[k].hashes
      <4>1. CASE k = n
          BY <4>1, <3>2, <3>4, <1>4
      <4>2. CASE k # n
          BY <4>2, <3>4, <1>4
      <4> QED BY <4>1, <4>2
    <3> QED BY <3>4, <3>5
  <2> QED BY <2>1, <2>2
<1>7. path' \in Seq(NodeId) /\ Len(path') = n /\ path' = SubSeq(path, 1, n)
    BY <1>1, <1>4 DEF Front, WalkTypes
<1>8. \A k \in 1 .. n : SubSeq(path', 1, k) = SubSeq(path, 1, k)
    BY <1>4, <1>7, PrefixOfPrefix DEF WalkTypes
<1>9. WalkTypes'
    BY <1>5, <1>6, <1>7 DEF WalkTypes
<1>10. DOMAIN stack' = 1 .. n
    BY <1>6
<1> QED BY <1>1, <1>4, <1>5, <1>6, <1>7, <1>8, <1>9, <1>10 DEF hash

-----------------------------------------------------------------------------
(***************************************************************************)
(* The inductive invariant of the parser                                   *)
(*                                                                         *)
(* at[i] is the position of the node of row i.  A row is its document's    *)
(* child of an earlier row, and no node has two; a row whose call is over  *)
(* has the hashes of all its children, an open call those of its first.    *)
(***************************************************************************)

\* The call for row i is over.
Closed(i) == \A k \in DOMAIN stack : stack[k].row # i

RootRow(at, i) ==
    /\ at[i] = Root
    /\ rows[i].parent = None
    /\ rows[i].order = 0
    /\ rows[i].depth = 0
    /\ rows[i].path = <<rows[i].id>>

\* Row i is of the j-th child of the node of row h.
ChildRow(at, h, j, i) ==
    /\ at[i] = doc.kids[at[h]][j]
    /\ rows[i].parent = rows[h].id
    /\ rows[i].order + 1 = j
    /\ rows[i].depth = rows[h].depth + 1
    /\ rows[i].path = Append(rows[h].path, rows[i].id)

PlacedRow(at, i) ==
    \/ i = 1 /\ RootRow(at, i)
    \/ i # 1 /\ \E h \in DOMAIN rows : \E j \in DOMAIN doc.kids[at[h]] :
                    ChildRow(at, h, j, i)

NodeRow(at, i) ==
    /\ rows[i].id = doc.id[at[i]]
    /\ rows[i].fields = doc.fields[at[i]]
    /\ rows[i].fields # Malformed
    /\ rows[i].depth <= MaxDepth

RowsInv(at) ==
    /\ \A i, j \in DOMAIN rows : at[i] = at[j] => i = j
    /\ \A i \in DOMAIN rows : NodeRow(at, i) /\ PlacedRow(at, i)
    /\ Len(rows) <= MaxNodes

\* hashes are those of the first children of row i, whose calls are over.
ChildrenDone(at, i, hashes) ==
    \A j \in DOMAIN hashes :
        \E c \in DOMAIN rows :
            /\ Closed(c)
            /\ at[c] = doc.kids[at[i]][j]
            /\ rows[c].subtree = hashes[j]

DoneRow(at, i, hashes) ==
    /\ rows[i].subtree = <<rows[i].id, rows[i].fields, hashes>>
    /\ hashes = [j \in DOMAIN doc.kids[at[i]] |-> hashes[j]]
    /\ ChildrenDone(at, i, hashes)

DoneInv(at) ==
    \A i \in DOMAIN rows : Closed(i) => \E hashes : DoneRow(at, i, hashes)

\* The k-th open call: its row, and the part of path that it works on.
CallRow(at, k) ==
    /\ stack[k].row \in DOMAIN rows
    /\ stack[k].pos = at[stack[k].row]
    /\ rows[stack[k].row].depth + 1 = k
    /\ rows[stack[k].row].path = SubSeq(path, 1, k)

\* Its children so far are closed, but for the one whose call is open.
CallKids(at, k) ==
    LET f == stack[k]
        kids == doc.kids[f.pos]
    IN  /\ Len(f.hashes) <= Len(kids)
        /\ ChildrenDone(at, f.row, f.hashes)
        /\ k + 1 \in DOMAIN stack =>
               /\ Len(f.hashes) < Len(kids)
               /\ stack[k + 1].pos = kids[Len(f.hashes) + 1]
        /\ \A i \in DOMAIN rows : \A j \in DOMAIN kids :
               at[i] = kids[j] =>
                   \/ j <= Len(f.hashes)
                   \/ k + 1 \in DOMAIN stack /\ stack[k + 1].row = i

CallsInv(at) ==
    /\ Len(path) = Len(stack)
    /\ stack # <<>> => stack[1].row = 1
    /\ \A k \in DOMAIN stack : CallRow(at, k) /\ CallKids(at, k)

WalkInv(at) ==
    /\ at \in [DOMAIN rows -> Positions(doc)]
    /\ RowsInv(at) /\ DoneInv(at) /\ CallsInv(at)

Walking == WalkTypes /\ doc \in Documents /\ \E at : WalkInv(at)

\* A call that is entered is for a node that has no row yet.
LEMMA CalledIsNew ==
    ASSUME WalkTypes, doc \in Documents, NEW at, WalkInv(at),
           NEW pos \in Positions(doc), Calling(pos)
    PROVE  /\ \A i \in DOMAIN rows : at[i] # pos
           /\ stack = <<>> <=> rows = <<>>
           /\ stack = <<>> => pos = Root
           /\ stack # <<>> =>
                  LET f == stack[Len(stack)]
                  IN  /\ Len(stack) \in DOMAIN stack /\ Len(f.hashes) \in Nat
                      /\ f.pos \in Positions(doc)
                      /\ Len(f.hashes) + 1 \in DOMAIN doc.kids[f.pos]
                      /\ pos = doc.kids[f.pos][Len(f.hashes) + 1]
<1>1. PICK H : rows \in Seq(Row(H)) /\ stack \in Seq(Frame(H))
    BY DEF WalkTypes
<1>2. stack = <<>> <=> rows = <<>>
  <2>1. ASSUME rows = <<>>, stack # <<>> PROVE FALSE
    <3>1. Len(stack) \in DOMAIN stack
        BY <1>1, <2>1
    <3>2. stack[Len(stack)].row \in DOMAIN rows
        BY <3>1 DEF WalkInv, CallsInv, CallRow
    <3> QED BY <2>1, <3>2
  <2>2. ASSUME rows # <<>> PROVE stack # <<>>
      BY <2>2 DEF Calling
  <2> QED BY <2>1, <2>2
<1>3. CASE stack = <<>>
    BY <1>1, <1>2, <1>3 DEF Calling
<1>4. CASE stack # <<>>
  <2> DEFINE k == Len(stack)
             f == stack[k]
  <2>1. k \in DOMAIN stack /\ f \in Frame(H) /\ Last(stack) = f
      BY <1>1, <1>4 DEF Last
  <2>2. /\ Len(f.hashes) < Len(doc.kids[f.pos])
        /\ pos = doc.kids[f.pos][Len(f.hashes) + 1]
      BY <1>2, <1>4, <2>1 DEF Calling
  <2>3. Len(f.hashes) \in Nat
      BY <2>1 DEF Frame
  <2>4. f.row \in DOMAIN rows /\ f.pos = at[f.row] /\ CallKids(at, k)
      BY <2>1 DEF WalkInv, CallsInv, CallRow
  <2>5. f.pos \in Positions(doc)
      BY <2>4 DEF WalkInv
  <2>6. Len(f.hashes) + 1 \in DOMAIN doc.kids[f.pos]
      BY <2>2, <2>3, <2>5, KidPlaces
  <2>7. k + 1 \notin DOMAIN stack
      BY <1>1
  <2>8. \A i \in DOMAIN rows : \A j \in DOMAIN doc.kids[f.pos] :
            at[i] = doc.kids[f.pos][j] =>
                j <= Len(f.hashes) \/ (k + 1 \in DOMAIN stack /\ stack[k + 1].row = i)
      BY <2>4 DEF CallKids
  <2> HIDE DEF f, k
  <2>9. \A i \in DOMAIN rows : at[i] # pos
      BY <2>2, <2>3, <2>6, <2>7, <2>8
  <2> QED BY <1>2, <1>4, <2>1, <2>2, <2>3, <2>5, <2>6, <2>9 DEF f, k
<1> QED BY <1>3, <1>4

\* walk_node opens a node.
LEMMA EnterKeepsWalk ==
    ASSUME WalkTypes, doc \in Documents, NEW at, WalkInv(at),
           NEW pos \in Positions(doc), Enter(pos),
           NEW at2, at2 = [i \in DOMAIN rows \union {Len(rows) + 1} |->
                              IF i \in DOMAIN rows THEN at[i] ELSE pos]
    PROVE  WalkTypes' /\ WalkInv(at2)'
<1>0. PICK N, M, f : N = Len(rows) + 1 /\ M = Len(stack) + 1 /\ f = stack[Len(stack)]
    OBVIOUS
<1>1. PICK H : rows \in Seq(Row(H)) /\ stack \in Seq(Frame(H))
    BY DEF WalkTypes
<1>2. /\ Len(rows) \in Nat /\ DOMAIN rows = 1 .. Len(rows)
      /\ Len(stack) \in Nat /\ DOMAIN stack = 1 .. Len(stack)
      /\ at \in [DOMAIN rows -> Positions(doc)]
      /\ RowsInv(at) /\ DoneInv(at) /\ CallsInv(at)
      /\ Len(path) = Len(stack)
      /\ path \in Seq(NodeId)
    BY <1>1 DEF WalkInv, CallsInv, WalkTypes
<1>3. \A k \in DOMAIN stack :
          /\ stack[k].pos \in Positions(doc)
          /\ CallRow(at, k) /\ CallKids(at, k)
    BY <1>2 DEF CallsInv, CallRow
<1>4. /\ Calling(pos) /\ Len(stack) <= MaxDepth /\ Len(rows) < MaxNodes
      /\ doc.fields[pos] # Malformed
    BY DEF Enter, Acceptable
<1>5. /\ \A i \in DOMAIN rows : at[i] # pos
      /\ stack = <<>> <=> rows = <<>>
      /\ stack = <<>> => pos = Root
      /\ stack # <<>> =>
             /\ Len(stack) \in DOMAIN stack /\ Len(f.hashes) \in Nat
             /\ f.pos \in Positions(doc)
             /\ Len(f.hashes) + 1 \in DOMAIN doc.kids[f.pos]
             /\ pos = doc.kids[f.pos][Len(f.hashes) + 1]
    BY <1>0, <1>4, CalledIsNew
<1>6. /\ WalkTypes'
      /\ Len(rows') = N /\ DOMAIN rows' = DOMAIN rows \union {N}
      /\ \A i \in DOMAIN rows : rows'[i] = rows[i]
      /\ rows'[N] =
             [id |-> doc.id[pos],
              parent |-> IF stack = <<>> THEN None ELSE doc.id[f.pos],
              depth |-> Len(stack),
              order |-> IF stack = <<>> THEN 0 ELSE Len(f.hashes),
              path |-> path',
              fields |-> doc.fields[pos],
              subtree |-> None]
      /\ Len(stack') = M
      /\ DOMAIN stack' = DOMAIN stack \union {M}
      /\ \A k \in DOMAIN stack : stack'[k] = stack[k]
      /\ stack'[M] = [pos |-> pos, row |-> N, hashes |-> <<>>]
      /\ path' = Append(path, doc.id[pos]) /\ Len(path') = Len(path) + 1
      /\ \A k \in 0 .. Len(path) : SubSeq(path', 1, k) = SubSeq(path, 1, k)
      /\ SubSeq(path', 1, Len(path')) = path'
      /\ doc' = doc
    BY <1>0, <1>3, EnterFacts
<1>7. /\ rows'[N].id = doc.id[pos] /\ rows'[N].depth = Len(stack)
      /\ rows'[N].parent = IF stack = <<>> THEN None ELSE doc.id[f.pos]
      /\ rows'[N].order = IF stack = <<>> THEN 0 ELSE Len(f.hashes)
      /\ rows'[N].path = path' /\ rows'[N].fields = doc.fields[pos]
      /\ stack'[M].pos = pos /\ stack'[M].row = N /\ stack'[M].hashes = <<>>
    BY <1>6
<1>8. /\ \A i \in DOMAIN rows : at2[i] = at[i] /\ i # N
      /\ at2[N] = pos
      /\ at2 \in [DOMAIN rows' -> Positions(doc)]
    BY <1>0, <1>2, <1>6
<1>9. /\ \A k \in DOMAIN stack : k # M
      /\ N \notin DOMAIN rows /\ M \notin DOMAIN stack
    BY <1>0, <1>2
<1>10. RowsInv(at2)'
  <2>1. \A i, j \in DOMAIN rows' : at2[i] = at2[j] => i = j
      BY <1>2, <1>5, <1>6, <1>8 DEF RowsInv
  <2>2. ASSUME NEW i \in DOMAIN rows
        PROVE  NodeRow(at2, i)' /\ PlacedRow(at2, i)'
    <3>1. NodeRow(at, i) /\ PlacedRow(at, i)
        BY <1>2 DEF RowsInv
    <3>2. NodeRow(at2, i)'
        BY <3>1, <1>6, <1>8 DEF NodeRow
    <3>3. ASSUME NEW h \in DOMAIN rows, NEW j \in DOMAIN doc.kids[at[h]],
                 ChildRow(at, h, j, i)
          PROVE  ChildRow(at2, h, j, i)'
        BY <3>3, <1>6, <1>8 DEF ChildRow
    <3>4. RootRow(at, i) => RootRow(at2, i)'
        BY <1>6, <1>8 DEF RootRow
    <3> QED BY <3>1, <3>2, <3>3, <3>4, <1>6, <1>8 DEF PlacedRow
  <2>3. NodeRow(at2, N)'
    <3>1. Len(stack) <= MaxDepth
        BY <1>4
    <3> QED BY <3>1, <1>4, <1>6, <1>7, <1>8 DEF NodeRow
  <2>4. PlacedRow(at2, N)'
    <3>1. CASE stack = <<>>
      <4>1. N = 1 /\ pos = Root /\ path' = <<doc.id[pos]>>
          BY <3>1, <1>0, <1>2, <1>5, <1>6
      <4> QED BY <3>1, <4>1, <1>6, <1>7, <1>8 DEF PlacedRow, RootRow
    <3>2. CASE stack # <<>>
      <4>0. PICK h, j : h = f.row /\ j = Len(f.hashes) + 1
          OBVIOUS
      <4>1. h \in DOMAIN rows /\ f.pos = at[h] /\ rows[h].depth + 1 = Len(stack)
            /\ rows[h].path = SubSeq(path, 1, Len(stack))
          BY <3>2, <4>0, <1>0, <1>3, <1>5 DEF CallRow
      <4>2. rows[h].path = path
          BY <4>1, <1>2
      <4>3. rows[h].id = doc.id[f.pos] /\ rows[h].depth \in Nat
        <5>1. NodeRow(at, h)
            BY <4>1, <1>2 DEF RowsInv
        <5>2. rows[h] \in Row(H)
            BY <4>1, <1>1
        <5>3. rows[h].depth \in Nat
            BY <5>2 DEF Row
        <5> QED BY <4>1, <5>1, <5>3 DEF NodeRow
      <4>4. j \in DOMAIN doc.kids[at[h]] /\ pos = doc.kids[at[h]][j] /\ Len(f.hashes) \in Nat
          BY <3>2, <4>0, <4>1, <1>5
      <4>5. N # 1
          BY <4>1, <1>0, <1>2
      <4>6. ChildRow(at2, h, j, N)'
        <5>1. rows'[N].order + 1 = j
            BY <3>2, <4>0, <4>4, <1>7
        <5>2. rows'[N].parent = rows'[h].id
            BY <3>2, <4>1, <4>3, <1>6, <1>7
        <5>3. rows'[N].depth = rows'[h].depth + 1
            BY <4>1, <4>3, <1>6, <1>7
        <5>4. rows'[N].path = Append(rows'[h].path, rows'[N].id)
            BY <4>1, <4>2, <1>6, <1>7
        <5>5. at2[N] = doc'.kids[at2[h]][j]
            BY <4>1, <4>4, <1>6, <1>8
        <5> QED BY <5>1, <5>2, <5>3, <5>4, <5>5 DEF ChildRow
      <4> QED BY <4>1, <4>4, <4>5, <4>6, <1>6, <1>8 DEF PlacedRow
    <3> QED BY <3>1, <3>2
  <2>5. Len(rows') <= MaxNodes
      BY <1>0, <1>2, <1>4, <1>6, LimitsAssumption
  <2> QED BY <2>1, <2>2, <2>3, <2>4, <2>5, <1>6 DEF RowsInv
<1>11. \A i \in DOMAIN rows : Closed(i) <=> Closed(i)'
    BY <1>6, <1>7, <1>9 DEF Closed
<1>12. ~Closed(N)'
    BY <1>6, <1>7 DEF Closed
<1>13. ASSUME NEW i \in DOMAIN rows, NEW hashes, ChildrenDone(at, i, hashes)
       PROVE  ChildrenDone(at2, i, hashes)'
    BY <1>13, <1>6, <1>8, <1>11 DEF ChildrenDone
<1>14. DoneInv(at2)'
  <2> SUFFICES ASSUME NEW i \in DOMAIN rows', Closed(i)'
               PROVE  \E hashes : DoneRow(at2, i, hashes)'
      BY DEF DoneInv
  <2>1. i \in DOMAIN rows /\ Closed(i)
      BY <1>6, <1>11, <1>12
  <2>2. PICK hashes : DoneRow(at, i, hashes)
      BY <2>1, <1>2 DEF DoneInv
  <2>3. DoneRow(at2, i, hashes)'
      BY <2>1, <2>2, <1>6, <1>8, <1>13 DEF DoneRow
  <2> QED BY <2>3
<1>15. CallsInv(at2)'
  <2>1. ASSUME NEW k \in DOMAIN stack
        PROVE  CallRow(at2, k)' /\ CallKids(at2, k)'
    <3>1. CallRow(at, k) /\ CallKids(at, k) /\ stack'[k] = stack[k]
        BY <1>3, <1>6
    <3>2. CallRow(at2, k)'
      <4>1. k \in 0 .. Len(path)
          BY <1>2
      <4> QED BY <3>1, <4>1, <1>6, <1>8 DEF CallRow
    <3>0. PICK g, kids : g = stack[k] /\ kids = doc.kids[g.pos]
        OBVIOUS
    <3>3. /\ Len(g.hashes) <= Len(kids)
          /\ ChildrenDone(at, g.row, g.hashes)
          /\ k + 1 \in DOMAIN stack =>
                 /\ Len(g.hashes) < Len(kids)
                 /\ stack[k + 1].pos = kids[Len(g.hashes) + 1]
          /\ \A i \in DOMAIN rows : \A j \in DOMAIN kids :
                 at[i] = kids[j] =>
                     j <= Len(g.hashes) \/ (k + 1 \in DOMAIN stack /\ stack[k + 1].row = i)
        BY <3>0, <3>1 DEF CallKids
    <3>4. g.row \in DOMAIN rows /\ g.pos = at[g.row] /\ rows[g.row].depth + 1 = k
          /\ g.pos \in Positions(doc)
        BY <3>0, <3>1, <1>3 DEF CallRow
    <3>5. ChildrenDone(at2, g.row, g.hashes)'
        BY <3>3, <3>4, <1>13
    <3>6. k = Len(stack) => k + 1 = M /\ M \in DOMAIN stack' /\ g = f
        BY <3>0, <1>0, <1>6
    <3>7. k # Len(stack) => k + 1 \in DOMAIN stack /\ stack'[k + 1] = stack[k + 1]
                            /\ k + 1 \in DOMAIN stack'
        BY <1>2, <1>6
    <3>8. stack # <<>>
        BY <1>2
    <3>9. k + 1 \in DOMAIN stack' =>
              /\ Len(g.hashes) < Len(kids)
              /\ stack'[k + 1].pos = kids[Len(g.hashes) + 1]
      <4>1. CASE k = Len(stack)
        <5>1. /\ Len(f.hashes) + 1 \in DOMAIN doc.kids[f.pos]
              /\ pos = doc.kids[f.pos][Len(f.hashes) + 1] /\ Len(f.hashes) \in Nat
              /\ f.pos \in Positions(doc)
            BY <3>8, <1>5
        <5>2. Len(f.hashes) < Len(doc.kids[f.pos])
            BY <5>1, DocumentIsTree
        <5> QED BY <4>1, <5>1, <5>2, <3>0, <3>6, <1>7
      <4>2. CASE k # Len(stack)
          BY <4>2, <3>3, <3>7
      <4> QED BY <4>1, <4>2
    <3>10. ASSUME NEW i \in DOMAIN rows', NEW j \in DOMAIN kids, at2[i] = kids[j]
           PROVE  j <= Len(g.hashes) \/ (k + 1 \in DOMAIN stack' /\ stack'[k + 1].row = i)
      <4>1. CASE i \in DOMAIN rows
        <5>1. at[i] = kids[j]
            BY <3>10, <4>1, <1>8
        <5>2. j <= Len(g.hashes) \/ (k + 1 \in DOMAIN stack /\ stack[k + 1].row = i)
            BY <3>3, <4>1, <5>1
        <5> QED BY <5>2, <1>6
      <4>2. CASE i \notin DOMAIN rows
        <5>1. i = N /\ kids[j] = pos
            BY <3>10, <4>2, <1>6, <1>8
        <5>2. /\ Len(f.hashes) + 1 \in DOMAIN doc.kids[f.pos]
              /\ pos = doc.kids[f.pos][Len(f.hashes) + 1]
              /\ f.pos \in Positions(doc)
            BY <3>8, <1>5
        <5>3. g.pos = f.pos
            BY <5>1, <5>2, <3>0, <3>4, DocumentIsTree
        <5>4. k = Len(stack)
          <6>1. Len(stack) \in DOMAIN stack
              BY <3>8, <1>5
          <6>2. f.row \in DOMAIN rows /\ f.pos = at[f.row]
                /\ rows[f.row].depth + 1 = Len(stack)
              BY <6>1, <1>0, <1>3 DEF CallRow
          <6>3. f.row = g.row
              BY <6>2, <5>3, <3>4, <1>2 DEF RowsInv
          <6> QED BY <6>2, <6>3, <3>4
        <5> QED BY <5>1, <5>4, <3>6, <1>7
      <4> QED BY <4>1, <4>2
    <3>11. CallKids(at2, k)'
        BY <3>0, <3>1, <3>3, <3>5, <3>9, <3>10, <1>6 DEF CallKids
    <3> QED BY <3>2, <3>11
  <2>2. CallRow(at2, M)'
    <3>1. N \in DOMAIN rows' /\ stack'[M].row = N /\ stack'[M].pos = at2[N]
        BY <1>6, <1>7, <1>8
    <3>2. rows'[N].depth + 1 = M
        BY <1>0, <1>7
    <3>3. rows'[N].path = SubSeq(path', 1, M)
        BY <1>0, <1>2, <1>6, <1>7
    <3> QED BY <3>1, <3>2, <3>3 DEF CallRow
  <2>3. CallKids(at2, M)'
    <3>0. PICK kids : kids = doc.kids[pos]
        OBVIOUS
    <3>1. kids \in Seq(Positions(doc)) /\ Len(kids) \in Nat
          /\ \A j \in DOMAIN kids : kids[j] > pos /\ pos \in Nat
        BY <3>0, DocumentIsTree
    <3>2. ASSUME NEW i \in DOMAIN rows', NEW j \in DOMAIN kids, at2[i] = kids[j]
          PROVE  FALSE
      <4>1. CASE i = N
        <5>1. kids[j] = pos
            BY <3>2, <4>1, <1>8
        <5> QED BY <5>1, <3>1
      <4>2. CASE i # N
        <5>1. i \in DOMAIN rows /\ at[i] = kids[j] /\ PlacedRow(at, i)
            BY <3>2, <4>2, <1>2, <1>6, <1>8 DEF RowsInv
        <5>2. at[i] # Root
            BY <5>1, <3>1, DocumentIsTree DEF Root
        <5>3. PICK h \in DOMAIN rows : \E l \in DOMAIN doc.kids[at[h]] :
                  at[i] = doc.kids[at[h]][l]
            BY <5>1, <5>2 DEF PlacedRow, RootRow, ChildRow
        <5>4. PICK l \in DOMAIN doc.kids[at[h]] : at[i] = doc.kids[at[h]][l]
            BY <5>3
        <5>5. at[h] \in Positions(doc) /\ j \in DOMAIN doc.kids[pos]
              /\ doc.kids[pos][j] = doc.kids[at[h]][l]
            BY <5>1, <5>4, <3>0, <1>2
        <5>6. at[h] = pos
            BY <5>5, DocumentIsTree
        <5> QED BY <5>6, <1>5
      <4> QED BY <4>1, <4>2
    <3>3. M + 1 \notin DOMAIN stack'
        BY <1>0, <1>2, <1>6
    <3>4. ChildrenDone(at2, stack[M].row, stack[M].hashes)'
        BY <1>7 DEF ChildrenDone
    <3>5. stack'[M].hashes = <<>> /\ doc'.kids[stack'[M].pos] = kids
        BY <3>0, <1>6, <1>7
    <3>6. Len(<<>>) <= Len(kids)
        BY <3>1
    <3>7. Len(stack'[M].hashes) <= Len(kids)
        BY <3>5, <3>6
    <3> QED BY <3>2, <3>3, <3>4, <3>5, <3>7 DEF CallKids
  <2>4. Len(path') = Len(stack')
      BY <1>0, <1>2, <1>6
  <2>5. stack'[1].row = 1
    <3>1. CASE stack = <<>>
      <4>1. M = 1 /\ N = 1
          BY <3>1, <1>0, <1>2, <1>5
      <4> QED BY <4>1, <1>7
    <3>2. CASE stack # <<>>
      <4>1. 1 \in DOMAIN stack /\ stack[1].row = 1
          BY <3>2, <1>2, <1>5 DEF CallsInv
      <4> QED BY <4>1, <1>6
    <3> QED BY <3>1, <3>2
  <2> QED BY <2>1, <2>2, <2>3, <2>4, <2>5, <1>6 DEF CallsInv
<1>16. (at2 \in [DOMAIN rows -> Positions(doc)])'
    BY <1>6, <1>8
<1> QED BY <1>6, <1>10, <1>14, <1>15, <1>16 DEF WalkInv

\* walk_node returns: its row gets its hash, and the caller the same.
LEMMA LeaveKeepsWalk ==
    ASSUME WalkTypes, doc \in Documents, NEW at, WalkInv(at), Leave
    PROVE  WalkTypes' /\ WalkInv(at)'
<1>1. PICK H : rows \in Seq(Row(H)) /\ stack \in Seq(Frame(H))
    BY DEF WalkTypes
<1>2. PICK f, n, hash :
          f = stack[Len(stack)] /\ n = Len(stack) - 1 /\ hash = SubtreeHash(f)
    OBVIOUS
<1>3. /\ at \in [DOMAIN rows -> Positions(doc)]
      /\ RowsInv(at) /\ DoneInv(at) /\ CallsInv(at)
      /\ Len(path) = Len(stack) /\ stack # <<>>
      /\ \A k \in DOMAIN stack : CallRow(at, k) /\ CallKids(at, k)
      /\ \A k \in DOMAIN stack : stack[k].row \in DOMAIN rows
      /\ \A i \in DOMAIN rows : NodeRow(at, i) /\ PlacedRow(at, i)
    BY DEF WalkInv, CallsInv, CallRow, RowsInv, Leave
<1>4. /\ WalkTypes'
      /\ Len(stack) \in DOMAIN stack /\ n \in Nat /\ Len(stack') = n
      /\ DOMAIN stack' = 1 .. n /\ DOMAIN stack = 1 .. n + 1
      /\ Len(f.hashes) = Len(doc.kids[f.pos])
      /\ \A k \in 1 .. n :
             /\ stack'[k].pos = stack[k].pos /\ stack'[k].row = stack[k].row
             /\ stack'[k].hashes = IF k = n THEN Append(stack[k].hashes, hash)
                                   ELSE stack[k].hashes
      /\ Len(rows') = Len(rows) /\ DOMAIN rows' = DOMAIN rows
      /\ \A i \in DOMAIN rows :
             /\ rows'[i].id = rows[i].id
             /\ rows'[i].parent = rows[i].parent
             /\ rows'[i].order = rows[i].order
             /\ rows'[i].depth = rows[i].depth
             /\ rows'[i].path = rows[i].path
             /\ rows'[i].fields = rows[i].fields
             /\ rows'[i].subtree = IF i = f.row THEN hash ELSE rows[i].subtree
      /\ path' = SubSeq(path, 1, n) /\ Len(path') = n
      /\ \A k \in 1 .. n : SubSeq(path', 1, k) = SubSeq(path, 1, k)
      /\ doc' = doc
    BY <1>2, <1>3, LeaveFacts
<1>5. /\ Len(stack) = n + 1 /\ f = stack[n + 1]
      /\ f.row \in DOMAIN rows /\ f.pos = at[f.row] /\ f.pos \in Positions(doc)
      /\ rows[f.row].depth + 1 = n + 1
      /\ CallKids(at, n + 1)
  <2>1. Len(stack) = n + 1 /\ n + 1 \in DOMAIN stack /\ f = stack[n + 1]
      BY <1>1, <1>2, <1>4
  <2>2. CallRow(at, n + 1) /\ CallKids(at, n + 1)
      BY <2>1, <1>3
  <2> QED BY <2>1, <2>2, <1>3 DEF CallRow
<1>6. RowsInv(at)'
  <2>1. ASSUME NEW i \in DOMAIN rows
        PROVE  NodeRow(at, i)' /\ PlacedRow(at, i)'
    <3>1. NodeRow(at, i) /\ PlacedRow(at, i)
        BY <1>3
    <3>2. NodeRow(at, i)'
        BY <3>1, <1>4 DEF NodeRow
    <3>3. \A h \in DOMAIN rows : \A j : ChildRow(at, h, j, i) => ChildRow(at, h, j, i)'
      <4> SUFFICES ASSUME NEW h \in DOMAIN rows, NEW j, ChildRow(at, h, j, i)
                   PROVE  ChildRow(at, h, j, i)'
          OBVIOUS
      <4>1. /\ rows'[i].id = rows[i].id /\ rows'[i].parent = rows[i].parent
            /\ rows'[i].order = rows[i].order /\ rows'[i].depth = rows[i].depth
            /\ rows'[i].path = rows[i].path
          BY <1>4
      <4>2. /\ rows'[h].id = rows[h].id /\ rows'[h].depth = rows[h].depth
            /\ rows'[h].path = rows[h].path
          BY <1>4
      <4>3. doc' = doc
          BY <1>4
      <4> QED BY <4>1, <4>2, <4>3 DEF ChildRow
    <3>4. RootRow(at, i) => RootRow(at, i)'
        BY <1>4 DEF RootRow
    <3> QED BY <3>1, <3>2, <3>3, <3>4, <1>4 DEF PlacedRow
  <2> QED BY <2>1, <1>3, <1>4 DEF RowsInv
<1>7. \A k \in 1 .. n : stack[k].row # f.row
  <2> SUFFICES ASSUME NEW k \in 1 .. n, stack[k].row = f.row PROVE FALSE
      OBVIOUS
  <2>1. k \in DOMAIN stack
      BY <1>4
  <2>2. rows[f.row].depth + 1 = k
      BY <2>1, <1>3 DEF CallRow
  <2> QED BY <2>2, <1>4, <1>5
<1>8. /\ Closed(f.row)' /\ ~Closed(f.row)
      /\ \A i \in DOMAIN rows : Closed(i)' <=> Closed(i) \/ i = f.row
  <2>1. \A i \in DOMAIN rows : Closed(i)' <=> \A k \in 1 .. n : stack[k].row # i
      BY <1>4 DEF Closed
  <2>2. \A i \in DOMAIN rows :
            Closed(i) <=> f.row # i /\ \A k \in 1 .. n : stack[k].row # i
    <3>1. DOMAIN stack = 1 .. n \union {n + 1} /\ f.row = stack[n + 1].row
        BY <1>4, <1>5
    <3> QED BY <3>1 DEF Closed
  <2> QED BY <2>1, <2>2, <1>5, <1>7
<1>9. ASSUME NEW i, NEW hashes, ChildrenDone(at, i, hashes)
      PROVE  ChildrenDone(at, i, hashes)'
    BY <1>9, <1>4, <1>8 DEF ChildrenDone
<1>10. DoneInv(at)'
  <2> SUFFICES ASSUME NEW i \in DOMAIN rows', Closed(i)'
               PROVE  \E hashes : DoneRow(at, i, hashes)'
      BY DEF DoneInv
  <2>1. i \in DOMAIN rows
      BY <1>4
  <2>2. CASE Closed(i)
    <3>1. PICK hashes : DoneRow(at, i, hashes)
        BY <2>1, <2>2, <1>3 DEF DoneInv
    <3>2. i # f.row
        BY <2>2, <1>8
    <3>3. DoneRow(at, i, hashes)'
        BY <2>1, <3>1, <3>2, <1>4, <1>9 DEF DoneRow
    <3> QED BY <3>3
  <2>3. CASE i = f.row
    <3>1. PICK hashes : hashes = f.hashes
        OBVIOUS
    <3>2. ChildrenDone(at, i, hashes)'
      <4>1. ChildrenDone(at, i, hashes)
          BY <2>3, <3>1, <1>5 DEF CallKids
      <4> QED BY <4>1, <1>9
    <3>3. hashes = [j \in DOMAIN doc.kids[at[i]] |-> hashes[j]]
      <4>1. f \in Frame(H)
          BY <1>1, <1>2, <1>4
      <4>2. hashes \in Seq(H) /\ Len(hashes) = Len(doc.kids[f.pos])
          BY <3>1, <4>1, <1>4 DEF Frame
      <4>3. DOMAIN hashes = DOMAIN doc.kids[at[i]]
        <5>1. DOMAIN doc.kids[f.pos] = 1 .. Len(doc.kids[f.pos])
            BY <1>5, DocumentIsTree
        <5> QED BY <4>2, <5>1, <2>3, <1>5
      <4> QED BY <4>2, <4>3
    <3>4. rows'[i].subtree = <<rows'[i].id, rows'[i].fields, hashes>>
      <4>1. hash = <<doc.id[f.pos], doc.fields[f.pos], hashes>>
          BY <3>1, <1>2 DEF SubtreeHash
      <4>2. rows[i].id = doc.id[f.pos] /\ rows[i].fields = doc.fields[f.pos]
          BY <2>1, <2>3, <1>3, <1>5 DEF NodeRow
      <4> QED BY <2>1, <2>3, <4>1, <4>2, <1>4
    <3> QED BY <3>2, <3>3, <3>4, <1>4 DEF DoneRow
  <2> QED BY <2>1, <2>2, <2>3, <1>8
<1>11. ASSUME NEW k \in 1 .. n
       PROVE  CallRow(at, k)' /\ CallKids(at, k)'
  <2>0. PICK g, kids : g = stack[k] /\ kids = doc.kids[g.pos]
      OBVIOUS
  <2>1. k \in DOMAIN stack /\ CallRow(at, k) /\ CallKids(at, k)
    <3>1. n \in Nat /\ DOMAIN stack = 1 .. n + 1
        BY <1>4
    <3>2. k \in DOMAIN stack
        BY <3>1
    <3> QED BY <3>2, <1>3
  <2>2. CallRow(at, k)'
      BY <2>1, <1>4, SMTT(30) DEF CallRow
  <2>3. /\ Len(g.hashes) <= Len(kids)
        /\ ChildrenDone(at, g.row, g.hashes)
        /\ k + 1 \in DOMAIN stack =>
               /\ Len(g.hashes) < Len(kids)
               /\ stack[k + 1].pos = kids[Len(g.hashes) + 1]
        /\ \A i \in DOMAIN rows : \A j \in DOMAIN kids :
               at[i] = kids[j] =>
                   j <= Len(g.hashes) \/ (k + 1 \in DOMAIN stack /\ stack[k + 1].row = i)
      BY <2>0, <2>1 DEF CallKids
  <2>4. /\ g.row \in DOMAIN rows /\ g.pos = at[g.row] /\ g.pos \in Positions(doc)
        /\ g \in Frame(H) /\ g.hashes \in Seq(H) /\ Len(g.hashes) \in Nat
    <3>1. g.row \in DOMAIN rows /\ g.pos = at[g.row]
        BY <2>0, <2>1 DEF CallRow
    <3>2. g \in Frame(H)
        BY <2>0, <2>1, <1>1
    <3>3. g.hashes \in Seq(H)
        BY <3>2 DEF Frame
    <3> QED BY <3>1, <3>2, <3>3, <1>3
  <2>5. k + 1 \in DOMAIN stack
      BY <1>4
  <2>6. doc'.kids[stack'[k].pos] = kids /\ stack'[k].row = g.row
      BY <2>0, <1>4
  <2>7. CASE k # n
    <3>1. stack'[k].hashes = g.hashes /\ k + 1 \in 1 .. n
        BY <2>0, <2>7, <1>4
    <3>2. ChildrenDone(at, stack[k].row, stack[k].hashes)'
      <4>1. ChildrenDone(at, g.row, g.hashes)'
          BY <2>3, <1>9
      <4> QED BY <4>1, <3>1, <2>6 DEF ChildrenDone
    <3> QED BY <2>2, <2>3, <2>5, <2>6, <3>1, <3>2, <1>4 DEF CallKids
  <2>8. CASE k = n
    <3>1. /\ stack'[k].hashes = Append(g.hashes, hash)
          /\ k + 1 \notin DOMAIN stack'
          /\ stack[k + 1] = f
      <4>1. stack'[k].hashes = Append(stack[k].hashes, hash)
          BY <2>8, <1>4
      <4>2. k + 1 = n + 1 /\ n + 1 \notin 1 .. n
          BY <2>8, <1>4
      <4> QED BY <4>1, <4>2, <2>0, <1>4, <1>5
    <3>2. PICK l, hashes : l = Len(g.hashes) + 1 /\ hashes = Append(g.hashes, hash)
        OBVIOUS
    <3>3. /\ l <= Len(kids) /\ f.pos = kids[l] /\ l \in DOMAIN kids
          /\ DOMAIN kids = 1 .. Len(kids) /\ Len(kids) \in Nat
      <4>1. DOMAIN kids = 1 .. Len(kids) /\ Len(kids) \in Nat
          BY <2>0, <2>4, KidPlaces
      <4> QED BY <4>1, <2>3, <2>4, <2>5, <3>1, <3>2
    <3>4. /\ DOMAIN hashes = 1 .. l /\ Len(hashes) = l /\ DOMAIN g.hashes = 1 .. l - 1
          /\ \A j \in 1 .. l - 1 : hashes[j] = g.hashes[j]
          /\ hashes[l] = hash
      <4>1. g.hashes \in Seq(H \union {hash}) /\ hash \in H \union {hash}
          BY <2>4, WiderSeq
      <4> QED BY <3>2, <4>1
    <3>5. ChildrenDone(at, g.row, hashes)'
      <4>1. ChildrenDone(at, g.row, g.hashes)'
          BY <2>3, <1>9
      <4>2. Closed(f.row)' /\ at[f.row] = kids[l] /\ rows'[f.row].subtree = hashes[l]
            /\ f.row \in DOMAIN rows'
          BY <3>3, <3>4, <1>4, <1>5, <1>8
      <4>3. doc'.kids[at[g.row]] = kids
          BY <2>0, <2>4, <1>4
      <4>4. ASSUME NEW j \in 1 .. l
            PROVE  \E c \in DOMAIN rows' :
                       /\ Closed(c)'
                       /\ at[c] = doc'.kids[at[g.row]][j]
                       /\ rows'[c].subtree = hashes[j]
        <5>1. CASE j = l
            BY <5>1, <4>2, <4>3
        <5>2. CASE j # l
          <6>1. j \in 1 .. l - 1 /\ hashes[j] = g.hashes[j]
              BY <5>2, <3>3, <3>4
          <6> QED BY <6>1, <3>4, <4>1 DEF ChildrenDone
        <5> QED BY <5>1, <5>2
      <4> QED BY <4>4, <3>4 DEF ChildrenDone
    <3>6. ChildrenDone(at, stack[k].row, stack[k].hashes)'
        BY <3>1, <3>2, <3>5, <2>6 DEF ChildrenDone
    <3>7. ASSUME NEW i \in DOMAIN rows, NEW j \in DOMAIN kids, at[i] = kids[j]
          PROVE  j <= l
      <4>1. CASE j <= Len(g.hashes)
          BY <4>1, <3>2, <3>3, <2>4
      <4>2. CASE stack[k + 1].row = i
        <5>1. kids[j] = kids[l]
            BY <4>2, <3>1, <3>3, <3>7, <1>5
        <5>2. j = l
            BY <5>1, <3>3, <2>0, <2>4, KidsOnce
        <5> QED BY <5>2, <3>3
      <4> QED BY <4>1, <4>2, <2>3, <3>7
    <3>8. Len(stack'[k].hashes) = l
        BY <3>1, <3>2, <3>4
    <3> QED BY <2>2, <2>6, <3>1, <3>3, <3>6, <3>7, <3>8, <1>4 DEF CallKids
  <2> QED BY <2>7, <2>8
<1>12. CallsInv(at)'
  <2>1. stack' # <<>> => stack'[1].row = 1
    <3>1. CASE n = 0
      <4>1. DOMAIN stack' = {}
          BY <3>1, <1>4
      <4>2. PICK G : stack' \in Seq(Frame(G))
          BY <1>4 DEF WalkTypes
      <4> QED BY <4>1, <4>2
    <3>2. CASE n # 0
        BY <3>2, <1>3, <1>4 DEF CallsInv
    <3> QED BY <3>1, <3>2
  <2> QED BY <2>1, <1>4, <1>11 DEF CallsInv
<1>13. (at \in [DOMAIN rows -> Positions(doc)])'
    BY <1>3, <1>4
<1> QED BY <1>4, <1>6, <1>10, <1>12, <1>13 DEF WalkInv

\* When walk_node is back from the document node, every node has its row.
LEMMA WalkIsComplete ==
    ASSUME WalkTypes, doc \in Documents, NEW at, WalkInv(at), stack = <<>>, rows # <<>>
    PROVE  \A p \in Positions(doc) : \E i \in DOMAIN rows : at[i] = p
<1> DEFINE Missing == {p \in Positions(doc) : \A i \in DOMAIN rows : at[i] # p}
<1>1. at \in [DOMAIN rows -> Positions(doc)] /\ RowsInv(at) /\ DoneInv(at)
    BY DEF WalkInv
<1>2. ASSUME Missing # {} PROVE FALSE
  <2>1. Missing \in SUBSET Nat
      BY DocumentIsTree
  <2>2. PICK m \in Missing : \A p \in Missing : m <= p
      BY <1>2, <2>1, LeastNatural
  <2>3. m # Root
    <3>1. 1 \in DOMAIN rows
        BY DEF WalkTypes
    <3>2. at[1] = Root
        BY <3>1, <1>1 DEF RowsInv, PlacedRow, RootRow
    <3> QED BY <3>1, <3>2
  <2>4. PICK q \in Positions(doc) : \E j \in DOMAIN doc.kids[q] : doc.kids[q][j] = m
      BY <2>3, DocumentIsTree
  <2>5. PICK j \in DOMAIN doc.kids[q] : doc.kids[q][j] = m
      BY <2>4
  <2>6. q < m /\ q \in Nat /\ m \in Nat
      BY <2>5, DocumentIsTree
  <2>7. PICK h \in DOMAIN rows : at[h] = q
    <3>1. q \notin Missing
        BY <2>2, <2>6
    <3> QED BY <3>1
  <2>8. Closed(h)
      BY DEF Closed
  <2>9. PICK hashes : DoneRow(at, h, hashes)
      BY <2>8, <1>1 DEF DoneInv
  <2>10. j \in DOMAIN hashes
      BY <2>7, <2>9 DEF DoneRow
  <2>11. PICK c \in DOMAIN rows : at[c] = m
      BY <2>5, <2>7, <2>9, <2>10 DEF DoneRow, ChildrenDone
  <2> QED BY <2>11
<1> QED BY <1>2

-----------------------------------------------------------------------------
(***************************************************************************)
(* The table of a file                                                     *)
(***************************************************************************)

\* The row of the node at a position.
At(t, d, p) == t[d.id[p]]

\* Row c is that of the j-th child of the node of row r.
ChildEntry(r, j, c) ==
    /\ c.parent = r.id
    /\ c.order + 1 = j
    /\ c.depth = r.depth + 1
    /\ c.path = Append(r.path, c.id)

Entry(t, d, p) ==
    /\ At(t, d, p).id = d.id[p]
    /\ At(t, d, p).fields = d.fields[p]
    /\ At(t, d, p).fields # Malformed
    /\ At(t, d, p).depth \in 0 .. MaxDepth
    /\ At(t, d, p).order \in Nat
    /\ At(t, d, p).path \in Seq(NodeId)
    /\ At(t, d, p).subtree =
           <<d.id[p], d.fields[p],
             [j \in DOMAIN d.kids[p] |-> At(t, d, d.kids[p][j]).subtree]>>
    /\ \A j \in DOMAIN d.kids[p] : ChildEntry(At(t, d, p), j, At(t, d, d.kids[p][j]))

RootEntry(r) == r.parent = None /\ r.order = 0 /\ r.depth = 0 /\ r.path = <<r.id>>

\* What there is to know of a table: it has the nodes of one file, whose ids
\* differ, each with its fields, its place and its hash, and no others.
TableOf(t, d) ==
    /\ d \in Documents
    /\ DOMAIN t = {d.id[p] : p \in Positions(d)}
    /\ \A p, q \in Positions(d) : d.id[p] = d.id[q] => p = q
    /\ Len(d.id) <= MaxNodes
    /\ \A p \in Positions(d) : Entry(t, d, p)
    /\ RootEntry(At(t, d, Root))

\* Of two rows with one id, no table is made.
LEMMA RowsBecomeTable ==
    ASSUME Walking, stack = <<>>, rows # <<>>, InsertRows
    PROVE  /\ phase' = "rejected" => ~Indexable(doc)
           /\ phase' = "indexed" => TableOf(table', doc)
           /\ phase' \in {"rejected", "indexed"}
<1>1. PICK at : WalkInv(at)
    BY DEF Walking
<1>2. WalkTypes /\ doc \in Documents
    BY DEF Walking
<1>3. PICK H : rows \in Seq(Row(H))
    BY <1>2 DEF WalkTypes
<1>4. /\ at \in [DOMAIN rows -> Positions(doc)] /\ RowsInv(at) /\ DoneInv(at)
      /\ \A i \in DOMAIN rows : NodeRow(at, i) /\ PlacedRow(at, i)
      /\ \A i, j \in DOMAIN rows : at[i] = at[j] => i = j
    BY <1>1 DEF WalkInv, RowsInv
<1>5. \A p \in Positions(doc) : \E i \in DOMAIN rows : at[i] = p
    BY <1>1, <1>2, WalkIsComplete
<1>6. CASE \E i, j \in DOMAIN rows : i # j /\ rows[i].id = rows[j].id
  <2>1. PICK i, j \in DOMAIN rows : i # j /\ rows[i].id = rows[j].id
      BY <1>6
  <2>2. /\ at[i] \in Positions(doc) /\ at[j] \in Positions(doc) /\ at[i] # at[j]
        /\ doc.id[at[i]] = doc.id[at[j]]
      BY <2>1, <1>4 DEF NodeRow
  <2>3. ~Indexable(doc)
      BY <2>2 DEF Indexable
  <2>4. phase' = "rejected"
      BY <1>6 DEF InsertRows
  <2> QED BY <2>3, <2>4
<1>7. CASE \A i, j \in DOMAIN rows : rows[i].id = rows[j].id => i = j
  <2>1. /\ phase' = "indexed"
        /\ table' = [n \in {r.id : r \in ToSet(rows)} |->
                        CHOOSE r \in ToSet(rows) : r.id = n]
      BY <1>7 DEF InsertRows
  <2>2. ToSet(rows) = {rows[i] : i \in DOMAIN rows}
      BY DEF ToSet
  <2>3. DOMAIN table' = {rows[i].id : i \in DOMAIN rows}
      BY <2>1, <2>2
  <2>4. ASSUME NEW i \in DOMAIN rows
        PROVE  table'[rows[i].id] = rows[i]
    <3>1. table'[rows[i].id] = CHOOSE r \in ToSet(rows) : r.id = rows[i].id
        BY <2>1, <2>2
    <3>2. \A r \in ToSet(rows) : r.id = rows[i].id => r = rows[i]
        BY <2>2, <1>7
    <3>3. rows[i] \in ToSet(rows)
        BY <2>2
    <3> QED BY <3>1, <3>2, <3>3
  <2>5. ASSUME NEW i \in DOMAIN rows
        PROVE  At(table', doc, at[i]) = rows[i]
      BY <2>4, <1>4 DEF At, NodeRow
  <2>6. \A p, q \in Positions(doc) : doc.id[p] = doc.id[q] => p = q
    <3> SUFFICES ASSUME NEW p \in Positions(doc), NEW q \in Positions(doc),
                        doc.id[p] = doc.id[q]
                 PROVE  p = q
        OBVIOUS
    <3>1. PICK i \in DOMAIN rows : at[i] = p
        BY <1>5
    <3>2. PICK j \in DOMAIN rows : at[j] = q
        BY <1>5
    <3>3. rows[i].id = rows[j].id
        BY <3>1, <3>2, <1>4 DEF NodeRow
    <3> QED BY <3>1, <3>2, <3>3, <1>7
  <2>7. DOMAIN table' = {doc.id[p] : p \in Positions(doc)}
    <3>1. \A i \in DOMAIN rows : at[i] \in Positions(doc) /\ rows[i].id = doc.id[at[i]]
        BY <1>4 DEF NodeRow
    <3> QED BY <3>1, <2>3, <1>5
  <2>8. Len(doc.id) <= MaxNodes
    <3>1. Positions(doc) = 1 .. Len(doc.id) /\ Len(doc.id) \in Nat
        BY <1>2, DocumentIsTree
    <3>2. DOMAIN rows = 1 .. Len(rows) /\ Len(rows) \in Nat /\ Len(rows) <= MaxNodes
        BY <1>3, <1>4 DEF RowsInv
    <3>3. at \in Surjection(1 .. Len(rows), 1 .. Len(doc.id))
        BY <3>1, <3>2, <1>4, <1>5 DEF Surjection
    <3>4. /\ IsFiniteSet(1 .. Len(rows)) /\ Cardinality(1 .. Len(rows)) = Len(rows)
          /\ Cardinality(1 .. Len(doc.id)) = Len(doc.id)
        BY <3>1, <3>2, IntervalSize
    <3>5. Len(doc.id) <= Len(rows)
        BY <3>3, <3>4, FS_Surjection
    <3> QED BY <3>1, <3>2, <3>5, LimitsAssumption
  <2>9. ASSUME NEW p \in Positions(doc)
        PROVE  Entry(table', doc, p)
    <3>1. PICK i \in DOMAIN rows : at[i] = p
        BY <1>5
    <3>2. At(table', doc, p) = rows[i] /\ rows[i] \in Row(H) /\ NodeRow(at, i)
        BY <3>1, <2>5, <1>3, <1>4
    <3>3. Closed(i)
        BY DEF Closed
    <3>4. PICK hashes : DoneRow(at, i, hashes)
        BY <3>3, <1>4 DEF DoneInv
    <3> DEFINE kids == doc.kids[p]
    <3>5. /\ rows[i].subtree = <<doc.id[p], doc.fields[p], hashes>>
          /\ DOMAIN hashes = DOMAIN kids
          /\ hashes = [j \in DOMAIN kids |-> hashes[j]]
        BY <3>1, <3>2, <3>4 DEF DoneRow, NodeRow
    <3>6. \A j \in DOMAIN kids : kids[j] \in Positions(doc) /\ kids[j] > p /\ p \in Nat
        BY <1>2, DocumentIsTree
    <3>7. ASSUME NEW j \in DOMAIN kids
          PROVE  /\ hashes[j] = At(table', doc, kids[j]).subtree
                 /\ ChildEntry(At(table', doc, p), j, At(table', doc, kids[j]))
      <4>1. PICK c \in DOMAIN rows : at[c] = kids[j] /\ rows[c].subtree = hashes[j]
          BY <3>1, <3>4, <3>5 DEF DoneRow, ChildrenDone
      <4>2. At(table', doc, kids[j]) = rows[c] /\ PlacedRow(at, c)
          BY <4>1, <2>5, <1>4
      <4>3. at[c] # Root
          BY <4>1, <3>6, <1>2, DocumentIsTree DEF Root
      <4>4. PICK h \in DOMAIN rows : \E l \in DOMAIN doc.kids[at[h]] : ChildRow(at, h, l, c)
          BY <4>2, <4>3 DEF PlacedRow, RootRow
      <4>5. PICK l \in DOMAIN doc.kids[at[h]] : ChildRow(at, h, l, c)
          BY <4>4
      <4>6. at[h] \in Positions(doc) /\ doc.kids[at[h]][l] = kids[j]
          BY <4>1, <4>5, <1>4 DEF ChildRow
      <4>7. at[h] = p /\ l = j
          BY <4>6, <1>2, DocumentIsTree
      <4>8. h = i
          BY <4>7, <3>1, <1>4
      <4> QED BY <4>1, <4>2, <4>5, <4>7, <4>8, <3>2 DEF ChildRow, ChildEntry
    <3>8. hashes = [j \in DOMAIN kids |-> At(table', doc, kids[j]).subtree]
        BY <3>5, <3>7
    <3>9. /\ rows[i].depth \in Nat /\ rows[i].order \in Nat /\ rows[i].path \in Seq(NodeId)
          /\ rows[i].depth \in 0 .. MaxDepth
        BY <3>2, LimitsAssumption DEF Row, NodeRow
    <3>10. /\ rows[i].id = doc.id[p] /\ rows[i].fields = doc.fields[p]
           /\ rows[i].fields # Malformed
        BY <3>1, <3>2 DEF NodeRow
    <3>11. At(table', doc, p).subtree =
               <<doc.id[p], doc.fields[p],
                 [j \in DOMAIN kids |-> At(table', doc, kids[j]).subtree]>>
        BY <3>2, <3>5, <3>8
    <3> QED BY <3>2, <3>7, <3>9, <3>10, <3>11 DEF Entry
  <2>10. RootEntry(At(table', doc, Root))
    <3>1. 1 \in DOMAIN rows
        BY <1>3
    <3>2. RootRow(at, 1)
        BY <3>1, <1>4 DEF PlacedRow
    <3>3. At(table', doc, Root) = rows[1]
        BY <3>1, <3>2, <2>5 DEF RootRow
    <3> QED BY <3>2, <3>3 DEF RootRow, RootEntry
  <2>11. TableOf(table', doc)
      BY <2>6, <2>7, <2>8, <2>9, <2>10, <1>2 DEF TableOf
  <2> QED BY <2>1, <2>11
<1> QED BY <1>6, <1>7

\* No table is that of a file with a branch that is too deep.
LEMMA TableIsIndexable ==
    ASSUME NEW t, NEW d \in Readable, TableOf(t, d)
    PROVE  Indexable(d)
<1>1. /\ d \in Documents
      /\ \A p \in Positions(d) : Entry(t, d, p)
      /\ \A p, q \in Positions(d) : d.id[p] = d.id[q] => p = q
      /\ Len(d.id) <= MaxNodes
    BY DEF TableOf
<1>2. \A p \in Positions(d) : d.fields[p] # Malformed
    BY <1>1 DEF Entry
<1>3. ASSUME TooDeep(d) PROVE FALSE
  <2>1. PICK branch \in [0 .. MaxDepth + 1 -> Positions(d)] :
            /\ branch[0] = Root
            /\ \A k \in 0 .. MaxDepth : branch[k + 1] \in ToSet(d.kids[branch[k]])
    <3>1. PICK branch \in Branches(d, MaxDepth + 1) : TRUE
        BY <1>3 DEF TooDeep
    <3>2. ASSUME NEW k \in 0 .. MaxDepth
          PROVE  branch[k + 1] \in ToSet(d.kids[branch[k]])
      <4>1. k + 1 \in 1 .. MaxDepth + 1 /\ k + 1 - 1 = k
          BY LimitsAssumption
      <4> QED BY <3>1, <4>1 DEF Branches
    <3> QED BY <3>1, <3>2 DEF Branches
  <2> DEFINE Depth(k) == At(t, d, branch[k]).depth
             Wrong == {k \in 0 .. MaxDepth + 1 : Depth(k) # k}
  <2>2. ASSUME NEW k \in 0 .. MaxDepth PROVE Depth(k + 1) = Depth(k) + 1
    <3>1. PICK j \in DOMAIN d.kids[branch[k]] : d.kids[branch[k]][j] = branch[k + 1]
        BY <2>1 DEF ToSet
    <3>2. branch[k] \in Positions(d)
        BY <2>1, LimitsAssumption
    <3>3. ChildEntry(At(t, d, branch[k]), j, At(t, d, branch[k + 1]))
        BY <3>1, <3>2, <1>1 DEF Entry
    <3> QED BY <3>3 DEF ChildEntry
  <2>3. Depth(0) = 0
      BY <2>1 DEF TableOf, RootEntry
  <2> HIDE DEF Depth
  <2>4. Wrong = {}
    <3> SUFFICES ASSUME Wrong # {} PROVE FALSE
        OBVIOUS
    <3>1. Wrong \in SUBSET Nat
        BY LimitsAssumption
    <3>2. PICK m \in Wrong : \A k \in Wrong : m <= k
        BY <3>1, LeastNatural
    <3>3. m # 0
        BY <3>2, <2>3
    <3>4. m - 1 \in 0 .. MaxDepth /\ m - 1 \notin Wrong
        BY <3>2, <3>3, LimitsAssumption
    <3>5. Depth(m - 1) = m - 1
        BY <3>4, LimitsAssumption
    <3>6. Depth(m) = m
      <4>1. m - 1 + 1 = m
          BY <3>2, LimitsAssumption
      <4> QED BY <3>4, <3>5, <4>1, <2>2
    <3> QED BY <3>2, <3>6
  <2>5. Depth(MaxDepth + 1) = MaxDepth + 1
      BY <2>4, LimitsAssumption
  <2>6. branch[MaxDepth + 1] \in Positions(d)
      BY <2>1, LimitsAssumption
  <2>7. Depth(MaxDepth + 1) \in 0 .. MaxDepth
      BY <2>6, <1>1 DEF Entry, Depth
  <2> QED BY <2>5, <2>7, LimitsAssumption
<1> QED BY <1>1, <1>2, <1>3 DEF Indexable

\* The open calls of walk_node are the branch to the node that is called next.
LEMMA DeepCallIsDeep ==
    ASSUME Walking, NEW pos \in Positions(doc), Calling(pos), Len(stack) > MaxDepth
    PROVE  TooDeep(doc)
<1>1. PICK at : WalkInv(at)
    BY DEF Walking
<1>2. WalkTypes /\ doc \in Documents /\ Calling(pos)
    BY DEF Walking
<1>3. PICK H : rows \in Seq(Row(H)) /\ stack \in Seq(Frame(H))
    BY <1>2 DEF WalkTypes
<1>4. /\ at \in [DOMAIN rows -> Positions(doc)]
      /\ \A i, j \in DOMAIN rows : at[i] = at[j] => i = j
      /\ \A i \in DOMAIN rows : NodeRow(at, i) /\ PlacedRow(at, i)
      /\ \A k \in DOMAIN stack : CallRow(at, k) /\ CallKids(at, k)
      /\ stack # <<>> => stack[1].row = 1
    BY <1>1 DEF WalkInv, RowsInv, CallsInv
<1>5. /\ \A i \in DOMAIN rows : at[i] # pos
      /\ stack = <<>> <=> rows = <<>>
      /\ stack = <<>> => pos = Root
      /\ stack # <<>> =>
             LET f == stack[Len(stack)]
             IN  /\ Len(stack) \in DOMAIN stack /\ Len(f.hashes) \in Nat
                 /\ f.pos \in Positions(doc)
                 /\ Len(f.hashes) + 1 \in DOMAIN doc.kids[f.pos]
                 /\ pos = doc.kids[f.pos][Len(f.hashes) + 1]
    BY <1>1, <1>2, CalledIsNew
<1>6. Len(stack) > MaxDepth
    OBVIOUS
<1>7. TooDeep(doc)
  <2> DEFINE branch == [k \in 0 .. MaxDepth + 1 |->
                           IF k = MaxDepth + 1 THEN pos ELSE stack[k + 1].pos]
  <2>1. /\ DOMAIN stack = 1 .. Len(stack) /\ Len(stack) \in Nat /\ stack # <<>>
        /\ Len(stack) \in DOMAIN stack
      BY <1>3, <1>6, LimitsAssumption
  <2>2. Len(stack) = MaxDepth + 1
    <3>1. /\ stack[Len(stack)].row \in DOMAIN rows
          /\ rows[stack[Len(stack)].row].depth + 1 = Len(stack)
        BY <2>1, <1>4 DEF CallRow
    <3>2. rows[stack[Len(stack)].row].depth <= MaxDepth
        BY <3>1, <1>4 DEF NodeRow
    <3>3. rows[stack[Len(stack)].row] \in Row(H)
        BY <3>1, <1>3
    <3>4. rows[stack[Len(stack)].row].depth \in Nat
        BY <3>3 DEF Row
    <3> QED BY <3>1, <3>2, <3>4, <2>1, <1>6, LimitsAssumption, JustAbove
  <2>3. \A k \in 1 .. Len(stack) : stack[k].pos \in Positions(doc)
      BY <2>1, <1>4 DEF CallRow
  <2>4. \A k \in 0 .. MaxDepth : k + 1 \in 1 .. Len(stack) /\ branch[k] = stack[k + 1].pos
      BY <2>2, LimitsAssumption
  <2>5. branch[MaxDepth + 1] = pos
      BY LimitsAssumption
  <2>6. branch \in [0 .. MaxDepth + 1 -> Positions(doc)]
      BY <2>3, <2>4, <2>5, LimitsAssumption
  <2>7. branch[0] = Root
    <3>1. 1 \in DOMAIN stack /\ stack[1].row = 1
        BY <2>1, <1>4
    <3>2. 1 \in DOMAIN rows /\ stack[1].pos = at[1]
        BY <3>1, <1>4 DEF CallRow
    <3>3. at[1] = Root
        BY <3>2, <1>4 DEF PlacedRow, RootRow
    <3>4. branch[0] = stack[1].pos
        BY <2>4, LimitsAssumption
    <3> QED BY <3>2, <3>3, <3>4
  <2> HIDE DEF branch
  <2>8. ASSUME NEW k \in 0 .. MaxDepth
        PROVE  branch[k + 1] \in ToSet(doc.kids[branch[k]])
    <3>1. CASE k = MaxDepth
      <4>1. branch[k + 1] = pos /\ branch[k] = stack[Len(stack)].pos
          BY <3>1, <2>2, <2>4, <2>5
      <4> QED BY <4>1, <2>1, <1>5 DEF ToSet
    <3>2. CASE k # MaxDepth
      <4>1. k + 1 \in 0 .. MaxDepth
          BY <3>2, LimitsAssumption
      <4>2. k + 1 \in DOMAIN stack /\ k + 2 \in DOMAIN stack
          BY <4>1, <2>1, <2>2, LimitsAssumption
      <4> DEFINE f == stack[k + 1]
      <4>3. /\ branch[k] = f.pos /\ branch[k + 1] = stack[k + 2].pos
          BY <4>1, <2>4, LimitsAssumption
      <4>4. CallKids(at, k + 1)
          BY <4>2, <1>4
      <4>5. k + 1 + 1 = k + 2
          BY LimitsAssumption
      <4>6. Len(f.hashes) < Len(doc.kids[f.pos])
            /\ stack[k + 2].pos = doc.kids[f.pos][Len(f.hashes) + 1]
          BY <4>2, <4>4, <4>5 DEF CallKids
      <4>7. Len(f.hashes) \in Nat
        <5>1. f \in Frame(H)
            BY <4>2, <1>3
        <5> QED BY <5>1 DEF Frame
      <4>8. f.pos \in Positions(doc)
          BY <4>2, <2>1, <2>3
      <4>9. Len(f.hashes) + 1 \in DOMAIN doc.kids[f.pos]
        <5>1. /\ Len(doc.kids[f.pos]) \in Nat
              /\ DOMAIN doc.kids[f.pos] = 1 .. Len(doc.kids[f.pos])
            BY <4>8, <1>2, KidPlaces
        <5> HIDE DEF f
        <5> QED BY <4>6, <4>7, <5>1
      <4> QED BY <4>3, <4>6, <4>9 DEF ToSet
    <3> QED BY <3>1, <3>2
  <2>9. ASSUME NEW i \in 1 .. MaxDepth + 1
        PROVE  branch[i] \in ToSet(doc.kids[branch[i - 1]])
    <3>1. i - 1 \in 0 .. MaxDepth /\ i - 1 + 1 = i
        BY LimitsAssumption
    <3> QED BY <3>1, <2>8
  <2>10. branch \in Branches(doc, MaxDepth + 1)
      BY <2>6, <2>7, <2>9 DEF Branches
  <2> QED BY <2>10 DEF TooDeep
<1> QED BY <1>7

\* walk_node refuses a node only if the file is too deep or too large.
LEMMA RefusedIsBad ==
    ASSUME Walking, NEW pos \in Positions(doc), RejectNode(pos)
    PROVE  ~Indexable(doc)
<1>1. PICK at : WalkInv(at)
    BY DEF Walking
<1>2. WalkTypes /\ doc \in Documents /\ Calling(pos) /\ ~Acceptable(pos)
    BY DEF Walking, RejectNode
<1>3. PICK H : rows \in Seq(Row(H)) /\ stack \in Seq(Frame(H))
    BY <1>2 DEF WalkTypes
<1>4. /\ at \in [DOMAIN rows -> Positions(doc)]
      /\ \A i, j \in DOMAIN rows : at[i] = at[j] => i = j
      /\ \A i \in DOMAIN rows : NodeRow(at, i) /\ PlacedRow(at, i)
      /\ \A k \in DOMAIN stack : CallRow(at, k) /\ CallKids(at, k)
      /\ stack # <<>> => stack[1].row = 1
    BY <1>1 DEF WalkInv, RowsInv, CallsInv
<1>5. /\ \A i \in DOMAIN rows : at[i] # pos
      /\ stack = <<>> <=> rows = <<>>
      /\ stack = <<>> => pos = Root
      /\ stack # <<>> =>
             LET f == stack[Len(stack)]
             IN  /\ Len(stack) \in DOMAIN stack /\ Len(f.hashes) \in Nat
                 /\ f.pos \in Positions(doc)
                 /\ Len(f.hashes) + 1 \in DOMAIN doc.kids[f.pos]
                 /\ pos = doc.kids[f.pos][Len(f.hashes) + 1]
    BY <1>1, <1>2, CalledIsNew
<1>6. CASE doc.fields[pos] = Malformed
    BY <1>6 DEF Indexable
<1>7. CASE Len(rows) >= MaxNodes
  <2> DEFINE N == Len(rows) + 1
             here == [i \in 1 .. N |-> IF i = N THEN pos ELSE at[i]]
  <2>1. DOMAIN rows = 1 .. Len(rows) /\ Len(rows) \in Nat
      BY <1>3
  <2>2. Positions(doc) = 1 .. Len(doc.id) /\ Len(doc.id) \in Nat
      BY <1>2, DocumentIsTree
  <2>3. \A i \in 1 .. N : i = N \/ i \in DOMAIN rows
      BY <2>1
  <2>4. here \in [1 .. N -> 1 .. Len(doc.id)]
      BY <2>2, <2>3, <1>4
  <2>5. \A i, j \in 1 .. N : here[i] = here[j] => i = j
      BY <2>3, <1>4, <1>5
  <2> HIDE DEF here
  <2>6. here \in Injection(1 .. N, 1 .. Len(doc.id))
      BY <2>4, <2>5 DEF Injection, IsInjective
  <2>7. /\ IsFiniteSet(1 .. Len(doc.id)) /\ Cardinality(1 .. Len(doc.id)) = Len(doc.id)
        /\ Cardinality(1 .. N) = N
      BY <2>1, <2>2, IntervalSize
  <2>8. N <= Len(doc.id)
      BY <2>6, <2>7, FS_Injection
  <2>9. Len(doc.id) > MaxNodes
      BY <2>1, <2>2, <2>8, <1>7, LimitsAssumption
  <2> QED BY <2>2, <2>9, LimitsAssumption DEF Indexable
<1>8. CASE Len(stack) > MaxDepth
    BY <1>2, <1>8, DeepCallIsDeep DEF Indexable
<1>9. Len(rows) \in Nat /\ Len(stack) \in Nat
    BY <1>3
<1> QED BY <1>2, <1>6, <1>7, <1>8, <1>9, LimitsAssumption DEF Acceptable

-----------------------------------------------------------------------------
(***************************************************************************)
(* The inductive invariant of pulls and diff                               *)
(***************************************************************************)
IsMap(e) == e = [k \in DOMAIN e |-> e[k]]

Compared ==
    /\ phase = "compared"
    /\ before # NoTable
    /\ TableOf(after, doc)
    /\ diff = CompareNodes(before, after, filter)
    /\ filter \in Filters
    /\ entityDiff = CompareEntities(beforeEntities, afterEntities)
    /\ IsMap(afterEntities)

IndexInv ==
    /\ phase = "idle" => stack = <<>> /\ path = <<>> /\ rows = <<>>
    /\ phase = "walk" => Walking
    /\ phase = "insert" => Walking /\ stack = <<>> /\ rows # <<>>
    /\ phase \in {"walk", "insert", "indexed"} => doc \in Readable
    /\ phase = "rejected" => ~Indexable(doc)
    /\ phase = "indexed" => TableOf(table, doc) /\ IsMap(entities)
    /\ before # NoTable => \E d : TableOf(before, d) /\ view = Json(d)
    /\ IsMap(beforeEntities)
    /\ diff # None => Compared

\* What the rest of the tables is while one is made.
LEMMA WalkFrame ==
    ASSUME Walking, UNCHANGED <<doc, walk>>
    PROVE  Walking'
<1>1. PICK at : WalkInv(at)
    BY DEF Walking
<1>2. UNCHANGED <<doc, stack, path, rows>>
    BY DEF walk
<1>4. \A i : Closed(i)' <=> Closed(i)
    BY <1>2 DEF Closed
<1>5. \A i, hashes : ChildrenDone(at, i, hashes)' <=> ChildrenDone(at, i, hashes)
    BY <1>2, <1>4 DEF ChildrenDone
<1>6. RowsInv(at)'
    BY <1>1, <1>2 DEF WalkInv, RowsInv, NodeRow, PlacedRow, RootRow, ChildRow
<1>7. DoneInv(at)'
    BY <1>1, <1>2, <1>4, <1>5 DEF WalkInv, DoneInv, DoneRow
<1>8. \A k : CallRow(at, k)' <=> CallRow(at, k)
    BY <1>2 DEF CallRow
<1>9. \A k : CallKids(at, k)' <=> CallKids(at, k)
    BY <1>2, <1>5 DEF CallKids
<1>10. CallsInv(at)'
    BY <1>1, <1>2, <1>8, <1>9 DEF WalkInv, CallsInv
<1>11. WalkInv(at)'
    BY <1>1, <1>2, <1>6, <1>7, <1>10 DEF WalkInv, Positions
<1>3. WalkTypes' /\ doc' \in Documents
    BY <1>2 DEF Walking, WalkTypes
<1> QED BY <1>11, <1>3 DEF Walking

LEMMA WalkBegins ==
    ASSUME stack' = <<>>, path' = <<>>, rows' = <<>>, doc' \in Documents
    PROVE  Walking'
<1>1. PICK at : at = [i \in {} |-> Root]
    OBVIOUS
<1>2. /\ DOMAIN rows' = {} /\ DOMAIN stack' = {} /\ Len(rows') = 0
      /\ Len(path') = Len(stack')
    OBVIOUS
<1>3. RowsInv(at)'
    BY <1>2, LimitsAssumption DEF RowsInv
<1>4. DoneInv(at)' /\ CallsInv(at)'
    BY <1>2 DEF DoneInv, CallsInv
<1>5. (at \in [DOMAIN rows -> Positions(doc)])'
    BY <1>1, <1>2
<1>6. WalkInv(at)'
    BY <1>3, <1>4, <1>5 DEF WalkInv
<1>7. rows' \in Seq(Row({})) /\ stack' \in Seq(Frame({})) /\ path' \in Seq(NodeId)
    OBVIOUS
<1> QED BY <1>6, <1>7 DEF Walking, WalkTypes

LEMMA EnterWalks ==
    ASSUME Walking, NEW pos \in Positions(doc), Enter(pos)
    PROVE  Walking'
<1>1. PICK at : WalkInv(at)
    BY DEF Walking
<1>2. WalkTypes /\ doc \in Documents
    BY DEF Walking
<1>3. PICK at2 : at2 = [i \in DOMAIN rows \union {Len(rows) + 1} |->
                          IF i \in DOMAIN rows THEN at[i] ELSE pos]
    OBVIOUS
<1>4. WalkTypes' /\ WalkInv(at2)'
    BY <1>1, <1>2, <1>3, EnterKeepsWalk
<1>5. doc' = doc
    BY DEF Enter
<1> QED BY <1>2, <1>4, <1>5 DEF Walking

LEMMA LeaveWalks ==
    ASSUME Walking, Leave
    PROVE  Walking'
<1>1. PICK at : WalkInv(at)
    BY DEF Walking
<1>2. WalkTypes /\ doc \in Documents
    BY DEF Walking
<1>3. WalkTypes' /\ WalkInv(at)'
    BY <1>1, <1>2, LeaveKeepsWalk
<1>4. doc' = doc
    BY DEF Leave
<1> QED BY <1>2, <1>3, <1>4 DEF Walking

LEMMA IndexInit0 == Init => IndexInv
<1> SUFFICES ASSUME Init PROVE IndexInv
    OBVIOUS
<1>1. IsMap(beforeEntities)
    BY DEF Init, NoEntities, IsMap
<1> QED BY <1>1 DEF Init, IndexInit, IndexInv, Compared

LEMMA IndexStep ==
    ASSUME IndexInv, [Next]_vars
    PROVE  IndexInv'
<1>1. CASE UNCHANGED vars
  <2>1. UNCHANGED <<phase, doc, stack, path, rows, table, entities, before, after,
                    beforeEntities, afterEntities, view, filter, diff, entityDiff>>
      BY <1>1 DEF vars, indexVars, diffVars, first, walk, tables
  <2>2. Walking => Walking'
      BY <2>1, WalkFrame DEF walk
  <2> QED BY <2>1, <2>2 DEF IndexInv, Compared, Walking
<1>2. CASE IndexNext /\ UNCHANGED diffVars
  <2>1. UNCHANGED <<before, after, beforeEntities, afterEntities, view, filter, diff,
                    entityDiff>>
      BY <1>2 DEF diffVars, first
  <2>2. /\ before' # NoTable => \E d : TableOf(before', d) /\ view' = Json(d)
        /\ IsMap(beforeEntities')
      BY <2>1 DEF IndexInv
  <2>3. phase # "compared" => diff' = None
      BY <2>1 DEF IndexInv, Compared
  <2>4. ASSUME NEW d \in Documents, StartParse(d) PROVE IndexInv'
    <3>1. /\ phase = "idle" /\ phase' = "walk" /\ doc' = d /\ d \in Readable
          /\ UNCHANGED <<stack, path, rows>>
        BY <2>4 DEF StartParse, walk
    <3>2. stack' = <<>> /\ path' = <<>> /\ rows' = <<>>
        BY <3>1 DEF IndexInv
    <3>3. Walking'
        BY <3>1, <3>2, WalkBegins
    <3> QED BY <3>1, <3>3, <2>2, <2>3 DEF IndexInv
  <2>10. ASSUME NEW d \in Documents, RefuseFile(d) PROVE IndexInv'
    <3>1. /\ phase = "idle" /\ phase' = "rejected" /\ doc' = d /\ d \notin Readable
        BY <2>10 DEF RefuseFile
    <3>2. ~Indexable(doc')
        BY <3>1 DEF Indexable
    <3> QED BY <3>1, <3>2, <2>2, <2>3 DEF IndexInv
  <2>5. ASSUME NEW pos \in Positions(doc), Enter(pos) PROVE IndexInv'
    <3>1. phase = "walk" /\ UNCHANGED <<phase, doc>>
        BY <2>5 DEF Enter, Calling
    <3>2. Walking'
        BY <3>1, <2>5, EnterWalks DEF IndexInv
    <3> QED BY <3>1, <3>2, <2>2, <2>3 DEF IndexInv
  <2>6. ASSUME NEW pos \in Positions(doc), RejectNode(pos) PROVE IndexInv'
    <3>1. phase = "walk" /\ phase' = "rejected" /\ UNCHANGED doc
        BY <2>6 DEF RejectNode, Calling
    <3>2. ~Indexable(doc)
        BY <3>1, <2>6, RefusedIsBad DEF IndexInv
    <3>3. ~Indexable(doc')
        BY <3>1, <3>2
    <3> QED BY <3>1, <3>3, <2>2, <2>3 DEF IndexInv
  <2>7. ASSUME Leave PROVE IndexInv'
    <3>1. phase = "walk" /\ UNCHANGED <<phase, doc>>
        BY <2>7 DEF Leave
    <3>2. Walking'
        BY <3>1, <2>7, LeaveWalks DEF IndexInv
    <3> QED BY <3>1, <3>2, <2>2, <2>3 DEF IndexInv
  <2>8. ASSUME FinishWalk PROVE IndexInv'
    <3>1. /\ phase = "walk" /\ phase' = "insert" /\ UNCHANGED <<doc, walk>>
          /\ stack' = <<>> /\ rows' # <<>>
        BY <2>8 DEF FinishWalk, walk
    <3>2. Walking'
        BY <3>1, WalkFrame DEF IndexInv
    <3> QED BY <3>1, <3>2, <2>2, <2>3 DEF IndexInv
  <2>9. ASSUME InsertRows PROVE IndexInv'
    <3>1. phase = "insert" /\ UNCHANGED doc
        BY <2>9 DEF InsertRows
    <3>2. /\ phase' = "rejected" => ~Indexable(doc)
          /\ phase' = "indexed" => TableOf(table', doc)
          /\ phase' \in {"rejected", "indexed"}
        BY <3>1, <2>9, RowsBecomeTable DEF IndexInv
    <3>3. phase' = "indexed" => IsMap(entities')
      <4>1. phase' = "indexed" => entities' = doc.entities
          BY <2>9 DEF InsertRows
      <4>2. doc \in Documents
          BY <3>1 DEF IndexInv, Walking
      <4>3. IsMap(doc.entities)
          BY <4>2, DocumentsAssumption DEF IsMap
      <4> QED BY <4>1, <4>3
    <3>4. doc' = doc
        BY <3>1
    <3> QED BY <3>1, <3>2, <3>3, <3>4, <2>2, <2>3 DEF IndexInv
  <2> QED BY <1>2, <2>4, <2>5, <2>6, <2>7, <2>8, <2>9, <2>10 DEF IndexNext
<1>3. CASE KeepFirst
  <2>1. /\ phase = "indexed" /\ phase' = "idle"
        /\ before' = table /\ beforeEntities' = entities /\ view' = Json(doc)
        /\ stack' = <<>> /\ path' = <<>> /\ rows' = <<>>
        /\ diff' = diff
      BY <1>3 DEF KeepFirst
  <2>2. TableOf(table, doc) /\ IsMap(entities) /\ diff = None
      BY <2>1 DEF IndexInv, Compared
  <2> QED BY <2>1, <2>2 DEF IndexInv
<1>4. ASSUME NEW f \in Filters, Compare(f) PROVE IndexInv'
  <2>1. /\ phase = "indexed" /\ phase' = "compared" /\ before # NoTable
        /\ after' = table /\ afterEntities' = entities /\ filter' = f
        /\ diff' = CompareNodes(before, table, f)
        /\ entityDiff' = CompareEntities(beforeEntities, entities)
        /\ UNCHANGED <<doc, before, beforeEntities, view>>
      BY <1>4 DEF Compare, first
  <2>2. TableOf(table, doc) /\ IsMap(entities)
      BY <2>1 DEF IndexInv
  <2>3. Compared'
      BY <2>1, <2>2 DEF Compared
  <2> QED BY <2>1, <2>3 DEF IndexInv
<1> QED BY <1>1, <1>2, <1>3, <1>4 DEF Next

LEMMA IndexInvariant == Spec => []IndexInv
BY IndexInit0, IndexStep, PTL DEF Spec

\* A file of any size and depth is refused exactly when serde_json or the envelope
\* refuses it, or it has a malformed node, a branch or a number of nodes past the
\* limits, or two nodes of one id: the depth that walk_node counts is that of the
\* tree.
THEOREM GoodFilesAreIndexed == Spec => []OnlyGoodFilesAreIndexed
<1>1. IndexInv => OnlyGoodFilesAreIndexed
    BY TableIsIndexable DEF IndexInv, OnlyGoodFilesAreIndexed
<1> QED BY IndexInvariant, <1>1, PTL

\* The prefix of a deep branch that is as long as serde_json allows.
LEMMA ReadableIsShallow ==
    ASSUME NEW d \in Readable, RecursionLimit <= 2 * MaxDepth + 4
    PROVE  ~TooDeep(d)
<1>1. d \in Documents
    BY DEF Readable
<1>2. PICK h \in Nat \ {0} : RecursionLimit = 2 * h /\ RecursionLimit \div 2 = h
  <2>1. RecursionLimit \div 2 \in Nat /\ RecursionLimit = 2 * (RecursionLimit \div 2)
      BY NestingAssumption
  <2> QED BY <2>1, NestingAssumption
<1>3. h - 1 \in 0 .. RecursionLimit \div 2 - 1 /\ h - 1 \in 0 .. MaxDepth + 1
    BY <1>2, LimitsAssumption
<1> SUFFICES ASSUME NEW branch \in Branches(d, MaxDepth + 1) PROVE FALSE
    BY DEF TooDeep
<1>4. PICK short : short = [i \in 0 .. h - 1 |-> branch[i]]
    OBVIOUS
<1>5. short \in Branches(d, h - 1)
  <2>1. branch \in [0 .. MaxDepth + 1 -> Positions(d)] /\ branch[0] = Root
      BY DEF Branches
  <2>2. \A i \in 0 .. h - 1 : i \in 0 .. MaxDepth + 1
      BY <1>3, LimitsAssumption
  <2>3. short \in [0 .. h - 1 -> Positions(d)] /\ short[0] = Root
      BY <2>1, <2>2, <1>3, <1>4
  <2>4. ASSUME NEW i \in 1 .. h - 1
        PROVE  short[i] \in ToSet(d.kids[short[i - 1]])
    <3>1. i \in 1 .. MaxDepth + 1 /\ i \in 0 .. h - 1 /\ i - 1 \in 0 .. h - 1
        BY <1>3, LimitsAssumption
    <3>2. short[i] = branch[i] /\ short[i - 1] = branch[i - 1]
        BY <3>1, <1>4
    <3> QED BY <3>1, <3>2 DEF Branches
  <2> QED BY <2>3, <2>4 DEF Branches
<1>6. 2 * (h - 1) + 2 + Nesting[d.fields[short[h - 1]]] < RecursionLimit
    BY <1>3, <1>5 DEF Readable
<1>7. Nesting[d.fields[short[h - 1]]] \in Nat
  <2>1. short[h - 1] \in Positions(d)
      BY <1>3, <1>5 DEF Branches
  <2>2. d.fields[short[h - 1]] \in Fields \union {Malformed}
      BY <2>1, <1>1, DocumentsAssumption DEF Positions
  <2> QED BY <2>2, NestingAssumption
<1> QED BY <1>2, <1>6, <1>7

\* The limit of depth in walk_node is never met where that of serde_json comes
\* first, as 128 does before 2 * 512 + 4: whatever file is parsed, no node is
\* called that is deeper than MaxDepth.
THEOREM NestingLimitComesFirst ==
    ASSUME RecursionLimit <= 2 * MaxDepth + 4
    PROVE  Spec => [](\A pos \in Positions(doc) : Calling(pos) => Len(stack) <= MaxDepth)
<1>1. IndexInv => \A pos \in Positions(doc) : Calling(pos) => Len(stack) <= MaxDepth
  <2> SUFFICES ASSUME IndexInv, NEW pos \in Positions(doc), Calling(pos)
               PROVE  Len(stack) <= MaxDepth
      OBVIOUS
  <2>1. Walking /\ doc \in Readable
      BY DEF IndexInv, Calling
  <2>2. ~(Len(stack) > MaxDepth)
      BY <2>1, DeepCallIsDeep, ReadableIsShallow
  <2>3. PICK H : stack \in Seq(Frame(H))
      BY <2>1 DEF Walking, WalkTypes
  <2>4. Len(stack) \in Nat
      BY <2>3
  <2> QED BY <2>2, <2>4, LimitsAssumption
<1> QED BY IndexInvariant, <1>1, PTL

-----------------------------------------------------------------------------
(***************************************************************************)
(* Paths and what is below a node                                          *)
(***************************************************************************)

LEMMA NodeAt ==
    ASSUME NEW t, NEW d, TableOf(t, d), NEW n \in DOMAIN t
    PROVE  \E p \in Positions(d) : n = d.id[p] /\ At(t, d, p) = t[n] /\ t[n].id = n
<1>1. PICK p \in Positions(d) : n = d.id[p]
    BY DEF TableOf
<1>2. Entry(t, d, p)
    BY DEF TableOf
<1> QED BY <1>1, <1>2 DEF Entry, At

LEMMA ParentAt ==
    ASSUME NEW t, NEW d, TableOf(t, d), NEW p \in Positions(d), p # Root
    PROVE  \E q \in Positions(d) : \E j \in DOMAIN d.kids[q] :
               /\ d.kids[q][j] = p /\ q < p
               /\ ChildEntry(At(t, d, q), j, At(t, d, p))
               /\ At(t, d, p).parent = d.id[q] /\ d.id[q] \in DOMAIN t /\ d.id[q] # None
<1>1. d \in Documents
    BY DEF TableOf
<1>2. PICK q \in Positions(d) : \E j \in DOMAIN d.kids[q] : d.kids[q][j] = p
    BY <1>1, DocumentIsTree
<1>3. PICK j \in DOMAIN d.kids[q] : d.kids[q][j] = p
    BY <1>2
<1>4. q < p
    BY <1>1, <1>3, DocumentIsTree
<1>5. Entry(t, d, q)
    BY DEF TableOf
<1>6. /\ ChildEntry(At(t, d, q), j, At(t, d, p))
      /\ At(t, d, p).parent = d.id[q]
    BY <1>3, <1>5 DEF Entry, ChildEntry
<1>7. d.id[q] \in DOMAIN t /\ d.id[q] # None
    BY <1>1, DocumentIsTree, NoneAssumption DEF TableOf
<1> QED BY <1>3, <1>4, <1>6, <1>7

LEMMA TablePaths ==
    ASSUME NEW t, NEW d, TableOf(t, d)
    PROVE  PathsAgree(t)
<1>1. d \in Documents
    BY DEF TableOf
<1> DEFINE Length(p) == Len(At(t, d, p).path)
           Depth(p) == At(t, d, p).depth
           Wrong == {p \in Positions(d) : Depth(p) + 1 # Length(p)}
<1>2. RootEntry(At(t, d, Root)) /\ At(t, d, Root).id = d.id[Root]
    BY <1>1, DocumentIsTree DEF TableOf, Entry
<1>3. \A p \in Positions(d) : At(t, d, p).path \in Seq(NodeId) /\ d.id[p] \in NodeId
                              /\ At(t, d, p).id = d.id[p] /\ Depth(p) \in Nat
  <2> SUFFICES ASSUME NEW p \in Positions(d)
               PROVE  /\ At(t, d, p).path \in Seq(NodeId) /\ d.id[p] \in NodeId
                      /\ At(t, d, p).id = d.id[p] /\ Depth(p) \in Nat
      OBVIOUS
  <2>1. Entry(t, d, p)
      BY DEF TableOf
  <2>2. Depth(p) \in 0 .. MaxDepth
      BY <2>1 DEF Entry
  <2> QED BY <1>1, <2>1, <2>2, DocumentIsTree, LimitsAssumption DEF Entry
<1>4. Wrong = {}
  <2> SUFFICES ASSUME Wrong # {} PROVE FALSE
      OBVIOUS
  <2>1. Wrong \in SUBSET Nat
      BY <1>1, DocumentIsTree
  <2>2. PICK p \in Wrong : \A q \in Wrong : p <= q
      BY <2>1, LeastNatural
  <2>3. p # Root
    <3>1. Depth(Root) = 0 /\ Length(Root) = 1
        BY <1>2 DEF RootEntry
    <3> HIDE DEF Depth, Length
    <3> QED BY <2>2, <3>1
  <2>4. PICK q \in Positions(d) : \E j \in DOMAIN d.kids[q] :
            q < p /\ ChildEntry(At(t, d, q), j, At(t, d, p))
      BY <2>2, <2>3, ParentAt
  <2>5. q < p /\ Depth(p) = Depth(q) + 1
        /\ At(t, d, p).path = Append(At(t, d, q).path, d.id[p])
      BY <2>2, <2>4, <1>3 DEF ChildEntry
  <2>6. Length(p) = Length(q) + 1
      BY <2>5, <1>3
  <2>7. q \notin Wrong
      BY <2>1, <2>2, <2>5
  <2> QED BY <2>2, <2>5, <2>6, <2>7
<1>5. ASSUME NEW n \in DOMAIN t
      PROVE  /\ t[n].id = n
             /\ t[n].depth + 1 = Len(t[n].path)
             /\ t[n].parent = None => t[n].path = <<n>>
             /\ t[n].parent # None =>
                    /\ t[n].parent \in DOMAIN t
                    /\ t[n].path = Append(t[t[n].parent].path, n)
  <2>1. PICK p \in Positions(d) : n = d.id[p] /\ At(t, d, p) = t[n] /\ t[n].id = n
      BY NodeAt
  <2>2. t[n].depth + 1 = Len(t[n].path)
      BY <2>1, <1>4
  <2>3. CASE p = Root
      BY <2>1, <2>2, <2>3, <1>2 DEF RootEntry
  <2>4. CASE p # Root
    <3>1. PICK q \in Positions(d) : \E j \in DOMAIN d.kids[q] :
              /\ ChildEntry(At(t, d, q), j, At(t, d, p))
              /\ At(t, d, p).parent = d.id[q] /\ d.id[q] \in DOMAIN t /\ d.id[q] # None
        BY <2>4, ParentAt
    <3> QED BY <2>1, <2>2, <3>1 DEF ChildEntry, At
  <2> QED BY <2>3, <2>4
<1> HIDE DEF Length, Depth, Wrong
<1> QED BY <1>5 DEF PathsAgree

\* In every table that a pull of any file indexes, however deep, the paths and
\* depths are those of the parent links, although walk_node keeps one path for
\* all its calls.
THEOREM PathsAreParentLinks == Spec => []PathsFollowParents
<1>1. IndexInv => PathsFollowParents
    BY TablePaths DEF IndexInv, PathsFollowParents
<1> QED BY IndexInvariant, <1>1, PTL

LEMMA PathElements ==
    ASSUME NEW t, NEW d, TableOf(t, d), NEW m \in DOMAIN t
    PROVE  /\ t[m].path \in Seq(NodeId)
           /\ t[m].parent = None => ToSet(t[m].path) = {m}
           /\ t[m].parent # None =>
                  /\ t[m].parent \in DOMAIN t
                  /\ ToSet(t[m].path) = ToSet(t[t[m].parent].path) \union {m}
                  /\ Len(t[m].path) = Len(t[t[m].parent].path) + 1
<1>1. \A n \in DOMAIN t : t[n].path \in Seq(NodeId) /\ n \in NodeId
  <2> SUFFICES ASSUME NEW n \in DOMAIN t
               PROVE  t[n].path \in Seq(NodeId) /\ n \in NodeId
      OBVIOUS
  <2>1. PICK p \in Positions(d) : n = d.id[p] /\ At(t, d, p) = t[n]
      BY NodeAt
  <2>2. Entry(t, d, p) /\ d \in Documents
      BY DEF TableOf
  <2> QED BY <2>1, <2>2, DocumentIsTree DEF Entry
<1>2. /\ t[m].parent = None => t[m].path = <<m>>
      /\ t[m].parent # None =>
             t[m].parent \in DOMAIN t /\ t[m].path = Append(t[t[m].parent].path, m)
    BY TablePaths DEF PathsAgree
<1>3. ASSUME NEW s \in Seq(NodeId), NEW e \in NodeId
      PROVE  /\ ToSet(Append(s, e)) = ToSet(s) \union {e}
             /\ Len(Append(s, e)) = Len(s) + 1
  <2>1. PICK u : u = Append(s, e)
      OBVIOUS
  <2>2. /\ DOMAIN u = DOMAIN s \union {Len(s) + 1} /\ Len(u) = Len(s) + 1
        /\ \A i \in DOMAIN s : u[i] = s[i]
        /\ u[Len(s) + 1] = e
      BY <2>1
  <2>3. ToSet(u) = {u[i] : i \in DOMAIN u} /\ ToSet(s) = {s[i] : i \in DOMAIN s}
      BY DEF ToSet
  <2>4. ToSet(u) = ToSet(s) \union {e}
      BY <2>2, <2>3
  <2> QED BY <2>1, <2>2, <2>4
<1>4. ToSet(<<m>>) = {m}
    BY DEF ToSet
<1> QED BY <1>1, <1>2, <1>3, <1>4

\* The recursion over parent links has one solution, and path_ids holds it.
LEMMA BelowIsOnPath ==
    ASSUME NEW t, NEW d, TableOf(t, d), NEW n
    PROVE  Below(t, n) = {m \in DOMAIN t : n \in ToSet(t[m].path)}
<1> DEFINE Solves(in) == in = [m \in DOMAIN t |-> m = n \/ (t[m].parent # None /\ in[t[m].parent])]
           onPath == [m \in DOMAIN t |-> n \in ToSet(t[m].path)]
<1>1. Below(t, n) = {m \in DOMAIN t : (CHOOSE in : Solves(in))[m]}
    BY DEF Below
<1>2. Solves(onPath)
  <2>1. ASSUME NEW m \in DOMAIN t
        PROVE  onPath[m] <=> (m = n \/ (t[m].parent # None /\ onPath[t[m].parent]))
    <3>1. \A k \in DOMAIN t : onPath[k] <=> n \in ToSet(t[k].path)
        BY Zenon
    <3> HIDE DEF onPath
    <3>2. CASE t[m].parent = None
      <4>1. ToSet(t[m].path) = {m}
          BY <3>2, PathElements
      <4>2. onPath[m] <=> n \in ToSet(t[m].path)
          BY <3>1
      <4> QED BY <3>2, <4>1, <4>2, Zenon
    <3>3. CASE t[m].parent # None
      <4>1. /\ t[m].parent \in DOMAIN t
            /\ ToSet(t[m].path) = ToSet(t[t[m].parent].path) \union {m}
          BY <3>3, PathElements
      <4>2. /\ onPath[m] <=> n \in ToSet(t[m].path)
            /\ onPath[t[m].parent] <=> n \in ToSet(t[t[m].parent].path)
          BY <3>1, <4>1
      <4> QED BY <3>3, <4>1, <4>2, Zenon
    <3> QED BY <3>2, <3>3
  <2>2. \A m \in DOMAIN t : (n \in ToSet(t[m].path)) =
            (m = n \/ (t[m].parent # None /\ onPath[t[m].parent]))
    <3>1. \A k \in DOMAIN t : onPath[k] <=> n \in ToSet(t[k].path)
        BY Zenon
    <3> HIDE DEF onPath
    <3> QED BY <2>1, <3>1
  <2> QED BY <2>2, Zenon
<1>3. ASSUME NEW in, Solves(in)
      PROVE  \A m \in DOMAIN t : in[m] <=> n \in ToSet(t[m].path)
  <2>1. \A m \in DOMAIN t : in[m] <=> (m = n \/ (t[m].parent # None /\ in[t[m].parent]))
      BY <1>3, Zenon
  <2> DEFINE Wrong == {m \in DOMAIN t : ~(in[m] <=> n \in ToSet(t[m].path))}
             Lengths == {Len(t[m].path) : m \in Wrong}
  <2>2. ASSUME Wrong # {} PROVE FALSE
    <3>1. Lengths \in SUBSET Nat /\ Lengths # {}
      <4>1. \A m \in Wrong : Len(t[m].path) \in Nat
        <5>1. \A m \in DOMAIN t : t[m].path \in Seq(NodeId)
            BY PathElements
        <5> QED BY <5>1
      <4> HIDE DEF Wrong
      <4> QED BY <2>2, <4>1
    <3>2. PICK l \in Lengths : \A k \in Lengths : l <= k
        BY <3>1, LeastNatural
    <3>3. PICK m \in Wrong : l = Len(t[m].path)
        BY <3>2
    <3>4. CASE t[m].parent = None
      <4>1. ToSet(t[m].path) = {m}
          BY <3>4, PathElements
      <4>2. ~(in[m] <=> n \in ToSet(t[m].path)) /\ m \in DOMAIN t
          BY <3>3, Zenon
      <4>3. in[m] <=> m = n
          BY <3>4, <4>2, <2>1, Zenon
      <4> QED BY <4>1, <4>2, <4>3, Zenon
    <3>5. CASE t[m].parent # None
      <4>1. t[m].parent \in DOMAIN t /\ ~(t[m].parent \in Wrong)
        <5>1. /\ t[m].parent \in DOMAIN t
              /\ Len(t[m].path) = Len(t[t[m].parent].path) + 1
              /\ Len(t[t[m].parent].path) \in Nat
            BY <3>5, PathElements
        <5>2. ~(Len(t[t[m].parent].path) \in Lengths)
            BY <5>1, <3>2, <3>3, SMTT(30)
        <5> QED BY <5>1, <5>2
      <4>2. ToSet(t[m].path) = ToSet(t[t[m].parent].path) \union {m}
          BY <3>5, PathElements
      <4>3. in[t[m].parent] <=> n \in ToSet(t[t[m].parent].path)
          BY <4>1, Zenon
      <4>4. ~(in[m] <=> n \in ToSet(t[m].path)) /\ m \in DOMAIN t
          BY <3>3, Zenon
      <4>5. in[m] <=> (m = n \/ in[t[m].parent])
          BY <3>5, <4>4, <2>1, Zenon
      <4> QED BY <4>2, <4>3, <4>4, <4>5, Zenon
    <3> QED BY <3>4, <3>5
  <2> QED BY <2>2
<1> HIDE DEF Solves, onPath
<1>4. Solves(CHOOSE in : Solves(in))
    BY <1>2
<1> QED BY <1>1, <1>3, <1>4

\* The categories when every node that there is passes the filters.
LEMMA UnfilteredDiff ==
    ASSUME NEW old, NEW new, NEW f,
           \A n \in DOMAIN old \union DOMAIN new : Matches(RowsOf(old, new, n), f)
    PROVE  LET all == CompareNodes(old, new, f)
               both == DOMAIN old \intersect DOMAIN new
           IN  /\ all.added = DOMAIN new \ DOMAIN old
               /\ all.removed = DOMAIN old \ DOMAIN new
               /\ all.changed = {n \in both : Own(old[n]) # Own(new[n])}
               /\ all.moved = {n \in both : Moved(old[n], new[n])}
               /\ all.descendantOnly = {n \in both : DescendantsDiffer(old[n], new[n])}
<1>1. /\ {n \in DOMAIN new \ DOMAIN old : Matches(RowsOf(old, new, n), f)}
             = DOMAIN new \ DOMAIN old
      /\ {n \in DOMAIN old \ DOMAIN new : Matches(RowsOf(old, new, n), f)}
             = DOMAIN old \ DOMAIN new
      /\ {n \in DOMAIN old \intersect DOMAIN new : Matches(RowsOf(old, new, n), f)}
             = DOMAIN old \intersect DOMAIN new
    OBVIOUS
<1> QED BY <1>1 DEF CompareNodes

\* --node, which filters by the ids on the paths of rows, shows what the whole
\* diff tells of the nodes below the node in one of the two snapshots, and all of
\* it.
THEOREM NodeFilterShowsSubtree == Spec => []NodeFilterIsSubtree
<1>1. ASSUME IndexInv, diff # None, filter.node # Unset, filter.type = Unset,
             filter.prefix = <<>>
      PROVE  \A c \in Categories :
                 diff[c] = CompareNodes(before, after, NoFilter)[c]
                               \intersect (Below(before, filter.node) \union
                                           Below(after, filter.node))
  <2>1. Compared
      BY <1>1 DEF IndexInv
  <2>2. PICK d : TableOf(before, d)
      BY <1>1, <2>1 DEF IndexInv, Compared
  <2>3. TableOf(after, doc) /\ diff = CompareNodes(before, after, filter)
      BY <2>1 DEF Compared
  <2> DEFINE Scope == Below(before, filter.node) \union Below(after, filter.node)
             Kept(n) == Matches(RowsOf(before, after, n), filter)
             Known == DOMAIN before \union DOMAIN after
  <2>4. /\ Below(before, filter.node) = {m \in DOMAIN before : filter.node \in ToSet(before[m].path)}
        /\ Below(after, filter.node) = {m \in DOMAIN after : filter.node \in ToSet(after[m].path)}
      BY <2>2, <2>3, BelowIsOnPath
  <2>5. ASSUME NEW n \in Known
        PROVE  /\ Kept(n) <=> n \in Scope
               /\ Matches(RowsOf(before, after, n), NoFilter)
    <3>1. \A r \in RowsOf(before, after, n) : r.path \in Seq(NodeId)
        BY <2>2, <2>3, PathElements DEF RowsOf
    <3>2. \A r \in RowsOf(before, after, n) : IsPrefix(<<>>, r.path)
        BY <3>1 DEF IsPrefix
    <3>3. Kept(n) <=> \E r \in RowsOf(before, after, n) : filter.node \in ToSet(r.path)
        BY <1>1, <3>2 DEF Matches
    <3>4. (\E r \in RowsOf(before, after, n) : filter.node \in ToSet(r.path)) <=> n \in Scope
        BY <2>4 DEF RowsOf
    <3>5. RowsOf(before, after, n) # {}
        BY DEF RowsOf
    <3>6. Matches(RowsOf(before, after, n), NoFilter)
        BY <3>2, <3>5 DEF Matches, NoFilter
    <3> QED BY <3>3, <3>4, <3>6
  <2> HIDE DEF Scope, Kept
  <2>6. diff = [added |-> {n \in DOMAIN after \ DOMAIN before : Kept(n)},
                removed |-> {n \in DOMAIN before \ DOMAIN after : Kept(n)},
                changed |-> {n \in {m \in DOMAIN before \intersect DOMAIN after : Kept(m)} :
                                Own(before[n]) # Own(after[n])},
                moved |-> {n \in {m \in DOMAIN before \intersect DOMAIN after : Kept(m)} :
                              Moved(before[n], after[n])},
                descendantOnly |->
                    {n \in {m \in DOMAIN before \intersect DOMAIN after : Kept(m)} :
                        DescendantsDiffer(before[n], after[n])}]
      BY <2>3 DEF CompareNodes, Kept
  <2> DEFINE All == CompareNodes(before, after, NoFilter)
  <2>7. /\ All.added = DOMAIN after \ DOMAIN before
        /\ All.removed = DOMAIN before \ DOMAIN after
        /\ All.changed = {n \in DOMAIN before \intersect DOMAIN after :
                             Own(before[n]) # Own(after[n])}
        /\ All.moved = {n \in DOMAIN before \intersect DOMAIN after :
                           Moved(before[n], after[n])}
        /\ All.descendantOnly = {n \in DOMAIN before \intersect DOMAIN after :
                                    DescendantsDiffer(before[n], after[n])}
      BY <2>5, UnfilteredDiff
  <2> HIDE DEF All
  <2>8. /\ diff.added = All.added \intersect Scope
        /\ diff.removed = All.removed \intersect Scope
        /\ diff.changed = All.changed \intersect Scope
        /\ diff.moved = All.moved \intersect Scope
        /\ diff.descendantOnly = All.descendantOnly \intersect Scope
      BY <2>5, <2>6, <2>7
  <2> QED BY <2>8 DEF Categories, Scope, All
<1>2. IndexInv => NodeFilterIsSubtree
    BY <1>1 DEF NodeFilterIsSubtree
<1> QED BY IndexInvariant, <1>2, PTL

-----------------------------------------------------------------------------
(***************************************************************************)
(* Subtrees and their hashes                                               *)
(***************************************************************************)

\* ks are the children of n, in order, and there are no others.
KidsOf(t, n, ks) ==
    /\ n \in NodeId /\ t[n].id = n
    /\ ks \in Seq(NodeId)
    /\ t[n].subtree = <<n, t[n].fields, [j \in DOMAIN ks |-> t[ks[j]].subtree]>>
    /\ \A j \in DOMAIN ks : ks[j] \in DOMAIN t /\ ChildEntry(t[n], j, t[ks[j]])
    /\ \A k \in DOMAIN t : t[k].parent = n => \E j \in DOMAIN ks : k = ks[j]

LEMMA KidsAt ==
    ASSUME NEW t, NEW d, TableOf(t, d), NEW p \in Positions(d)
    PROVE  KidsOf(t, d.id[p], [j \in DOMAIN d.kids[p] |-> d.id[d.kids[p][j]]])
<1> DEFINE n == d.id[p]
           ks == [j \in DOMAIN d.kids[p] |-> d.id[d.kids[p][j]]]
<1>1. d \in Documents /\ Entry(t, d, p)
    BY DEF TableOf
<1>2. /\ n \in NodeId /\ t[n].id = n
      /\ t[n].subtree = <<n, t[n].fields,
                          [j \in DOMAIN d.kids[p] |-> At(t, d, d.kids[p][j]).subtree]>>
    BY <1>1, DocumentIsTree DEF Entry, At
<1>3. /\ DOMAIN d.kids[p] = 1 .. Len(d.kids[p]) /\ Len(d.kids[p]) \in Nat
      /\ \A j \in DOMAIN d.kids[p] : d.kids[p][j] \in Positions(d)
      /\ \A q \in Positions(d) : d.id[q] \in NodeId
    BY <1>1, DocumentIsTree
<1>4. ks \in Seq(NodeId)
    BY <1>3
<1>5. [j \in DOMAIN d.kids[p] |-> At(t, d, d.kids[p][j]).subtree]
          = [j \in DOMAIN ks |-> t[ks[j]].subtree]
    BY DEF At
<1>6. \A j \in DOMAIN ks : ks[j] \in DOMAIN t /\ ChildEntry(t[n], j, t[ks[j]])
    BY <1>1, <1>3 DEF Entry, At, TableOf
<1>7. ASSUME NEW k \in DOMAIN t, t[k].parent = n
      PROVE  \E j \in DOMAIN ks : k = ks[j]
  <2>1. PICK r \in Positions(d) : k = d.id[r] /\ At(t, d, r) = t[k]
      BY NodeAt
  <2>2. r # Root
      BY <2>1, <1>2, <1>7, NoneAssumption DEF TableOf, RootEntry
  <2>3. PICK q \in Positions(d) : \E j \in DOMAIN d.kids[q] :
            d.kids[q][j] = r /\ At(t, d, r).parent = d.id[q]
      BY <2>2, ParentAt
  <2>4. q = p
      BY <2>1, <2>3, <1>7 DEF TableOf
  <2> QED BY <2>1, <2>3, <2>4
<1> HIDE DEF ks, n
<1>8. KidsOf(t, n, ks)
    BY <1>2, <1>4, <1>5, <1>6, <1>7 DEF KidsOf
<1> QED BY <1>8 DEF n, ks

LEMMA TableKids ==
    ASSUME NEW t, NEW d, TableOf(t, d), NEW n \in DOMAIN t
    PROVE  \E ks : KidsOf(t, n, ks)
<1>1. PICK p \in Positions(d) : n = d.id[p]
    BY NodeAt
<1>2. KidsOf(t, d.id[p], [j \in DOMAIN d.kids[p] |-> d.id[d.kids[p][j]]])
    BY KidsAt
<1> QED BY <1>1, <1>2

\* Two nodes of one hash say the same, and so do their children in order.
LEMMA EqualHashes ==
    ASSUME NEW t, NEW u, NEW n, NEW m, NEW ks, NEW ls,
           KidsOf(t, n, ks), KidsOf(u, m, ls), t[n].subtree = u[m].subtree
    PROVE  /\ n = m /\ t[n].fields = u[m].fields /\ DOMAIN ks = DOMAIN ls
           /\ \A j \in DOMAIN ks : t[ks[j]].subtree = u[ls[j]].subtree
<1> DEFINE hs == [j \in DOMAIN ks |-> t[ks[j]].subtree]
           gs == [j \in DOMAIN ls |-> u[ls[j]].subtree]
<1>1. <<n, t[n].fields, hs>> = <<m, u[m].fields, gs>>
    BY DEF KidsOf
<1>2. n = m /\ t[n].fields = u[m].fields /\ hs = gs
    BY <1>1
<1>3. DOMAIN hs = DOMAIN ks /\ DOMAIN gs = DOMAIN ls
    OBVIOUS
<1>4. \A j \in DOMAIN ks : hs[j] = t[ks[j]].subtree
    OBVIOUS
<1>5. \A j \in DOMAIN ls : gs[j] = u[ls[j]].subtree
    OBVIOUS
<1> HIDE DEF hs, gs
<1> QED BY <1>2, <1>3, <1>4, <1>5

LEMMA OrderIsNatural ==
    ASSUME NEW t, NEW d, TableOf(t, d), NEW n \in DOMAIN t
    PROVE  t[n].order \in Nat /\ t[n].depth \in 0 .. MaxDepth
<1>1. PICK p \in Positions(d) : At(t, d, p) = t[n]
    BY NodeAt
<1>2. Entry(t, d, p)
    BY DEF TableOf
<1> QED BY <1>1, <1>2 DEF Entry

\* A node is on its own path.
LEMMA OwnPath ==
    ASSUME NEW t, NEW d, TableOf(t, d), NEW n \in DOMAIN t
    PROVE  n \in ToSet(t[n].path)
BY PathElements

\* One hash, one subtree: the same nodes with the same fields and places.
LEMMA EqualSubtrees ==
    ASSUME NEW t, NEW d, TableOf(t, d), NEW u, NEW e, TableOf(u, e),
           NEW n \in DOMAIN t \intersect DOMAIN u, t[n].subtree = u[n].subtree
    PROVE  \A m \in Below(t, n) :
               /\ m \in Below(u, n)
               /\ m \in DOMAIN t /\ m \in DOMAIN u
               /\ t[m].subtree = u[m].subtree
               /\ t[m].fields = u[m].fields
               /\ m # n => ~Moved(t[m], u[m])
<1> DEFINE Same(m) == /\ m \in DOMAIN u /\ n \in ToSet(u[m].path)
                      /\ t[m].subtree = u[m].subtree
                      /\ m # n => ~Moved(t[m], u[m])
           Wrong == {m \in Below(t, n) : ~Same(m)}
           Lengths == {Len(t[m].path) : m \in Wrong}
<1>1. Below(t, n) = {m \in DOMAIN t : n \in ToSet(t[m].path)}
    BY BelowIsOnPath
<1>2. \A m \in DOMAIN t : Len(t[m].path) \in Nat
  <2>1. \A m \in DOMAIN t : t[m].path \in Seq(NodeId)
      BY PathElements
  <2> QED BY <2>1
<1>3. ASSUME Wrong # {} PROVE FALSE
  <2>1. Lengths \in SUBSET Nat /\ Lengths # {}
      BY <1>1, <1>2, <1>3
  <2>2. PICK l \in Lengths : \A k \in Lengths : l <= k
      BY <2>1, LeastNatural
  <2>3. PICK m \in Wrong : l = Len(t[m].path)
      BY <2>2
  <2>4. m \in DOMAIN t /\ n \in ToSet(t[m].path) /\ ~Same(m)
      BY <2>3, <1>1
  <2>5. m # n
      BY <2>4, OwnPath
  <2>6. t[m].parent # None
    <3>1. t[m].parent = None => ToSet(t[m].path) = {m}
        BY <2>4, PathElements
    <3> QED BY <3>1, <2>4, <2>5
  <2>7. PICK h : h = t[m].parent
      OBVIOUS
  <2>8. /\ h \in DOMAIN t /\ ToSet(t[m].path) = ToSet(t[h].path) \union {m}
        /\ Len(t[m].path) = Len(t[h].path) + 1
      BY <2>4, <2>6, <2>7, PathElements
  <2>9. h \in Below(t, n)
      BY <2>4, <2>5, <2>8, <1>1
  <2>10. h \notin Wrong
    <3>1. Len(t[h].path) < l
        BY <2>3, <2>8, <1>2
    <3>2. Len(t[h].path) \notin Lengths
        BY <3>1, <2>1, <2>2, <2>8, <1>2
    <3> QED BY <3>2
  <2>11. Same(h)
      BY <2>9, <2>10
  <2>12. PICK ks : KidsOf(t, h, ks)
      BY <2>8, TableKids
  <2>13. PICK ls : KidsOf(u, h, ls)
      BY <2>11, TableKids
  <2>14. DOMAIN ks = DOMAIN ls /\ \A j \in DOMAIN ks : t[ks[j]].subtree = u[ls[j]].subtree
      BY <2>11, <2>12, <2>13, EqualHashes
  <2>15. PICK j \in DOMAIN ks : m = ks[j]
      BY <2>4, <2>7, <2>12 DEF KidsOf
  <2>16. /\ j \in DOMAIN ls /\ ls[j] \in DOMAIN u
         /\ ChildEntry(t[h], j, t[m]) /\ ChildEntry(u[h], j, u[ls[j]])
      BY <2>12, <2>13, <2>14, <2>15 DEF KidsOf
  <2>17. t[m].subtree = u[ls[j]].subtree /\ m = ls[j]
    <3>1. PICK k1 : KidsOf(t, m, k1)
        BY <2>4, TableKids
    <3>2. PICK k2 : KidsOf(u, ls[j], k2)
        BY <2>16, TableKids
    <3> QED BY <3>1, <3>2, <2>14, <2>15, EqualHashes
  <2>18. t[h].id = h /\ u[h].id = h
      BY <2>12, <2>13 DEF KidsOf
  <2>19. u[m].parent = h
      BY <2>16, <2>17, <2>18 DEF ChildEntry
  <2>20. ~Moved(t[m], u[m])
    <3>1. t[m].order \in Nat /\ u[m].order \in Nat
        BY <2>4, <2>16, <2>17, OrderIsNatural
    <3>2. t[m].order + 1 = j /\ u[m].order + 1 = j
        BY <2>16, <2>17 DEF ChildEntry
    <3>3. t[m].order = u[m].order
        BY <3>1, <3>2
    <3> QED BY <3>3, <2>7, <2>19 DEF Moved
  <2>21. n \in ToSet(u[m].path)
    <3>1. h # None
        BY <2>6, <2>7
    <3>2. ToSet(u[m].path) = ToSet(u[h].path) \union {m}
        BY <3>1, <2>16, <2>17, <2>19, PathElements
    <3> QED BY <3>2, <2>11
  <2> QED BY <2>4, <2>16, <2>17, <2>20, <2>21
<1>4. ASSUME NEW m \in DOMAIN t, m \in DOMAIN u, t[m].subtree = u[m].subtree
      PROVE  t[m].fields = u[m].fields
  <2>1. PICK k1 : KidsOf(t, m, k1)
      BY TableKids
  <2>2. PICK k2 : KidsOf(u, m, k2)
      BY <1>4, TableKids
  <2> QED BY <2>1, <2>2, <1>4, EqualHashes
<1>5. Below(u, n) = {m \in DOMAIN u : n \in ToSet(u[m].path)}
    BY BelowIsOnPath
<1> QED BY <1>1, <1>3, <1>4, <1>5

-----------------------------------------------------------------------------
(***************************************************************************)
(* What an unfiltered diff tells                                           *)
(***************************************************************************)

\* The answer of an unfiltered diff, in the tables that it read.
LEMMA WholeDiff ==
    ASSUME IndexInv, diff # None, filter = NoFilter
    PROVE  /\ \E d : TableOf(before, d) /\ view = Json(d)
           /\ TableOf(after, doc)
           /\ diff["added"] = DOMAIN after \ DOMAIN before
           /\ diff["removed"] = DOMAIN before \ DOMAIN after
           /\ diff["changed"] = {n \in DOMAIN before \intersect DOMAIN after :
                                    Own(before[n]) # Own(after[n])}
           /\ diff["moved"] = {n \in DOMAIN before \intersect DOMAIN after :
                                  Moved(before[n], after[n])}
           /\ diff["descendantOnly"] = {n \in DOMAIN before \intersect DOMAIN after :
                                           DescendantsDiffer(before[n], after[n])}
           /\ Reported = diff["added"] \union diff["removed"] \union diff["changed"]
                             \union diff["moved"] \union diff["descendantOnly"]
<1>1. Compared
    BY DEF IndexInv
<1>2. PICK d : TableOf(before, d) /\ view = Json(d)
    BY <1>1 DEF IndexInv, Compared
<1>3. TableOf(after, doc) /\ diff = CompareNodes(before, after, NoFilter)
    BY <1>1 DEF Compared
<1>4. ASSUME NEW n \in DOMAIN before \union DOMAIN after
      PROVE  Matches(RowsOf(before, after, n), NoFilter)
  <2>1. \A r \in RowsOf(before, after, n) : r.path \in Seq(NodeId)
      BY <1>2, <1>3, PathElements DEF RowsOf
  <2>2. \A r \in RowsOf(before, after, n) : IsPrefix(<<>>, r.path)
      BY <2>1 DEF IsPrefix
  <2>3. RowsOf(before, after, n) # {}
      BY DEF RowsOf
  <2> QED BY <2>2, <2>3 DEF Matches, NoFilter
<1>5. Reported = diff["added"] \union diff["removed"] \union diff["changed"]
                     \union diff["moved"] \union diff["descendantOnly"]
    BY DEF Reported, Categories
<1>6. /\ diff["added"] = DOMAIN after \ DOMAIN before
      /\ diff["removed"] = DOMAIN before \ DOMAIN after
      /\ diff["changed"] = {n \in DOMAIN before \intersect DOMAIN after :
                               Own(before[n]) # Own(after[n])}
      /\ diff["moved"] = {n \in DOMAIN before \intersect DOMAIN after :
                             Moved(before[n], after[n])}
      /\ diff["descendantOnly"] = {n \in DOMAIN before \intersect DOMAIN after :
                                      DescendantsDiffer(before[n], after[n])}
    BY <1>3, <1>4, UnfilteredDiff
<1> QED BY <1>2, <1>3, <1>5, <1>6

\* A node that an unfiltered diff does not report is as it was, and so are all
\* the nodes below it, which are the same in both files: a reader may skip what
\* is below it.
THEOREM NothingIsReportedBelow == Spec => []AncestorsAreReported
<1>1. ASSUME IndexInv, diff # None, filter = NoFilter,
             NEW n \in DOMAIN before \intersect DOMAIN after, n \notin Reported
      PROVE  /\ Below(before, n) = Below(after, n)
             /\ Below(after, n) \intersect Reported = {}
  <2>1. PICK d : TableOf(before, d)
      BY <1>1, WholeDiff
  <2>2. TableOf(after, doc)
      BY <1>1, WholeDiff
  <2>3. before[n].subtree = after[n].subtree
      BY <1>1, WholeDiff DEF DescendantsDiffer
  <2>4. \A m \in Below(before, n) :
            /\ m \in Below(after, n)
            /\ m \in DOMAIN before /\ m \in DOMAIN after
            /\ before[m].subtree = after[m].subtree
            /\ before[m].fields = after[m].fields
            /\ m # n => ~Moved(before[m], after[m])
      BY <2>1, <2>2, <2>3, EqualSubtrees
  <2>5. \A m \in Below(after, n) : m \in Below(before, n)
      BY <2>1, <2>2, <2>3, EqualSubtrees
  <2>6. ASSUME NEW m \in Below(after, n)
        PROVE  m \notin Reported
    <3>1. /\ m \in DOMAIN before /\ m \in DOMAIN after
          /\ before[m].subtree = after[m].subtree
          /\ before[m].fields = after[m].fields
          /\ m # n => ~Moved(before[m], after[m])
        BY <2>4, <2>5
    <3>2. before[m].id = m /\ after[m].id = m
        BY <3>1, <2>1, <2>2, NodeAt
    <3>3. Own(before[m]) = Own(after[m])
        BY <3>1, <3>2 DEF Own
    <3>4. m = n \/ m \notin Reported
        BY <1>1, <3>1, <3>3, WholeDiff DEF DescendantsDiffer
    <3> QED BY <1>1, <3>4
  <2> QED BY <2>4, <2>5, <2>6
<1>2. IndexInv => AncestorsAreReported
    BY <1>1 DEF AncestorsAreReported
<1> QED BY IndexInvariant, <1>2, PTL

\* The j-th child, which is in one table at a place at which another table has no
\* such child, is not in the other one, or it was moved.
LEMMA ElsewhereOrMoved ==
    ASSUME NEW t, NEW d, TableOf(t, d), NEW u, NEW e, TableOf(u, e),
           NEW n, NEW ks, NEW ls, KidsOf(t, n, ks), KidsOf(u, n, ls),
           NEW j \in DOMAIN ks, ~(j \in DOMAIN ls /\ ls[j] = ks[j]),
           ks[j] \in DOMAIN u
    PROVE  Moved(t[ks[j]], u[ks[j]]) /\ Moved(u[ks[j]], t[ks[j]])
<1> DEFINE k == ks[j]
<1>1. k \in DOMAIN t /\ t[k].parent = n /\ t[k].order + 1 = j
    BY DEF KidsOf, ChildEntry
<1>2. t[k].order \in Nat /\ u[k].order \in Nat
    BY <1>1, OrderIsNatural
<1>3. ASSUME u[k].parent = n PROVE u[k].order # t[k].order
  <2>1. PICK i \in DOMAIN ls : k = ls[i]
      BY <1>3 DEF KidsOf
  <2>2. u[k].order + 1 = i
      BY <2>1 DEF KidsOf, ChildEntry
  <2>3. i # j
      BY <2>1
  <2> QED BY <1>1, <1>2, <2>2, <2>3
<1> QED BY <1>1, <1>3 DEF Moved

LEMMA ChildBelow ==
    ASSUME NEW t, NEW d, TableOf(t, d), NEW n, NEW m \in Below(t, n), m \in DOMAIN t,
           NEW ks, KidsOf(t, m, ks), NEW j \in DOMAIN ks
    PROVE  ks[j] \in Below(t, n) /\ ks[j] \in DOMAIN t /\ t[ks[j]].depth = t[m].depth + 1
<1>1. /\ ks[j] \in DOMAIN t /\ t[ks[j]].parent = m /\ t[ks[j]].depth = t[m].depth + 1
      /\ m # None
    BY NoneAssumption DEF KidsOf, ChildEntry
<1>2. ToSet(t[ks[j]].path) = ToSet(t[m].path) \union {ks[j]}
    BY <1>1, PathElements
<1> QED BY <1>1, <1>2, BelowIsOnPath

\* "descendantOnly" is said of no node that has nothing to show below it: going
\* down from it, from one node whose hash differs to the next, one comes to a
\* node that was added, removed, changed or moved, since no branch has more than
\* MaxDepth levels.
THEOREM DescendantsOfItDiffer == Spec => []DescendantOnlyIsTrue
<1>1. ASSUME IndexInv, diff # None, filter = NoFilter, NEW n \in diff["descendantOnly"]
      PROVE  \E m \in (Below(before, n) \union Below(after, n)) \ {n} :
                 m \in Reported \ diff["descendantOnly"]
  <2>1. PICK d : TableOf(before, d)
      BY <1>1, WholeDiff
  <2>2. TableOf(after, doc)
      BY <1>1, WholeDiff
  <2> DEFINE Differing ==
          {m \in DOMAIN before \intersect DOMAIN after :
              /\ DescendantsDiffer(before[m], after[m])
              /\ m \in Below(before, n) /\ m \in Below(after, n)
              /\ before[n].depth <= before[m].depth
              /\ after[n].depth <= after[m].depth}
             Depths == {before[m].depth : m \in Differing}
  <2>3. n \in DOMAIN before /\ n \in DOMAIN after /\ DescendantsDiffer(before[n], after[n])
      BY <1>1, WholeDiff
  <2>4. n \in Differing
    <3>1. n \in Below(before, n) /\ n \in Below(after, n)
        BY <2>1, <2>2, <2>3, OwnPath, BelowIsOnPath
    <3>2. before[n].depth \in 0 .. MaxDepth /\ after[n].depth \in 0 .. MaxDepth
        BY <2>1, <2>2, <2>3, OrderIsNatural
    <3>3. before[n].depth <= before[n].depth /\ after[n].depth <= after[n].depth
        BY <3>2, LimitsAssumption
    <3> QED BY <2>3, <3>1, <3>3
  <2>5. Depths \in SUBSET Nat /\ Depths # {} /\ \A l \in Depths : l <= MaxDepth
    <3>1. \A m \in DOMAIN before : before[m].depth \in 0 .. MaxDepth
        BY <2>1, OrderIsNatural
    <3> HIDE DEF Differing
    <3>2. \A m \in Differing : before[m].depth \in 0 .. MaxDepth
        BY <3>1 DEF Differing
    <3> QED BY <2>4, <3>2, LimitsAssumption
  <2>6. PICK l \in Depths : \A k \in Depths : k <= l
      BY <2>5, GreatestNatural, LimitsAssumption
  <2>7. PICK m \in Differing : l = before[m].depth
      BY <2>6
  <2>8. /\ m \in DOMAIN before /\ m \in DOMAIN after
        /\ m \in Below(before, n) /\ m \in Below(after, n)
        /\ Own(before[m]) = Own(after[m]) /\ before[m].subtree # after[m].subtree
        /\ before[n].depth <= before[m].depth
        /\ after[n].depth <= after[m].depth
      BY <2>7 DEF DescendantsDiffer
  <2>9. /\ before[m].depth \in 0 .. MaxDepth /\ after[m].depth \in 0 .. MaxDepth
        /\ before[n].depth \in 0 .. MaxDepth /\ after[n].depth \in 0 .. MaxDepth
      BY <2>1, <2>2, <2>3, <2>8, OrderIsNatural
  <2>10. PICK ks : KidsOf(before, m, ks)
      BY <2>1, <2>8, TableKids
  <2>11. PICK ls : KidsOf(after, m, ls)
      BY <2>2, <2>8, TableKids
  <2>12. ASSUME NEW c \in DOMAIN before, c \in Below(before, n),
                before[c].depth = before[m].depth + 1
         PROVE  c \in (Below(before, n) \union Below(after, n)) \ {n}
      BY <2>8, <2>9, <2>12, LimitsAssumption
  <2>13. ASSUME NEW c \in DOMAIN after, c \in Below(after, n),
                after[c].depth = after[m].depth + 1
         PROVE  c \in (Below(before, n) \union Below(after, n)) \ {n}
      BY <2>8, <2>9, <2>13, LimitsAssumption
  <2>14. CASE \E j \in DOMAIN ks : ~(j \in DOMAIN ls /\ ls[j] = ks[j])
    <3>1. PICK j \in DOMAIN ks : ~(j \in DOMAIN ls /\ ls[j] = ks[j])
        BY <2>14
    <3>2. /\ ks[j] \in DOMAIN before /\ ks[j] \in Below(before, n)
          /\ before[ks[j]].depth = before[m].depth + 1
        BY <2>1, <2>8, <2>10, ChildBelow
    <3>3. ks[j] \in DOMAIN after => Moved(before[ks[j]], after[ks[j]])
        BY <2>1, <2>2, <2>10, <2>11, <3>1, ElsewhereOrMoved
    <3>4. ks[j] \in Reported /\ ks[j] \notin diff["descendantOnly"]
        BY <1>1, <3>2, <3>3, WholeDiff DEF DescendantsDiffer
    <3> QED BY <2>12, <3>2, <3>4
  <2>15. CASE \E j \in DOMAIN ls : ~(j \in DOMAIN ks /\ ks[j] = ls[j])
    <3>1. PICK j \in DOMAIN ls : ~(j \in DOMAIN ks /\ ks[j] = ls[j])
        BY <2>15
    <3>2. /\ ls[j] \in DOMAIN after /\ ls[j] \in Below(after, n)
          /\ after[ls[j]].depth = after[m].depth + 1
        BY <2>2, <2>8, <2>11, ChildBelow
    <3>3. ls[j] \in DOMAIN before => Moved(before[ls[j]], after[ls[j]])
        BY <2>1, <2>2, <2>10, <2>11, <3>1, ElsewhereOrMoved
    <3>4. ls[j] \in Reported /\ ls[j] \notin diff["descendantOnly"]
        BY <1>1, <3>2, <3>3, WholeDiff DEF DescendantsDiffer
    <3> QED BY <2>13, <3>2, <3>4
  <2>16. CASE /\ \A j \in DOMAIN ks : j \in DOMAIN ls /\ ls[j] = ks[j]
              /\ \A j \in DOMAIN ls : j \in DOMAIN ks /\ ks[j] = ls[j]
    <3>1. DOMAIN ks = DOMAIN ls
        BY <2>16
    <3>2. PICK j \in DOMAIN ks : before[ks[j]].subtree # after[ks[j]].subtree
      <4>1. [j \in DOMAIN ks |-> before[ks[j]].subtree]
                # [j \in DOMAIN ls |-> after[ls[j]].subtree]
        <5>1. before[m].fields = after[m].fields
            BY <2>8 DEF Own
        <5> QED BY <5>1, <2>8, <2>10, <2>11 DEF KidsOf
      <4> QED BY <4>1, <2>16, <3>1
    <3>3. PICK c : c = ks[j]
        OBVIOUS
    <3>4. /\ c \in DOMAIN before /\ c \in Below(before, n)
          /\ before[c].depth = before[m].depth + 1
          /\ ChildEntry(before[m], j, before[c])
        BY <2>1, <2>8, <2>10, <3>3, ChildBelow, SMTT(30) DEF KidsOf
    <3>5. /\ c \in DOMAIN after /\ c \in Below(after, n)
          /\ after[c].depth = after[m].depth + 1
          /\ ChildEntry(after[m], j, after[c])
        BY <2>2, <2>8, <2>11, <2>16, <3>3, ChildBelow DEF KidsOf
    <3>6. ~Moved(before[c], after[c])
      <4>1. before[c].order \in Nat /\ after[c].order \in Nat
          BY <2>1, <2>2, <3>4, <3>5, OrderIsNatural
      <4>2. before[m].id = m /\ after[m].id = m
          BY <2>10, <2>11 DEF KidsOf
      <4>3. before[c].parent = after[c].parent
          BY <3>4, <3>5, <4>2 DEF ChildEntry
      <4>4. before[c].order + 1 = j /\ after[c].order + 1 = j
          BY <3>4, <3>5 DEF ChildEntry
      <4>5. before[c].order = after[c].order
          BY <4>1, <4>4
      <4> QED BY <4>3, <4>5 DEF Moved
    <3>7. CASE Own(before[c]) # Own(after[c])
      <4>1. c \in Reported /\ c \notin diff["descendantOnly"]
          BY <1>1, <3>4, <3>5, <3>7, WholeDiff DEF DescendantsDiffer
      <4> QED BY <2>12, <3>4, <4>1
    <3>8. CASE Own(before[c]) = Own(after[c])
      <4>1. DescendantsDiffer(before[c], after[c])
          BY <3>2, <3>3, <3>6, <3>8 DEF DescendantsDiffer
      <4>2. /\ before[n].depth <= before[c].depth
            /\ after[n].depth <= after[c].depth
          BY <2>8, <2>9, <3>4, <3>5, LimitsAssumption
      <4>3. c \in Differing
          BY <3>4, <3>5, <4>1, <4>2
      <4>4. before[c].depth \in Depths
          BY <4>3
      <4>5. before[m].depth + 1 <= before[m].depth
          BY <2>6, <2>7, <3>4, <4>4
      <4> QED BY <2>9, <4>5, LimitsAssumption
    <3> QED BY <3>7, <3>8
  <2> QED BY <2>14, <2>15, <2>16
<1>2. ASSUME IndexInv, diff # None, filter = NoFilter, NEW n \in diff["descendantOnly"]
      PROVE  before[n].fields = after[n].fields
  <2>1. Own(before[n]) = Own(after[n])
      BY <1>2, WholeDiff DEF DescendantsDiffer
  <2> QED BY <2>1 DEF Own
<1>3. IndexInv => DescendantOnlyIsTrue
    BY <1>1, <1>2 DEF DescendantOnlyIsTrue
<1> QED BY IndexInvariant, <1>3, PTL

-----------------------------------------------------------------------------
(***************************************************************************)
(* The raw view                                                            *)
(***************************************************************************)

\* load_node finds the children of a node in their order: as many come before
\* a child as its place says.
LEMMA ChildrenInOrder ==
    ASSUME NEW t, NEW d, TableOf(t, d), NEW n \in DOMAIN t, NEW ks, KidsOf(t, n, ks)
    PROVE  /\ ChildIds(t, n) = ks
           /\ {t[k].order : k \in {m \in DOMAIN t : t[m].parent = n}}
                  = {i - 1 : i \in DOMAIN ks}
<1> DEFINE kids == {k \in DOMAIN t : t[k].parent = n}
           Before(k) == {m \in kids : t[m].order < t[k].order}
<1>1. PICK l : l = Len(ks)
    OBVIOUS
<1>2. l \in Nat /\ DOMAIN ks = 1 .. l /\ ks = [i \in 1 .. l |-> ks[i]]
    BY <1>1 DEF KidsOf
<1>3. \A j \in 1 .. l : ks[j] \in kids /\ t[ks[j]].order + 1 = j /\ t[ks[j]].order \in Nat
  <2> SUFFICES ASSUME NEW j \in 1 .. l
               PROVE  ks[j] \in kids /\ t[ks[j]].order + 1 = j /\ t[ks[j]].order \in Nat
      OBVIOUS
  <2>1. ks[j] \in DOMAIN t /\ t[ks[j]].parent = n /\ t[ks[j]].order + 1 = j
      BY <1>2 DEF KidsOf, ChildEntry
  <2> QED BY <2>1, OrderIsNatural
<1>4. \A k \in kids : \E j \in 1 .. l : k = ks[j]
    BY <1>2 DEF KidsOf
<1>5. \A i, j \in 1 .. l : ks[i] = ks[j] => i = j
    BY <1>3
<1> HIDE DEF kids
<1>6. Cardinality(kids) = l
  <2>1. ks \in Bijection(1 .. l, kids)
      BY <1>2, <1>3, <1>4, <1>5 DEF Bijection, Injection, IsInjective, Surjection
  <2>2. ExistsBijection(1 .. l, kids)
      BY <2>1 DEF ExistsBijection
  <2> QED BY <2>2, <1>2, IntervalSize, FS_Bijection
<1>7. ASSUME NEW j \in 1 .. l
      PROVE  Cardinality(Before(ks[j])) = j - 1
  <2> DEFINE first_ == [i \in 1 .. j - 1 |-> ks[i]]
  <2>1. j - 1 \in Nat /\ \A i \in 1 .. j - 1 : i \in 1 .. l
      BY <1>2
  <2>2. \A i \in 1 .. l : ks[i] \in Before(ks[j]) <=> i < j
      BY <1>3
  <2>3. \A k \in Before(ks[j]) : \E i \in 1 .. j - 1 : k = ks[i]
    <3> SUFFICES ASSUME NEW k \in Before(ks[j])
                 PROVE  \E i \in 1 .. j - 1 : k = ks[i]
        OBVIOUS
    <3>1. PICK i \in 1 .. l : k = ks[i]
        BY <1>4
    <3>2. i < j
        BY <3>1, <2>2
    <3> QED BY <3>1, <3>2
  <2> HIDE DEF Before
  <2>4. first_ \in Bijection(1 .. j - 1, Before(ks[j]))
    <3>1. \A i \in 1 .. j - 1 : first_[i] = ks[i] /\ ks[i] \in Before(ks[j])
        BY <2>1, <2>2
    <3>2. first_ \in [1 .. j - 1 -> Before(ks[j])]
        BY <3>1
    <3>3. \A i, k \in 1 .. j - 1 : first_[i] = first_[k] => i = k
        BY <2>1, <1>5
    <3>4. \A k \in Before(ks[j]) : \E i \in 1 .. j - 1 : first_[i] = k
        BY <2>3
    <3> HIDE DEF first_
    <3> QED BY <3>2, <3>3, <3>4 DEF Bijection, Injection, IsInjective, Surjection
  <2>5. ExistsBijection(1 .. j - 1, Before(ks[j]))
      BY <2>4 DEF ExistsBijection
  <2> QED BY <2>5, <2>1, IntervalSize, FS_Bijection
<1>8. ASSUME NEW i \in 1 .. l
      PROVE  (CHOOSE k \in kids : Cardinality(Before(k)) = i - 1) = ks[i]
  <2> HIDE DEF Before
  <2>1. ks[i] \in kids /\ Cardinality(Before(ks[i])) = i - 1
      BY <1>3, <1>7
  <2>2. ASSUME NEW k \in kids, Cardinality(Before(k)) = i - 1
        PROVE  k = ks[i]
    <3>1. PICK j \in 1 .. l : k = ks[j]
        BY <1>4
    <3>2. j - 1 = i - 1
        BY <3>1, <2>2, <1>7
    <3>3. j = i
        BY <3>2, <1>2
    <3> QED BY <3>1, <3>3
  <2> QED BY <2>1, <2>2
<1>9. ChildIds(t, n) = [i \in 1 .. l |-> ks[i]]
  <2>1. ChildIds(t, n) = [i \in 1 .. Cardinality(kids) |->
                             CHOOSE k \in kids : Cardinality(Before(k)) = i - 1]
      BY DEF ChildIds, kids
  <2> HIDE DEF Before
  <2> QED BY <2>1, <1>6, <1>8
<1>10. {t[k].order : k \in kids} = {i - 1 : i \in 1 .. l}
  <2>1. \A j \in 1 .. l : t[ks[j]].order = j - 1
      BY <1>3
  <2> QED BY <2>1, <1>3, <1>4
<1> QED BY <1>2, <1>9, <1>10 DEF kids

\* The JSON of the node at a position, from that of its children.
JsonOf(J, d, p) ==
    IF d.kids[p] = <<>> THEN [id |-> d.id[p], fields |-> d.fields[p]]
    ELSE [id |-> d.id[p], fields |-> d.fields[p],
          children |-> [i \in DOMAIN d.kids[p] |-> J[d.kids[p][i]]]]

IsJson(J, d) == \A p \in Positions(d) : J[p] = JsonOf(J, d, p)

LEMMA NoChildren ==
    ASSUME NEW d \in Documents, NEW p \in Positions(d), NEW J
    PROVE  [i \in DOMAIN d.kids[p] |-> J[d.kids[p][i]]] = <<>> <=> d.kids[p] = <<>>
<1>1. DOMAIN d.kids[p] = 1 .. Len(d.kids[p]) /\ d.kids[p] \in Seq(Positions(d))
    BY DocumentIsTree
<1>2. d.kids[p] = <<>> <=> DOMAIN d.kids[p] = {}
  <2>1. PICK s \in Seq(Positions(d)) : s = d.kids[p]
      BY <1>1
  <2>2. s = <<>> <=> DOMAIN s = {}
      OBVIOUS
  <2> QED BY <2>1, <2>2
<1>3. [i \in DOMAIN d.kids[p] |-> J[d.kids[p][i]]] = <<>> <=> DOMAIN d.kids[p] = {}
    OBVIOUS
<1> QED BY <1>2, <1>3

\* The recursion over the file has a solution: one step before the positions
\* from k on, that at k - 1 can be added.
LEMMA JsonExists ==
    ASSUME NEW d \in Documents
    PROVE  \E J : IsJson(J, d) /\ Json(d) = J[Root]
<1> DEFINE Solves(J) == J = [p \in Positions(d) |-> JsonOf(J, d, p)]
           From(k) == \E J : \A p \in Positions(d) : k <= p => J[p] = JsonOf(J, d, p)
           Reached == {k \in 1 .. Len(d.id) + 1 : From(k)}
<1>1. Positions(d) = 1 .. Len(d.id) /\ Len(d.id) \in Nat /\ Root \in Positions(d)
    BY DocumentIsTree
<1>2. Reached # {}
  <2>1. \A p \in Positions(d) : ~(Len(d.id) + 1 <= p)
      BY <1>1
  <2>2. From(Len(d.id) + 1)
      BY <2>1
  <2>3. Len(d.id) + 1 \in 1 .. Len(d.id) + 1
      BY <1>1
  <2> HIDE DEF From
  <2> QED BY <2>2, <2>3
<1>3. PICK k \in Reached : \A m \in Reached : k <= m
  <2> HIDE DEF From
  <2>1. Reached \in SUBSET Nat
      BY <1>1
  <2> QED BY <1>2, <2>1, LeastNatural
<1>4. k = 1
  <2> SUFFICES ASSUME k # 1 PROVE FALSE
      OBVIOUS
  <2>1. k \in 1 .. Len(d.id) + 1 /\ k - 1 \in 1 .. Len(d.id)
      BY <1>1, <1>3
  <2>2. PICK J : \A p \in Positions(d) : k <= p => J[p] = JsonOf(J, d, p)
      BY <1>3
  <2>3. PICK K : K = [p \in Positions(d) |-> IF k <= p THEN J[p] ELSE JsonOf(J, d, p)]
      OBVIOUS
  <2>4. ASSUME NEW p \in Positions(d), k - 1 <= p
        PROVE  K[p] = JsonOf(K, d, p)
    <3>1. \A i \in DOMAIN d.kids[p] : d.kids[p][i] \in Positions(d) /\ k <= d.kids[p][i]
      <4> SUFFICES ASSUME NEW i \in DOMAIN d.kids[p]
                   PROVE  d.kids[p][i] \in Positions(d) /\ k <= d.kids[p][i]
          OBVIOUS
      <4>1. d.kids[p][i] \in Positions(d) /\ d.kids[p][i] > p
          BY DocumentIsTree
      <4>2. d.kids[p][i] \in Nat /\ p \in Nat /\ k \in Nat
          BY <4>1, <2>1, <1>1
      <4> QED BY <2>4, <4>1, <4>2
    <3>2. \A i \in DOMAIN d.kids[p] : K[d.kids[p][i]] = J[d.kids[p][i]]
        BY <3>1, <2>3
    <3>3. [i \in DOMAIN d.kids[p] |-> K[d.kids[p][i]]]
              = [i \in DOMAIN d.kids[p] |-> J[d.kids[p][i]]]
        BY <3>2
    <3>4. JsonOf(K, d, p) = JsonOf(J, d, p)
        BY <3>3 DEF JsonOf
    <3> QED BY <3>4, <2>2, <2>3
  <2>5. From(k - 1)
      BY <2>4
  <2> HIDE DEF From
  <2>6. k - 1 \in Reached
      BY <2>1, <2>5
  <2> QED BY <1>3, <2>1, <2>6
<1>5. PICK J : \A p \in Positions(d) : k <= p => J[p] = JsonOf(J, d, p)
    BY <1>3
<1>6. \A p \in Positions(d) : J[p] = JsonOf(J, d, p)
    BY <1>1, <1>4, <1>5
<1>7. PICK K : K = [p \in Positions(d) |-> J[p]]
    OBVIOUS
<1>8. ASSUME NEW p \in Positions(d)
      PROVE  JsonOf(K, d, p) = J[p]
  <2>1. \A i \in DOMAIN d.kids[p] : d.kids[p][i] \in Positions(d)
      BY DocumentIsTree
  <2>2. [i \in DOMAIN d.kids[p] |-> K[d.kids[p][i]]]
            = [i \in DOMAIN d.kids[p] |-> J[d.kids[p][i]]]
      BY <2>1, <1>7
  <2>3. JsonOf(K, d, p) = JsonOf(J, d, p)
      BY <2>2 DEF JsonOf
  <2> QED BY <2>3, <1>6
<1>9. Solves(K)
    BY <1>7, <1>8
<1>10. Json(d) = (CHOOSE J_ : Solves(J_))[Root]
    BY DEF Json, JsonOf
<1> HIDE DEF Solves
<1>11. Solves(CHOOSE J_ : Solves(J_))
    BY <1>9
<1>12. PICK L : L = (CHOOSE J_ : Solves(J_))
    OBVIOUS
<1>13. IsJson(L, d)
    BY <1>11, <1>12 DEF Solves, IsJson
<1> QED BY <1>10, <1>12, <1>13

\* What raw_node makes of a node is what the file says at its position, from
\* the leaves up.
LEMMA RawIsJson ==
    ASSUME NEW t, NEW d, TableOf(t, d), NEW J, IsJson(J, d)
    PROVE  \A p \in Positions(d) : RawView(t, d.id[p]) = J[p]
<1> DEFINE Kids(p) == [j \in DOMAIN d.kids[p] |-> d.id[d.kids[p][j]]]
           Raw(raw, m) == LET kids == ChildIds(t, m)
                          IN  RawNode(m, t[m].fields, [i \in DOMAIN kids |-> raw[kids[i]]])
           Solves(raw) == raw = [m \in DOMAIN t |-> Raw(raw, m)]
<1>1. d \in Documents
    BY DEF TableOf
<1>2. ASSUME NEW raw, NEW p \in Positions(d),
             \A j \in DOMAIN d.kids[p] : raw[d.id[d.kids[p][j]]] = J[d.kids[p][j]]
      PROVE  Raw(raw, d.id[p]) = J[p]
  <2>1. d.id[p] \in DOMAIN t /\ t[d.id[p]].fields = d.fields[p]
      BY DEF TableOf, Entry, At
  <2>2. ChildIds(t, d.id[p]) = Kids(p)
      BY <2>1, KidsAt, ChildrenInOrder
  <2>3. PICK cs : cs = [i \in DOMAIN d.kids[p] |-> J[d.kids[p][i]]]
      OBVIOUS
  <2>4. [i \in DOMAIN Kids(p) |-> raw[Kids(p)[i]]] = cs
      BY <1>2, <2>3
  <2>5. Raw(raw, d.id[p]) = RawNode(d.id[p], d.fields[p], cs)
      BY <2>1, <2>2, <2>4
  <2>6. cs = <<>> <=> d.kids[p] = <<>>
      BY <1>1, <2>3, NoChildren
  <2>7. J[p] = JsonOf(J, d, p)
      BY DEF IsJson
  <2> HIDE DEF Raw
  <2> QED BY <2>3, <2>5, <2>6, <2>7 DEF RawNode, JsonOf
<1> DEFINE place == [m \in DOMAIN t |-> CHOOSE p \in Positions(d) : d.id[p] = m]
           made == [m \in DOMAIN t |-> J[place[m]]]
<1>3. \A p \in Positions(d) : d.id[p] \in DOMAIN t /\ place[d.id[p]] = p
    BY DEF TableOf
<1>4. \A p \in Positions(d) : made[d.id[p]] = J[p]
  <2> HIDE DEF place
  <2> QED BY <1>3
<1> HIDE DEF made, place, Raw
<1>5. Solves(made)
  <2>1. ASSUME NEW m \in DOMAIN t PROVE made[m] = Raw(made, m)
    <3>1. PICK p \in Positions(d) : m = d.id[p]
        BY NodeAt
    <3>2. \A j \in DOMAIN d.kids[p] : d.kids[p][j] \in Positions(d)
        BY <1>1, DocumentIsTree
    <3> QED BY <3>1, <3>2, <1>2, <1>4
  <2>2. made = [m \in DOMAIN t |-> made[m]]
      BY DEF made
  <2> QED BY <2>1, <2>2
<1>6. ASSUME NEW raw, Solves(raw)
      PROVE  \A p \in Positions(d) : raw[d.id[p]] = J[p]
  <2> DEFINE Wrong == {p \in Positions(d) : raw[d.id[p]] # J[p]}
  <2> SUFFICES ASSUME Wrong # {} PROVE FALSE
      OBVIOUS
  <2>1. Wrong \in SUBSET Nat /\ Len(d.id) \in Nat /\ \A p \in Wrong : p <= Len(d.id)
      BY <1>1, DocumentIsTree
  <2>2. PICK p \in Wrong : \A q \in Wrong : q <= p
    <3> HIDE DEF Wrong
    <3> QED BY <2>1, GreatestNatural
  <2>3. \A j \in DOMAIN d.kids[p] : d.kids[p][j] \in Positions(d) /\ d.kids[p][j] > p
      BY <1>1, DocumentIsTree
  <2>4. \A j \in DOMAIN d.kids[p] : d.kids[p][j] \notin Wrong
    <3> SUFFICES ASSUME NEW j \in DOMAIN d.kids[p], d.kids[p][j] \in Wrong PROVE FALSE
        OBVIOUS
    <3>1. d.kids[p][j] <= p /\ d.kids[p][j] > p
        BY <2>2, <2>3
    <3>2. p \in Nat /\ d.kids[p][j] \in Nat
        BY <2>1
    <3> QED BY <3>1, <3>2
  <2>5. Raw(raw, d.id[p]) = J[p]
      BY <2>3, <2>4, <1>2
  <2>6. raw[d.id[p]] = Raw(raw, d.id[p])
      BY <1>3, <1>6
  <2> QED BY <2>5, <2>6
<1>7. \A n : RawView(t, n) = (CHOOSE raw : Solves(raw))[n]
    BY DEF RawView, Raw
<1> HIDE DEF Solves
<1>8. Solves(CHOOSE raw : Solves(raw))
    BY <1>5
<1> QED BY <1>6, <1>7, <1>8

LEMMA RootIsFirst ==
    ASSUME NEW t, NEW d, TableOf(t, d)
    PROVE  /\ RootId(t) = d.id[Root] /\ d.id[Root] \in DOMAIN t
           /\ t[d.id[Root]].parent = None /\ t[d.id[Root]].order = 0
           /\ \A n \in DOMAIN t : t[n].parent = None => n = d.id[Root]
<1>1. Root \in Positions(d)
    BY DocumentIsTree DEF TableOf
<1>2. /\ d.id[Root] \in DOMAIN t
      /\ t[d.id[Root]].parent = None /\ t[d.id[Root]].order = 0
    BY <1>1 DEF TableOf, RootEntry, At
<1>3. ASSUME NEW n \in DOMAIN t, t[n].parent = None PROVE n = d.id[Root]
  <2>1. PICK p \in Positions(d) : n = d.id[p] /\ At(t, d, p) = t[n]
      BY NodeAt
  <2>2. p = Root
      BY <2>1, <1>3, ParentAt
  <2> QED BY <2>1, <2>2
<1> QED BY <1>2, <1>3 DEF RootId

\* What a pull has indexed is shown again by the raw view, of any file: node for
\* node, in the order of the file, whatever the depth.
THEOREM RawViewShowsFile == Spec => []RawViewIsFile
<1>1. ASSUME IndexInv, phase = "indexed"
      PROVE  RawView(table, RootId(table)) = Json(doc)
  <2>1. TableOf(table, doc) /\ doc \in Documents
      BY <1>1 DEF IndexInv, TableOf
  <2>2. PICK J : IsJson(J, doc) /\ Json(doc) = J[Root]
      BY <2>1, JsonExists
  <2>3. Root \in Positions(doc)
      BY <2>1, DocumentIsTree
  <2> QED BY <2>1, <2>2, <2>3, RawIsJson, RootIsFirst
<1>2. ASSUME IndexInv, phase = "indexed", NEW n \in DOMAIN table
      PROVE  {table[k].order : k \in {m \in DOMAIN table : table[m].parent = n}}
                 = {i - 1 : i \in DOMAIN ChildIds(table, n)}
  <2>1. TableOf(table, doc)
      BY <1>2 DEF IndexInv
  <2>2. PICK ks : KidsOf(table, n, ks)
      BY <2>1, TableKids
  <2> QED BY <2>1, <2>2, ChildrenInOrder
<1>3. IndexInv => RawViewIsFile
    BY <1>1, <1>2 DEF RawViewIsFile
<1> QED BY IndexInvariant, <1>3, PTL

-----------------------------------------------------------------------------
(***************************************************************************)
(* What an empty diff says                                                 *)
(***************************************************************************)

\* Objects of node JSON are equal if, and only if, all they are made from is.
LEMMA RawNodesDiffer ==
    ASSUME NEW n, NEW f, NEW cs, NEW m, NEW g, NEW ds
    PROVE  RawNode(n, f, cs) = RawNode(m, g, ds) <=> n = m /\ f = g /\ cs = ds
<1>1. ASSUME RawNode(n, f, cs) = RawNode(m, g, ds)
      PROVE  n = m /\ f = g /\ cs = ds
  <2>1. CASE cs = <<>> /\ ds = <<>>
    <3>1. [id |-> n, fields |-> f] = [id |-> m, fields |-> g]
        BY <1>1, <2>1 DEF RawNode
    <3> QED BY <3>1, <2>1
  <2>2. CASE cs # <<>> /\ ds # <<>>
    <3>1. [id |-> n, fields |-> f, children |-> cs] = [id |-> m, fields |-> g, children |-> ds]
        BY <1>1, <2>2 DEF RawNode
    <3> QED BY <3>1
  <2>3. CASE cs = <<>> /\ ds # <<>>
    <3>1. [id |-> n, fields |-> f] = [id |-> m, fields |-> g, children |-> ds]
        BY <1>1, <2>3 DEF RawNode
    <3>2. DOMAIN [id |-> n, fields |-> f] = {"id", "fields"}
        OBVIOUS
    <3>3. DOMAIN [id |-> m, fields |-> g, children |-> ds] = {"id", "fields", "children"}
        OBVIOUS
    <3>4. "children" \notin {"id", "fields"}
        OBVIOUS
    <3> QED BY <3>1, <3>2, <3>3, <3>4
  <2>4. CASE cs # <<>> /\ ds = <<>>
    <3>1. [id |-> n, fields |-> f, children |-> cs] = [id |-> m, fields |-> g]
        BY <1>1, <2>4 DEF RawNode
    <3>2. DOMAIN [id |-> m, fields |-> g] = {"id", "fields"}
        OBVIOUS
    <3>3. DOMAIN [id |-> n, fields |-> f, children |-> cs] = {"id", "fields", "children"}
        OBVIOUS
    <3>4. "children" \notin {"id", "fields"}
        OBVIOUS
    <3> QED BY <3>1, <3>2, <3>3, <3>4
  <2> QED BY <2>1, <2>2, <2>3, <2>4
<1>2. ASSUME n = m, f = g, cs = ds
      PROVE  RawNode(n, f, cs) = RawNode(m, g, ds)
    BY <1>2
<1> QED BY <1>1, <1>2

\* Two nodes of two files have one hash if, and only if, they and all below them
\* are the same JSON.
LEMMA HashIsJson ==
    ASSUME NEW t, NEW d, TableOf(t, d), NEW u, NEW e, TableOf(u, e),
           NEW J, IsJson(J, d), NEW K, IsJson(K, e)
    PROVE  \A p \in Positions(d), q \in Positions(e) :
               At(t, d, p).subtree = At(u, e, q).subtree <=> J[p] = K[q]
<1> DEFINE Alike(p) == \A q \in Positions(e) :
                           At(t, d, p).subtree = At(u, e, q).subtree <=> J[p] = K[q]
           Wrong == {p \in Positions(d) : ~Alike(p)}
<1>1. d \in Documents /\ e \in Documents
    BY DEF TableOf
<1> SUFFICES ASSUME Wrong # {} PROVE FALSE
    OBVIOUS
<1>2. PICK p \in Wrong : \A r \in Wrong : r <= p
  <2>1. Wrong \in SUBSET Nat /\ Len(d.id) \in Nat /\ \A r \in Wrong : r <= Len(d.id)
      BY <1>1, DocumentIsTree
  <2> HIDE DEF Wrong
  <2> QED BY <2>1, GreatestNatural
<1>3. p \in Positions(d) /\ ~Alike(p)
    OBVIOUS
<1> HIDE DEF Alike
<1>4. ASSUME NEW j \in DOMAIN d.kids[p]
      PROVE  d.kids[p][j] \in Positions(d) /\ Alike(d.kids[p][j])
  <2>1. d.kids[p][j] \in Positions(d) /\ d.kids[p][j] > p
      BY <1>1, <1>3, DocumentIsTree
  <2>2. d.kids[p][j] \in Nat /\ p \in Nat
      BY <2>1, <1>1, <1>3, DocumentIsTree, SMTT(30)
  <2>3. d.kids[p][j] \notin Wrong
    <3>1. ~(d.kids[p][j] <= p)
        BY <2>1, <2>2
    <3> HIDE DEF Wrong
    <3> QED BY <3>1, <1>2
  <2> QED BY <2>1, <2>3
<1>5. PICK q \in Positions(e) : ~(At(t, d, p).subtree = At(u, e, q).subtree <=> J[p] = K[q])
    BY <1>3 DEF Alike
<1> DEFINE hs == [j \in DOMAIN d.kids[p] |-> At(t, d, d.kids[p][j]).subtree]
           gs == [j \in DOMAIN e.kids[q] |-> At(u, e, e.kids[q][j]).subtree]
           js == [j \in DOMAIN d.kids[p] |-> J[d.kids[p][j]]]
           ls == [j \in DOMAIN e.kids[q] |-> K[e.kids[q][j]]]
<1>6. /\ At(t, d, p).subtree = <<d.id[p], d.fields[p], hs>>
      /\ At(u, e, q).subtree = <<e.id[q], e.fields[q], gs>>
    BY <1>3 DEF TableOf, Entry
<1>7. hs = gs <=> js = ls
  <2>1. \A j \in DOMAIN e.kids[q] : e.kids[q][j] \in Positions(e)
      BY <1>1, DocumentIsTree
  <2>2. ASSUME DOMAIN d.kids[p] = DOMAIN e.kids[q], NEW j \in DOMAIN d.kids[p]
        PROVE  hs[j] = gs[j] <=> js[j] = ls[j]
      BY <2>1, <2>2, <1>4 DEF Alike
  <2>3. DOMAIN hs = DOMAIN d.kids[p] /\ DOMAIN js = DOMAIN d.kids[p]
      OBVIOUS
  <2>4. DOMAIN gs = DOMAIN e.kids[q] /\ DOMAIN ls = DOMAIN e.kids[q]
      OBVIOUS
  <2>5. /\ hs = [j \in DOMAIN d.kids[p] |-> hs[j]] /\ js = [j \in DOMAIN d.kids[p] |-> js[j]]
        /\ gs = [j \in DOMAIN e.kids[q] |-> gs[j]] /\ ls = [j \in DOMAIN e.kids[q] |-> ls[j]]
      OBVIOUS
  <2> HIDE DEF hs, gs, js, ls
  <2>6. ASSUME hs = gs PROVE js = ls
    <3>1. DOMAIN d.kids[p] = DOMAIN e.kids[q]
        BY <2>3, <2>4, <2>6
    <3>2. \A j \in DOMAIN d.kids[p] : js[j] = ls[j]
        BY <3>1, <2>2, <2>6
    <3> QED BY <3>1, <3>2, <2>5
  <2>7. ASSUME js = ls PROVE hs = gs
    <3>1. DOMAIN d.kids[p] = DOMAIN e.kids[q]
        BY <2>3, <2>4, <2>7
    <3>2. \A j \in DOMAIN d.kids[p] : hs[j] = gs[j]
        BY <3>1, <2>2, <2>7
    <3> QED BY <3>1, <3>2, <2>5
  <2> QED BY <2>6, <2>7
<1>8. js = <<>> <=> d.kids[p] = <<>>
    BY <1>1, <1>3, NoChildren
<1>9. ls = <<>> <=> e.kids[q] = <<>>
    BY <1>1, NoChildren
<1>10. /\ J[p] = RawNode(d.id[p], d.fields[p], js)
       /\ K[q] = RawNode(e.id[q], e.fields[q], ls)
  <2>1. J[p] = JsonOf(J, d, p) /\ K[q] = JsonOf(K, e, q)
      BY <1>3 DEF IsJson
  <2>2. JsonOf(J, d, p) = RawNode(d.id[p], d.fields[p], js)
      BY <1>8 DEF JsonOf, RawNode
  <2>3. JsonOf(K, e, q) = RawNode(e.id[q], e.fields[q], ls)
      BY <1>9 DEF JsonOf, RawNode
  <2> QED BY <2>1, <2>2, <2>3
<1> HIDE DEF hs, gs, js, ls
<1>11. J[p] = K[q] <=> d.id[p] = e.id[q] /\ d.fields[p] = e.fields[q] /\ js = ls
    BY <1>10, RawNodesDiffer
<1>12. At(t, d, p).subtree = At(u, e, q).subtree
           <=> d.id[p] = e.id[q] /\ d.fields[p] = e.fields[q] /\ hs = gs
    BY <1>6
<1> QED BY <1>5, <1>7, <1>11, <1>12

\* The first node is on the path of all.
LEMMA AllBelowRoot ==
    ASSUME NEW t, NEW d, TableOf(t, d)
    PROVE  Below(t, d.id[Root]) = DOMAIN t
<1> DEFINE n == d.id[Root]
           Wrong == {p \in Positions(d) : n \notin ToSet(At(t, d, p).path)}
<1>1. d \in Documents
    BY DEF TableOf
<1>2. Wrong = {}
  <2> SUFFICES ASSUME Wrong # {} PROVE FALSE
      OBVIOUS
  <2>1. Wrong \in SUBSET Nat
      BY <1>1, DocumentIsTree
  <2>2. PICK p \in Wrong : \A q \in Wrong : p <= q
      BY <2>1, LeastNatural
  <2>3. p # Root
    <3>1. n \in ToSet(At(t, d, Root).path)
        BY RootIsFirst, OwnPath DEF At
    <3> QED BY <3>1, <2>2
  <2>4. PICK q \in Positions(d) : \E j \in DOMAIN d.kids[q] :
            q < p /\ At(t, d, p).parent = d.id[q] /\ d.id[q] # None
      BY <2>2, <2>3, ParentAt
  <2>5. d.id[p] \in DOMAIN t
      BY <2>2 DEF TableOf
  <2>6. ToSet(At(t, d, p).path) = ToSet(At(t, d, q).path) \union {d.id[p]}
    <3>1. PICK m \in DOMAIN t : m = d.id[p]
        BY <2>5
    <3>2. t[m].parent = d.id[q] /\ t[m].parent # None
        BY <2>4, <3>1 DEF At
    <3>3. ToSet(t[m].path) = ToSet(t[t[m].parent].path) \union {m}
        BY <3>2, PathElements
    <3> QED BY <3>1, <3>2, <3>3 DEF At
  <2>7. q \notin Wrong
      BY <2>1, <2>2, <2>4
  <2> QED BY <2>2, <2>6, <2>7
<1>3. \A m \in DOMAIN t : n \in ToSet(t[m].path)
  <2> SUFFICES ASSUME NEW m \in DOMAIN t PROVE n \in ToSet(t[m].path)
      OBVIOUS
  <2>1. PICK p \in Positions(d) : At(t, d, p) = t[m]
      BY NodeAt
  <2> QED BY <2>1, <1>2
<1> QED BY <1>3, BelowIsOnPath

\* An empty diff without filters means that the raw views of the two documents
\* and their entities are the same, of any two files, and no other diff does.
THEOREM EmptyDiffSaysSame == Spec => []EmptyDiffMeansSame
<1>1. ASSUME IndexInv, diff # None, filter = NoFilter
      PROVE  Reported = {} <=> RawView(after, RootId(after)) = view
  <2>1. PICK d : TableOf(before, d) /\ view = Json(d)
      BY <1>1, WholeDiff
  <2>2. TableOf(after, doc)
      BY <1>1, WholeDiff
  <2>3. d \in Documents /\ doc \in Documents
      BY <2>1, <2>2 DEF TableOf
  <2>4. PICK J : IsJson(J, d) /\ Json(d) = J[Root]
      BY <2>3, JsonExists
  <2>5. PICK K : IsJson(K, doc) /\ Json(doc) = K[Root]
      BY <2>3, JsonExists
  <2>6. Root \in Positions(d) /\ Root \in Positions(doc)
      BY <2>3, DocumentIsTree
  <2>7. RawView(after, RootId(after)) = K[Root]
      BY <2>2, <2>5, <2>6, RawIsJson, RootIsFirst
  <2>8. RawView(after, RootId(after)) = view
            <=> before[d.id[Root]].subtree = after[doc.id[Root]].subtree
      BY <2>1, <2>2, <2>4, <2>5, <2>6, <2>7, HashIsJson DEF At
  <2>9. /\ d.id[Root] \in DOMAIN before /\ before[d.id[Root]].parent = None
        /\ before[d.id[Root]].order = 0
      BY <2>1, RootIsFirst
  <2>10. /\ doc.id[Root] \in DOMAIN after /\ after[doc.id[Root]].parent = None
         /\ after[doc.id[Root]].order = 0
         /\ \A n \in DOMAIN after : after[n].parent = None => n = doc.id[Root]
      BY <2>2, RootIsFirst
  <2>11. ASSUME Reported = {}
         PROVE  before[d.id[Root]].subtree = after[doc.id[Root]].subtree
    <3>1. DOMAIN before = DOMAIN after
        BY <1>1, <2>11, WholeDiff
    <3>2. \A n \in DOMAIN before :
              /\ Own(before[n]) = Own(after[n]) /\ ~Moved(before[n], after[n])
              /\ ~DescendantsDiffer(before[n], after[n])
        BY <1>1, <2>11, <3>1, WholeDiff
    <3>3. \A n \in DOMAIN before : before[n].subtree = after[n].subtree
        BY <3>2 DEF DescendantsDiffer
    <3>4. d.id[Root] = doc.id[Root]
        BY <3>1, <3>2, <2>9, <2>10 DEF Moved
    <3> QED BY <3>3, <3>4, <2>9
  <2>12. ASSUME before[d.id[Root]].subtree = after[doc.id[Root]].subtree
         PROVE  Reported = {}
    <3>1. PICK n : n = d.id[Root]
        OBVIOUS
    <3>2. n = doc.id[Root]
      <4>1. PICK ks : KidsOf(before, n, ks)
          BY <2>1, <2>9, <3>1, TableKids
      <4>2. PICK ls : KidsOf(after, doc.id[Root], ls)
          BY <2>2, <2>10, TableKids
      <4> QED BY <4>1, <4>2, <2>12, <3>1, EqualHashes
    <3>3. n \in DOMAIN before \intersect DOMAIN after
          /\ before[n].subtree = after[n].subtree /\ ~Moved(before[n], after[n])
        BY <3>1, <3>2, <2>9, <2>10, <2>12 DEF Moved
    <3>4. Below(before, n) = DOMAIN before /\ Below(after, n) = DOMAIN after
        BY <3>1, <3>2, <2>1, <2>2, AllBelowRoot
    <3>5. \A m \in DOMAIN before :
              /\ m \in DOMAIN after
              /\ before[m].subtree = after[m].subtree
              /\ before[m].fields = after[m].fields
              /\ m # n => ~Moved(before[m], after[m])
        BY <3>3, <3>4, <2>1, <2>2, EqualSubtrees
    <3>6. \A m \in DOMAIN after : m \in DOMAIN before
        BY <3>3, <3>4, <2>1, <2>2, EqualSubtrees
    <3>7. \A m \in DOMAIN before : before[m].id = m /\ after[m].id = m
        BY <3>5, <2>1, <2>2, NodeAt
    <3>8. \A m \in DOMAIN before : Own(before[m]) = Own(after[m])
                                   /\ ~Moved(before[m], after[m])
        BY <3>3, <3>5, <3>7 DEF Own
    <3> QED BY <3>5, <3>6, <3>8, <1>1, WholeDiff DEF DescendantsDiffer
  <2> QED BY <2>8, <2>11, <2>12
<1>2. ASSUME IndexInv, diff # None
      PROVE  ReportedEntities = {} <=> afterEntities = beforeEntities
  <2>1. /\ entityDiff = CompareEntities(beforeEntities, afterEntities)
        /\ IsMap(beforeEntities) /\ IsMap(afterEntities)
      BY <1>2 DEF IndexInv, Compared
  <2>2. ReportedEntities =
            entityDiff["added"] \union entityDiff["removed"] \union entityDiff["changed"]
      BY DEF ReportedEntities, EntityCategories
  <2>3. /\ entityDiff["added"] = DOMAIN afterEntities \ DOMAIN beforeEntities
        /\ entityDiff["removed"] = DOMAIN beforeEntities \ DOMAIN afterEntities
        /\ entityDiff["changed"] =
               {k \in DOMAIN beforeEntities \intersect DOMAIN afterEntities :
                   beforeEntities[k] # afterEntities[k]}
      BY <2>1 DEF CompareEntities
  <2>4. ASSUME ReportedEntities = {} PROVE afterEntities = beforeEntities
    <3>1. DOMAIN afterEntities = DOMAIN beforeEntities
        BY <2>2, <2>3, <2>4
    <3>2. \A k \in DOMAIN beforeEntities : beforeEntities[k] = afterEntities[k]
        BY <2>2, <2>3, <2>4, <3>1
    <3> QED BY <3>1, <3>2, <2>1 DEF IsMap
  <2>5. ASSUME afterEntities = beforeEntities PROVE ReportedEntities = {}
      BY <2>2, <2>3, <2>5
  <2> QED BY <2>4, <2>5
<1>3. IndexInv => EmptyDiffMeansSame
    BY <1>1, <1>2 DEF EmptyDiffMeansSame
<1> QED BY IndexInvariant, <1>3, PTL

-----------------------------------------------------------------------------
(***************************************************************************)
(* Any two tables and any filters                                          *)
(***************************************************************************)

LEMMA RowsOfBoth ==
    ASSUME NEW a, NEW b, NEW n
    PROVE  RowsOf(a, b, n) = RowsOf(b, a, n)
BY DEF RowsOf

\* A diff read backwards is the diff of the snapshots exchanged, with any
\* filters: what was added is removed, and everything else is said of the same
\* nodes and entities.
THEOREM DiffReadsBackwards ==
    ASSUME NEW old, NEW new, NEW oldEntities, NEW newEntities, NEW f
    PROVE  LET there == CompareNodes(old, new, f)
               back == CompareNodes(new, old, f)
               thereEntities == CompareEntities(oldEntities, newEntities)
               backEntities == CompareEntities(newEntities, oldEntities)
           IN  /\ there.added = back.removed /\ there.removed = back.added
               /\ there.changed = back.changed /\ there.moved = back.moved
               /\ there.descendantOnly = back.descendantOnly
               /\ thereEntities.added = backEntities.removed
               /\ thereEntities.removed = backEntities.added
               /\ thereEntities.changed = backEntities.changed
<1>1. \A n : RowsOf(old, new, n) = RowsOf(new, old, n)
    BY RowsOfBoth
<1>2. \A a, b : Moved(a, b) <=> Moved(b, a)
    BY DEF Moved
<1>3. \A a, b : DescendantsDiffer(a, b) <=> DescendantsDiffer(b, a)
    BY <1>2 DEF DescendantsDiffer
<1>4. /\ CompareNodes(old, new, f).added = CompareNodes(new, old, f).removed
      /\ CompareNodes(old, new, f).removed = CompareNodes(new, old, f).added
    BY <1>1 DEF CompareNodes
<1>5. CompareNodes(old, new, f).changed = CompareNodes(new, old, f).changed
    BY <1>1 DEF CompareNodes
<1>6. CompareNodes(old, new, f).moved = CompareNodes(new, old, f).moved
    BY <1>1, <1>2 DEF CompareNodes
<1>7. CompareNodes(old, new, f).descendantOnly = CompareNodes(new, old, f).descendantOnly
    BY <1>1, <1>3 DEF CompareNodes
<1>8. LET there == CompareEntities(oldEntities, newEntities)
          back == CompareEntities(newEntities, oldEntities)
      IN  /\ there.added = back.removed /\ there.removed = back.added
          /\ there.changed = back.changed
    BY DEF CompareEntities
<1> QED BY <1>4, <1>5, <1>6, <1>7, <1>8

\* No node is told in two ways that exclude each other, with any filters: what
\* is added or removed is in no other category, and descendantOnly is said of no
\* node that changed or moved.
THEOREM CategoriesExclude ==
    ASSUME NEW old, NEW new, NEW f
    PROVE  LET d == CompareNodes(old, new, f)
           IN  /\ d.added \intersect
                      (d.removed \union d.changed \union d.moved \union d.descendantOnly) = {}
               /\ d.removed \intersect
                      (d.changed \union d.moved \union d.descendantOnly) = {}
               /\ d.descendantOnly \intersect (d.changed \union d.moved) = {}
BY DEF CompareNodes, DescendantsDiffer
=============================================================================
