------------------------- MODULE MCSnapshotReaders -------------------------
(***************************************************************************)
(* Small instances of SnapshotReaders: a response whose document has one   *)
(* child, a later one in which the child is gone, and one style in both.   *)
(***************************************************************************)
EXTENDS SnapshotReadersProofs, TLC

CONSTANTS c1, c2,            \* two contents
          r1, r2,            \* their raw blobs
          b1, b2, b3, e1,    \* the document, its child, the later document, a style
          doc, kid           \* node ids

MCRaw == [c \in {c1, c2} |-> IF c = c1 THEN r1 ELSE r2]
MCParts == [c \in {c1, c2} |-> IF c = c1 THEN {b1, b2, e1} ELSE {b3, e1}]
MCRoot == [c \in {c1, c2} |-> doc]
MCKids ==
    [c \in {c1, c2} |->
        [n \in {doc, kid} |-> IF c = c1 /\ n = doc THEN {kid} ELSE {}]]
MCNodeBlob ==
    [c \in {c1, c2} |->
        [n \in {doc, kid} |->
            IF c = c2 THEN b3 ELSE IF n = doc THEN b1 ELSE b2]]
MCEntities == [c \in {c1, c2} |-> {e1}]
=============================================================================
