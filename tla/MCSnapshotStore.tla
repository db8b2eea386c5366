-------------------------- MODULE MCSnapshotStore --------------------------
(***************************************************************************)
(* Small instances of SnapshotStore: two responses that share a node blob, *)
(* one of which has a blob of its own beside.  The invariants of the       *)
(* proofs are checked on the same instances as the properties.             *)
(***************************************************************************)
EXTENDS SnapshotBlobProofs, TLC

CONSTANTS c1, c2,           \* two contents
          r1, r2, n1, n2    \* their blobs

MCRaw == [c \in {c1, c2} |-> IF c = c1 THEN r1 ELSE r2]
MCParts == [c \in {c1, c2} |-> IF c = c1 THEN {n1} ELSE {n1, n2}]

\* Processes and lineages are interchangeable; contents are not (their blobs differ).
Symmetry == Permutations(Procs) \union Permutations(Lineages)
=============================================================================
