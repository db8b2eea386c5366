-------------------------- MODULE SnapshotCatalog --------------------------
(***************************************************************************)
(* What the snapshot store promises its readers, whatever commands run     *)
(* concurrently, fail or crash (README.md, DESIGN.md 12.4): snapshots are  *)
(* immutable, a lineage's HEAD moves only onto a snapshot that becomes     *)
(* visible with it, and a snapshot that is a HEAD is never retired.        *)
(***************************************************************************)
CONSTANTS Lineages, Contents, None

VARIABLES snapshots, heads

SnapshotId == Lineages \X Contents

Init ==
    /\ snapshots = {}
    /\ heads = [l \in Lineages |-> None]

\* A pull makes one snapshot of lineage l visible and current, in one step.
Publish(l, c) ==
    /\ snapshots' = snapshots \union {<<l, c>>}
    /\ heads' = [heads EXCEPT ![l] = <<l, c>>]

\* A prune retires snapshots none of which is a HEAD.
Retire(S) ==
    /\ \A l \in Lineages : heads[l] \notin S
    /\ snapshots' = snapshots \ S
    /\ UNCHANGED heads

Next ==
    \/ \E l \in Lineages, c \in Contents : Publish(l, c)
    \/ \E S \in SUBSET SnapshotId : Retire(S)

Spec == Init /\ [][Next]_<<snapshots, heads>>
=============================================================================
