------------------------- MODULE SnapshotBlobProofs -------------------------
(***************************************************************************)
(* Proofs about the blob files of SnapshotStore in deployments where a     *)
(* prune runs alone (PruneAloneSpec): then, whatever fails or crashes and  *)
(* however pulls overlap, no committed row refers to a missing blob.       *)
(*                                                                         *)
(* A pull relies on the blobs it has put so far staying on disk; a prune   *)
(* relies on the rows it has read staying the same.                        *)
(***************************************************************************)
EXTENDS SnapshotStoreProofs

\* The rows that will be left when process p has deleted the ones it planned.
Kept(p) == snapshots \ planned[p]

\* The blobs of a pull's response that its puts have accounted for are on disk.
PutsInv ==
    \A p \in Procs :
        /\ pc[p] \in {"begin", "index"} => Raw[content[p]] \in blobs
        /\ pc[p] = "index" => Parts[content[p]] \ todo[p] \subseteq blobs

\* What the plan of a prune says of the rows at each point.
PlanInv ==
    \A p \in Procs :
        /\ pc[p] \in {"heads", "raws", "parts", "delete"} => planned[p] \subseteq snapshots
        /\ pc[p] = "parts" => /\ todo[p] = RawBlobs(planned[p])
                              /\ retained[p] = RawBlobs(Kept(p))
        /\ pc[p] = "delete" => todo[p] = Referenced(snapshots) \ Referenced(Kept(p))
        /\ pc[p] = "unlink" => todo[p] \intersect Referenced(snapshots) = {}

BlobInv == BlobsPresent /\ PutsInv /\ PlanInv /\ PruneAlone

-----------------------------------------------------------------------------
(***************************************************************************)
(* Blobs of sets of rows.                                                  *)
(***************************************************************************)

LEMMA ReferencedUnion ==
    ASSUME NEW S, NEW T
    PROVE  /\ RawBlobs(S \union T) = RawBlobs(S) \union RawBlobs(T)
           /\ PartBlobs(S \union T) = PartBlobs(S) \union PartBlobs(T)
           /\ Referenced(S \union T) = Referenced(S) \union Referenced(T)
<1>1. RawBlobs(S \union T) = RawBlobs(S) \union RawBlobs(T)
  BY DEF RawBlobs
<1>2. PartBlobs(S \union T) = PartBlobs(S) \union PartBlobs(T)
  BY DEF PartBlobs
<1> QED  BY <1>1, <1>2 DEF Referenced

LEMMA ReferencedOne ==
    ASSUME NEW s
    PROVE  Referenced({s}) = {Raw[s[2]]} \union Parts[s[2]]
<1>1. RawBlobs({s}) = {Raw[s[2]]}
  BY DEF RawBlobs
<1>2. PartBlobs({s}) = Parts[s[2]]
  BY DEF PartBlobs
<1> QED  BY <1>1, <1>2 DEF Referenced

LEMMA ReferencedSubset ==
    ASSUME NEW S, NEW T, S \subseteq T
    PROVE  Referenced(S) \subseteq Referenced(T)
BY DEF Referenced, RawBlobs, PartBlobs

-----------------------------------------------------------------------------
(***************************************************************************)
(* Who runs beside whom.                                                   *)
(***************************************************************************)

LEMMA NoPruneBesidePull ==
    ASSUME BlobInv, NEW p \in Procs, pc[p] \in PullPC
    PROVE  \A q \in Procs : pc[q] \notin PrunePC
BY DEF BlobInv, PruneAlone, Running, PullPC, PrunePC, RestPC

LEMMA NothingBesidePrune ==
    ASSUME BlobInv, NEW p \in Procs, pc[p] \in PrunePC
    PROVE  \A q \in Procs \ {p} : pc[q] \in RestPC
BY DEF BlobInv, PruneAlone, Running

LEMMA InitBlobInv == Init => BlobInv
<1> SUFFICES ASSUME Init PROVE BlobInv
  OBVIOUS
<1>1. Referenced(snapshots) = {}
  BY DEF Init, Referenced, RawBlobs, PartBlobs
<1> QED  BY <1>1 DEF Init, BlobInv, BlobsPresent, PutsInv, PlanInv, PruneAlone, PrunePC

\* A command that ends, anyhow, leaves rows and blobs as they are.
LEMMA EndKeepsBlobs ==
    ASSUME IInv, BlobInv, PruneAlone', NEW p \in Procs, NEW outcome \in RestPC,
           End(p, outcome), UNCHANGED store
    PROVE  BlobInv'
<1>1. BlobsPresent'
  BY DEF BlobInv, BlobsPresent, store, Referenced, RawBlobs, PartBlobs
<1>2. PutsInv'
  BY DEF IInv, TypeOK, BlobInv, PutsInv, End, GoTo, store, RestPC
<1>3. PlanInv'
  BY DEF IInv, TypeOK, BlobInv, PlanInv, Kept, Referenced, RawBlobs, PartBlobs, End, GoTo,
         store, RestPC
<1> QED  BY <1>1, <1>2, <1>3 DEF BlobInv

-----------------------------------------------------------------------------
(***************************************************************************)
(* Pulls only add blobs, and no prune looks on.                            *)
(***************************************************************************)

LEMMA PullKeepsBlobs ==
    ASSUME IInv, BlobInv, PruneAlone', NEW p \in Procs, Pull(p)
    PROVE  BlobInv'
<1>1. CASE RefuseImplicit(p) \/ ReportPulled(p) \/ PullFails(p)
  BY <1>1, EndKeepsBlobs DEF RefuseImplicit, ReportPulled, PullFails, RestPC
<1>2. CASE ~(RefuseImplicit(p) \/ ReportPulled(p) \/ PullFails(p))
  <2>1. /\ pc[p] \in PullPC
        /\ pc'[p] \notin PrunePC
        /\ \A q \in Procs \ {p} : pc'[q] = pc[q]
    BY <1>2
    DEF IInv, TypeOK, Pull, ReadHead, ReadRow, Download, PutRaw, BeginCommit, PutPart,
        CommitSnapshot, GoTo, PullPC, PrunePC
  <2>2. \A q \in Procs : pc'[q] \notin PrunePC
    BY <2>1, NoPruneBesidePull
  <2>3. PlanInv'
    BY <2>2 DEF PlanInv, PrunePC
  <2>4. CASE CommitSnapshot(p)
    <3>1. Referenced(snapshots') =
              Referenced(snapshots) \union {Raw[content[p]]} \union Parts[content[p]]
      <4>1. snapshots' = snapshots \union {Target(p)} /\ Target(p)[2] = content[p]
        BY <2>4 DEF CommitSnapshot, Target
      <4>2. Referenced(snapshots \union {Target(p)})
                = Referenced(snapshots) \union Referenced({Target(p)})
        BY ReferencedUnion
      <4>3. Referenced({Target(p)}) = {Raw[content[p]]} \union Parts[content[p]]
        BY <4>1, ReferencedOne
      <4> QED  BY <4>1, <4>2, <4>3
    <3>2. Referenced(snapshots') \subseteq blobs'
      BY <2>4, <3>1 DEF BlobInv, BlobsPresent, PutsInv, CommitSnapshot
    <3>3. BlobsPresent'
      BY <3>2 DEF BlobsPresent, Referenced, RawBlobs, PartBlobs
    <3>4. PutsInv'
      BY <2>4 DEF IInv, TypeOK, BlobInv, PutsInv, CommitSnapshot, GoTo, pullVars
    <3> QED  BY <2>3, <3>3, <3>4 DEF BlobInv
  <2>5. CASE ~CommitSnapshot(p)
    <3>1. snapshots' = snapshots /\ blobs \subseteq blobs'
      BY <1>2, <2>5
      DEF Pull, ReadHead, ReadRow, Download, PutRaw, BeginCommit, PutPart, store
    <3>2. BlobsPresent'
      BY <3>1 DEF BlobInv, BlobsPresent, Referenced, RawBlobs, PartBlobs
    <3>3. PutsInv'
      <4>1. CASE ReadHead(p) \/ ReadRow(p) \/ \E c \in Contents : Download(p, c)
        BY <4>1
        DEF IInv, TypeOK, BlobInv, PutsInv, ReadHead, ReadRow, Download, GoTo, store
      <4>2. CASE PutRaw(p)
        BY <4>2, <3>1 DEF IInv, TypeOK, BlobInv, PutsInv, PutRaw, GoTo, pullVars
      <4>3. CASE BeginCommit(p)
        <5>1. CASE Target(p) \in snapshots
          <6>1. Referenced({Target(p)}) \subseteq blobs
            BY <5>1, ReferencedSubset DEF BlobInv, BlobsPresent
          <6>2. Parts[content[p]] \subseteq blobs
            BY <6>1, ReferencedOne DEF Target
          <6> QED  BY <4>3, <6>2
                   DEF IInv, TypeOK, BlobInv, PutsInv, BeginCommit, GoTo, store, pullVars
        <5>2. CASE Target(p) \notin snapshots
          BY <4>3, <5>2
          DEF IInv, TypeOK, BlobInv, PutsInv, BeginCommit, GoTo, store, pullVars
        <5> QED  BY <5>1, <5>2
      <4>4. ASSUME NEW b \in Blob, PutPart(p, b)
            PROVE  PutsInv'
        BY <4>4 DEF IInv, TypeOK, BlobInv, PutsInv, PutPart, pullVars
      <4> QED  BY <1>2, <2>5, <4>1, <4>2, <4>3, <4>4 DEF Pull
    <3> QED  BY <2>3, <3>2, <3>3 DEF BlobInv
  <2> QED  BY <2>4, <2>5
<1> QED  BY <1>1, <1>2

-----------------------------------------------------------------------------
(***************************************************************************)
(* A prune removes the blobs that only the rows it deleted referred to.    *)
(***************************************************************************)

LEMMA PruneKeepsBlobs ==
    ASSUME IInv, BlobInv, PruneAlone', NEW p \in Procs, Prune(p)
    PROVE  BlobInv'
<1>1. CASE ReportPruned(p) \/ PruneFails(p)
  BY <1>1, EndKeepsBlobs DEF ReportPruned, PruneFails, RestPC
<1>2. CASE ~(ReportPruned(p) \/ PruneFails(p))
  <2>1. /\ pc[p] \in PrunePC
        /\ pc'[p] \in PrunePC
        /\ \A q \in Procs \ {p} : pc'[q] = pc[q]
    BY <1>2
    DEF IInv, TypeOK, Prune, PlanRows, PlanHeads, PlanRaws, PlanParts, DeleteRows, Unlink,
        GoTo, PrunePC
  <2>2. \A q \in Procs \ {p} : pc'[q] \in RestPC
    BY <2>1, NothingBesidePrune
  <2>3. PutsInv'
    BY <2>1, <2>2 DEF PutsInv, PrunePC, RestPC
  <2>4. ASSUME PlanInv!(p)' PROVE PlanInv'
    BY <2>4, <2>2 DEF PlanInv, RestPC
  <2>5. CASE PlanRows(p)
    BY <2>3, <2>4, <2>5
    DEF IInv, TypeOK, BlobInv, BlobsPresent, PlanInv, PlanRows, GoTo, store
  <2>6. CASE PlanHeads(p)
    BY <2>3, <2>4, <2>6, RemovableRows
    DEF IInv, TypeOK, BlobInv, BlobsPresent, PlanInv, PlanHeads, GoTo, store
  <2>7. CASE PlanRaws(p)
    <3>1. snapshots \intersect planned[p] = planned[p]
      BY <2>7 DEF BlobInv, PlanInv, PlanRaws
    <3> QED  BY <2>3, <2>4, <2>7, <3>1
             DEF IInv, TypeOK, BlobInv, BlobsPresent, PlanInv, PlanRaws, Kept, GoTo, store
  <2>8. CASE PlanParts(p)
    <3>1. snapshots = planned[p] \union Kept(p) /\ snapshots \intersect planned[p] = planned[p]
      BY <2>8 DEF BlobInv, PlanInv, PlanParts, Kept
    <3>2. Referenced(snapshots) \ Referenced(Kept(p))
              = (RawBlobs(planned[p]) \union PartBlobs(planned[p]))
                    \ (RawBlobs(Kept(p)) \union PartBlobs(Kept(p)))
      BY <3>1, ReferencedUnion DEF Referenced
    <3>3. todo'[p] = Referenced(snapshots) \ Referenced(Kept(p))
      BY <2>8, <3>1, <3>2 DEF IInv, TypeOK, BlobInv, PlanInv, PlanParts, Kept
    <3> QED  BY <2>3, <2>4, <2>8, <3>3
             DEF IInv, TypeOK, BlobInv, BlobsPresent, PlanInv, PlanParts, Kept, GoTo, store
  <2>9. CASE DeleteRows(p)
    <3>1. snapshots' = Kept(p)
      BY <2>9 DEF DeleteRows, Kept
    <3>2. Referenced(snapshots') \subseteq Referenced(snapshots)
      BY <3>1, ReferencedSubset DEF Kept
    <3>3. BlobsPresent'
      BY <2>9, <3>2 DEF BlobInv, BlobsPresent, DeleteRows, Referenced, RawBlobs, PartBlobs
    <3>4. todo'[p] \intersect Referenced(snapshots') = {}
      BY <2>9, <3>1 DEF BlobInv, PlanInv, DeleteRows
    <3>5. PlanInv!(p)'
      BY <2>9, <3>4 DEF IInv, TypeOK, DeleteRows, GoTo, Referenced, RawBlobs, PartBlobs
    <3> QED  BY <2>3, <2>4, <3>3, <3>5 DEF BlobInv
  <2>10. ASSUME NEW b \in Blob, Unlink(p, b)
         PROVE  BlobInv'
    <3>1. b \notin Referenced(snapshots)
      BY <2>10 DEF BlobInv, PlanInv, Unlink
    <3>2. BlobsPresent'
      BY <2>10, <3>1 DEF BlobInv, BlobsPresent, Unlink, Referenced, RawBlobs, PartBlobs
    <3>3. PlanInv!(p)'
      BY <2>10
      DEF IInv, TypeOK, BlobInv, PlanInv, Unlink, planVars, Referenced, RawBlobs, PartBlobs
    <3> QED  BY <2>3, <2>4, <3>2, <3>3 DEF BlobInv
  <2> QED  BY <1>2, <2>5, <2>6, <2>7, <2>8, <2>9, <2>10 DEF Prune
<1> QED  BY <1>1, <1>2

LEMMA StartKeepsBlobs ==
    ASSUME IInv, BlobInv, PruneAlone', NEW p \in Procs, Start(p)
    PROVE  BlobInv'
<1>1. UNCHANGED store
  BY DEF Start, TryLock, StoreBusy, StartPrune
<1>2. BlobsPresent'
  BY <1>1 DEF BlobInv, BlobsPresent, store, Referenced, RawBlobs, PartBlobs
<1>3. PutsInv'
  BY <1>1
  DEF IInv, TypeOK, BlobInv, PutsInv, Start, TryLock, StoreBusy, StartPrune, GoTo, store,
      pullVars
<1>4. PlanInv'
  BY <1>1
  DEF IInv, TypeOK, BlobInv, PlanInv, Start, TryLock, StoreBusy, StartPrune, GoTo, store,
      planVars, Kept, Referenced, RawBlobs, PartBlobs
<1> QED  BY <1>2, <1>3, <1>4 DEF BlobInv

-----------------------------------------------------------------------------
\* A deployment in which prunes run alone is one of the store's behaviours.
LEMMA PruneAloneIsSpec == PruneAloneSpec => Spec
<1>1. [Next /\ PruneAlone']_vars => [Next]_vars
  OBVIOUS
<1> QED  BY <1>1, PTL DEF PruneAloneSpec, Spec

LEMMA BlobInvHolds == PruneAloneSpec => []BlobInv
<1>1. IInv /\ BlobInv /\ [Next /\ PruneAlone']_vars => BlobInv'
  <2> SUFFICES ASSUME IInv, BlobInv, [Next /\ PruneAlone']_vars PROVE BlobInv'
    OBVIOUS
  <2>1. ASSUME NEW p \in Procs, PruneAlone', Start(p) \/ Pull(p) \/ Prune(p) \/ Crash(p)
        PROVE  BlobInv'
    <3>1. CASE Crash(p)
      BY <2>1, <3>1, EndKeepsBlobs DEF Crash, RestPC
    <3> QED  BY <2>1, <3>1, StartKeepsBlobs, PullKeepsBlobs, PruneKeepsBlobs
  <2>2. CASE UNCHANGED vars
    BY <2>2
    DEF vars, store, planVars, pullVars, BlobInv, BlobsPresent, PutsInv, PlanInv, PruneAlone,
        Kept, Running, Referenced, RawBlobs, PartBlobs
  <2> QED  BY <2>1, <2>2 DEF Next
<1> QED  BY <1>1, InitBlobInv, PruneAloneIsSpec, InvariantHolds, PTL DEF PruneAloneSpec

\* Every blob a committed row refers to is on disk.
THEOREM BlobsStayPresent == PruneAloneSpec => []BlobsPresent
BY BlobInvHolds, PTL DEF BlobInv

\* A prune collects what it made unreachable: all of it and nothing else.
THEOREM GcIsExact == PruneAloneSpec => GcPlanIsExact
<1>1. BlobInv /\ [Next]_vars =>
          [\A p \in Procs : DeleteRows(p) =>
              todo[p] = Referenced(snapshots) \ Referenced(snapshots')]_vars
  BY DEF BlobInv, PlanInv, DeleteRows, Kept
<1> QED  BY <1>1, BlobInvHolds, PruneAloneIsSpec, PTL DEF Spec, GcPlanIsExact
=============================================================================
