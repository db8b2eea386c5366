\* Two commands at a time, a prune alone, on two lineages that may hold the
\* same blobs.
SPECIFICATION FairPruneAloneSpec
CONSTANTS
    None = None
    c1 = c1
    c2 = c2
    r1 = r1
    r2 = r2
    n1 = n1
    n2 = n2
    Procs = {p1, p2}
    Lineages = {l1, l2}
    Contents = {c1, c2}
    Blob = {r1, r2, n1, n2}
    Raw <- MCRaw
    Parts <- MCParts
INVARIANT BlobsPresent
PROPERTY GcPlanIsExact
PROPERTY CommandsEnd
