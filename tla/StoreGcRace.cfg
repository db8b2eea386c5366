\* A pull that overlaps a prune: a blob is removed while a committed row refers to it.
SPECIFICATION Spec
CONSTANTS
    None = None
    c1 = c1
    c2 = c2
    r1 = r1
    r2 = r2
    n1 = n1
    n2 = n2
    Procs = {p1, p2}
    Lineages = {l1}
    Contents = {c1, c2}
    Blob = {r1, r2, n1, n2}
    Raw <- MCRaw
    Parts <- MCParts
PROPERTY GcRemovesOnlyUnreferenced
