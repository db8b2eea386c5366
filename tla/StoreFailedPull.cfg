\* One pull, whose last step fails.
SPECIFICATION Spec
CONSTANTS
    None = None
    c1 = c1
    c2 = c2
    r1 = r1
    r2 = r2
    n1 = n1
    n2 = n2
    Procs = {p1}
    Lineages = {l1}
    Contents = {c1, c2}
    Blob = {r1, r2, n1, n2}
    Raw <- MCRaw
    Parts <- MCParts
PROPERTY FailedPullKeepsHead
