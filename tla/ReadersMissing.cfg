\* DESIGN.md section 15: snapshot_missing means there is no local snapshot.
SPECIFICATION SystemSpec
CONSTANTS
    None = None
    c1 = c1
    c2 = c2
    r1 = r1
    r2 = r2
    b1 = b1
    b2 = b2
    b3 = b3
    e1 = e1
    doc = doc
    kid = kid
    Procs = {p1}
    Lineages = {l1}
    Contents = {c1, c2}
    Blob = {r1, r2, b1, b2, b3, e1}
    Raw <- MCRaw
    Parts <- MCParts
    Node = {doc, kid}
    Root <- MCRoot
    Kids <- MCKids
    NodeBlob <- MCNodeBlob
    Entities <- MCEntities
INVARIANT MissingMeansNoHead
