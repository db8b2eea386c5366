\* TODO.md 118: any node ID can be located directly.
SPECIFICATION Spec
CONSTANTS
    None = None
    Malformed = Malformed
    top = top
    n1 = n1
    n2 = n2
    n3 = n3
    f1 = f1
    f2 = f2
    t1 = t1
    t2 = t2
    NodeId = {top, n1, n2, n3}
    Fields = {f1, f2}
    Documents <- MCDocuments
    TypeOf <- MCTypeOf
    style1 = style1
    component1 = component1
    v1 = v1
    v2 = v2
    set1 = set1
    EntityKey = {style1, component1, set1}
    Styles = {style1}
    Components = {component1}
    ComponentSets = {set1}
    StylesOf <- MCStylesOf
    ComponentOf <- MCComponentOf
    NodeOf <- MCNodeOf
    TokensOf <- MCTokensOf
    Category <- MCCategory
    Depths = {None, 0, 1, 2}
    Entity = {v1, v2}
    Queries <- MCQueries
    Limits = {0, 1, 2, 3, 4}
    DefaultLimit = 2
    MaxLimit = 3
    Rank <- MCRank
    Filters <- MCFilters
    TextOf <- MCTextOf
    Pairs = {"0:0", "1:2", "3:4"}
    Keys = {"fileK1", "branchK1", "branch"}
    Links <- MCLinks
    Explicits <- MCExplicits
    MaxCandidates = 5
    NameHolds <- MCNameHolds
    MaxDepth = 2
    RecursionLimit = 10
    Nesting <- MCNesting
    MaxNodes = 4
INVARIANT AnyNodeCanBeLocated
CHECK_DEADLOCK FALSE
