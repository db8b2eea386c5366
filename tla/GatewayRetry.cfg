\* DESIGN.md 5.4: when Tier 2 and 3 requests are retried.
CONSTANTS
    Invocations = {i1}
    Clients = {i1}
    Statuses <- MCStatuses
    Sizes <- MCSizes
    MaxBytes = 2
    Gone = Gone
    MaxRedirects = 1
    Tokens = {token1, token2}
    Blank = Blank
    Undecodable = Undecodable
    Absent = Absent
    LastMonth = 1
SPECIFICATION OnlineSpec
INVARIANT RetriesOnlyUnservedOr5xx
CHECK_DEADLOCK FALSE
