\* A pull or a whoami against an arbitrary Figma, network, disk and keyring.
CONSTANTS
    Invocations = {i1}
    Clients = {i1}
    Statuses <- MCStatuses
    Sizes <- MCSizes
    MaxBytes = 2
    Gone = Gone
    MaxRedirects = 1
    Tokens = {token1, token2}
    Blank = Blank
    Undecodable = Undecodable
    Absent = Absent
    LastMonth = 1
SPECIFICATION OnlineFairSpec
INVARIANTS
    OnlineTypeOK
    RequestBudget
    ReportCoversArrivals
    QuotaCoversRequests
    RetriesFollowRecordedFailures
    ResultIsLastAnswer
    FailedDownloadLeavesNoStage
    RequestsCarryOneToken
PROPERTIES
    AnswersForetellRequests
    InvocationsEnd
\* The system stops when the commands have ended.
CHECK_DEADLOCK FALSE
