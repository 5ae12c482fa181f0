CONSTANTS
    None = None
    t1 = t1
    t2 = t2
    p1 = p1
    w1 = w1
    plumbing = plumbing
    Tenants = {t1, t2}
    Properties = {p1}
    WorkOrderIds = {w1}
    IssueTypes = {plumbing}
    AllowedIssueTypes = {plumbing}
    Times = {1}
    ToolErrors = {"not_found", "busy"}
    MaxAttempts = 3
    Tools = {"work_order_lookup"}
    LowerCase <- MCLowerCase
    Scopes <- MCScopes
    Decisions <- MCDecisions
    RejectedDecisions <- MCRejected
    Results <- MCResults
SPECIFICATION FairSpec
INVARIANTS
    SuccessIsClean
    PairTellsTimeout
    StoredEventsAreTheRuns
    SummaryAgreesWithEvents
PROPERTIES
    RunEnds
    ImplementsContract
