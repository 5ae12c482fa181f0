CONSTANTS
    None = None
    t1 = t1
    t2 = t2
    p1 = p1
    p2 = p2
    w1 = w1
    w2 = w2
    plumbing = plumbing
    Plumbing = Plumbing
    gardening = gardening
    Tenants = {t1, t2}
    Properties = {p1, p2}
    WorkOrderIds = {w1, w2}
    IssueTypes = {plumbing, Plumbing, gardening}
    AllowedIssueTypes = {plumbing}
    Times = {1, 2, 3}
    ToolErrors = {"not_found", "cross_tenant"}
    MaxAttempts = 2
    Tools = {"work_order_lookup", "maintenance_policy_lookup"}
    LowerCase <- MCLowerCase
    Scopes <- MCScopes
    Decisions <- MCDecisions
    RejectedDecisions <- MCRejected
    Results <- MCResults
SPECIFICATION Spec
INVARIANTS
    TypeOK
    AnswerIsVetted
    EvidenceMatchesAnswer
    TerminalEventClosesTrace
    FailureClassIsOfLastAttempt
    TraceAccountsForAttempts
PROPERTY RetriesAreEarned
