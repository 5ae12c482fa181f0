SPECIFICATION FairSpec
CONSTANTS
    None = None
    Missing = Missing
    Unusable = Unusable
    w1 = w1  w2 = w2
    plumbing = plumbing
    Plumbing = Plumbing
    hvac = hvac
    gardening = gardening
    Tenants = {}
    Properties = {}
    WorkOrderIds = {w1, w2}
    IssueTypes = {plumbing, Plumbing, hvac, gardening}
    AllowedIssueTypes = {plumbing, hvac}
    LowerCase <- MCLowerCase
    LongestFirst <- MCLongestFirst
    Times = {}
    ToolErrors = {}
    Providers = {"ollama", "openai", "plain"}
    AllowedTools = {"work_order_lookup", "maintenance_policy_lookup", "other_tool"}
    Outputs <- MCOutputs
    Messages <- MCMessages
INVARIANTS
    TypeOK
    DecisionIsCallable
    OnlyFailedRoutingFallsBack
    RoutingFailsTyped
PROPERTY CallEnds
