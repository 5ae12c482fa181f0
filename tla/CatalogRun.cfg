SPECIFICATION CatalogSpec
CONSTANTS
    None = None
    Tenants = {"tenant-a", "tenant-b"}
    Properties = {"prop-1", "prop-2", "prop-9"}
    WorkOrderIds = {"WO-123", "WO-456", "WO-999", "WO-404"}
    IssueTypes = {"plumbing", "Plumbing", "hvac", "electrical", "roofing", "gardening"}
    AllowedIssueTypes = {"plumbing", "hvac", "electrical", "roofing"}
    LowerCase <- MCLowerCase
    Times = {20230101, 20240101, 20250101, 20250601, 20260902, 20271231, 20280101}
    ToolErrors = {"missing_scope", "not_found", "cross_tenant", "wrong_property", "missing_policy", "missing_work_order_id", "missing_issue_type"}
    MaxAttempts = 2
    Tools = {"work_order_lookup", "maintenance_policy_lookup"}
    Scopes <- MCScopes
    Decisions <- MCDecisions
    RejectedDecisions = {}
    Results <- MCResults
INVARIANTS
    AnsweredExactlyWhenEntitled
    ForeignDataStaysInStore
    TokenTellsTruth
