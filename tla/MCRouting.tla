------------------------------ MODULE MCRouting ------------------------------
(* Every provider and every schema-valid routing output over two tools, one   *)
(* registered tool the router has no rules for and one unknown name.          *)
EXTENDS Routing

CONSTANTS w1, w2, plumbing, Plumbing, hvac, gardening

MCLowerCase == [i \in {plumbing, Plumbing, hvac, gardening} |->
                  IF i = Plumbing THEN plumbing ELSE i]
MCLongestFirst == <<plumbing, hvac>>

MCOutputs ==
    [action : {"direct", "use_tool"},
     tool_name : {WorkOrderTool, PolicyTool, "other_tool", UnknownTool, None},
     arguments : [work_order_id : {w1, Missing, Unusable},
                  issue_type : {Plumbing, gardening, Missing, Unusable},
                  extra : BOOLEAN]]

MCMessages ==
    [words : SUBSET {"policy", "work order", "maintenance"},
     issues : SUBSET {plumbing, hvac}, tagged : {w1, None}, numbered : {w2, None}]
=============================================================================
