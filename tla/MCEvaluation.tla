---------------------------- MODULE MCEvaluation ----------------------------
(* The golden cases in their order and in the reverse order, and the routing *)
(* comparison.                                                               *)
EXTENDS RoutingComparison

MCLowerCase ==
    [i \in IssueTypes |-> IF i = "Plumbing" THEN "plumbing" ELSE i]

MCLongestFirst == <<"electrical", "plumbing", "roofing", "hvac">>

Reversed == [i \in DOMAIN DefaultCases |-> DefaultCases[Len(DefaultCases) + 1 - i]]

MCSuites == [golden |-> DefaultCases, reversed |-> Reversed, comparison |-> ComparisonSuite]

MCScopes == {NoScope, DefaultScope}
=============================================================================
