----------------------------- MODULE RunContract -----------------------------
(***************************************************************************)
(* What AsyncAgentRuntime.run_detailed promises its caller, with nothing   *)
(* of the graph: it may call tools a bounded number of times, and then it  *)
(* ends once, by returning an answer or the review message, by raising, or *)
(* by being cancelled.  An answer that comes from a tool is grounded: it   *)
(* is about a payload the caller may see.  Once a tool has been called the *)
(* run no longer raises.  The conversation is remembered exactly when the  *)
(* run returns.                                                            *)
(***************************************************************************)
EXTENDS Naturals

CONSTANT Budget     \* the tool calls a run may make

VARIABLES
    phase,          \* "working", "answered", "review", "failed", "cancelled"
    calls,          \* tool calls that ended
    grounded,       \* whether the answer is about a payload the caller may see
    remembered      \* whether the thread history holds this run

contractVars == <<phase, calls, grounded, remembered>>

Phases == {"working", "answered", "review", "failed", "cancelled"}

ContractTypeOK ==
    /\ phase \in Phases
    /\ calls \in 0..Budget
    /\ grounded \in BOOLEAN
    /\ remembered \in BOOLEAN

ContractInit ==
    /\ phase = "working"
    /\ calls = 0
    /\ grounded = FALSE
    /\ remembered = FALSE

ToolCallEnds ==
    /\ phase = "working"
    /\ calls < Budget
    /\ calls' = calls + 1
    /\ UNCHANGED <<phase, grounded, remembered>>

AnswerModel ==
    /\ phase = "working"
    /\ calls = 0
    /\ phase' = "answered"
    /\ remembered' = TRUE
    /\ UNCHANGED <<calls, grounded>>

AnswerTool ==
    /\ phase = "working"
    /\ calls > 0
    /\ phase' = "answered"
    /\ grounded' = TRUE
    /\ remembered' = TRUE
    /\ UNCHANGED calls

Review ==
    /\ phase = "working"
    /\ phase' = "review"
    /\ remembered' = TRUE
    /\ UNCHANGED <<calls, grounded>>

Fail ==
    /\ phase = "working"
    /\ calls = 0
    /\ phase' = "failed"
    /\ UNCHANGED <<calls, grounded, remembered>>

Abandon ==
    /\ phase = "working"
    /\ phase' = "cancelled"
    /\ UNCHANGED <<calls, grounded, remembered>>

ContractNext ==
    ToolCallEnds \/ AnswerModel \/ AnswerTool \/ Review \/ Fail \/ Abandon

ContractSafety == ContractInit /\ [][ContractNext]_contractVars

\* The run does not work for ever.
ContractSpec == ContractSafety /\ WF_contractVars(ContractNext)
=============================================================================
