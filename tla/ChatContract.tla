----------------------------- MODULE ChatContract -----------------------------
(***************************************************************************)
(* What the HTTP API promises about runs, with no connection, transaction, *)
(* crash or pool in sight: a run is stored as a whole or not at all and    *)
(* stays; a client is told "stored" only of a stored run, "nothing" only   *)
(* of a run that is not, and may be left in doubt; a read answers with the *)
(* whole run or says that there is none, as is the case when it looks.     *)
(***************************************************************************)
CONSTANTS Runs, Reads, NoRun

VARIABLES
    stored,     \* per run: "none", "whole"
    told,       \* per run: what became of the request that made it
    asked,      \* per read: the run it asks for, NoRun before it asks or for none
    found       \* per read: its answer

contractVars == <<stored, told, asked, found>>

Verdicts == {"new", "taken", "stored", "nothing", "in doubt"}
Answers == {"none yet", "whole", "no such run", "error"}

Init ==
    /\ stored = [r \in Runs |-> "none"]
    /\ told = [r \in Runs |-> "new"]
    /\ asked = [q \in Reads |-> NoRun]
    /\ found = [q \in Reads |-> "none yet"]

Take(r) ==
    /\ told[r] = "new"
    /\ told' = [told EXCEPT ![r] = "taken"]
    /\ UNCHANGED <<stored, asked, found>>

Store(r) ==
    /\ told[r] = "taken"
    /\ stored' = [stored EXCEPT ![r] = "whole"]
    /\ UNCHANGED <<told, asked, found>>

Confirm(r) ==
    /\ told[r] = "taken"
    /\ stored[r] = "whole"
    /\ told' = [told EXCEPT ![r] = "stored"]
    /\ UNCHANGED <<stored, asked, found>>

Refuse(r) ==
    /\ told[r] \in {"new", "taken"}
    /\ stored[r] = "none"
    /\ told' = [told EXCEPT ![r] = "nothing"]
    /\ UNCHANGED <<stored, asked, found>>

Ask(q, r) ==
    /\ asked[q] = NoRun
    /\ found[q] = "none yet"
    /\ asked' = [asked EXCEPT ![q] = r]
    /\ UNCHANGED <<stored, told, found>>

Look(q) ==
    /\ asked[q] # NoRun
    /\ found[q] = "none yet"
    /\ found' = [found EXCEPT ![q] = IF stored[asked[q]] = "whole" THEN "whole" ELSE "no such run"]
    /\ UNCHANGED <<stored, told, asked>>

\* One request or read, or all of them at once when the service goes down.
LeaveInDoubt(rs, qs) ==
    /\ \A r \in rs : told[r] = "taken"
    /\ \A q \in qs : asked[q] # NoRun /\ found[q] = "none yet"
    /\ told' = [r \in Runs |-> IF r \in rs THEN "in doubt" ELSE told[r]]
    /\ found' = [q \in Reads |-> IF q \in qs THEN "error" ELSE found[q]]
    /\ UNCHANGED <<stored, asked>>

Settle(r) ==
    \/ Confirm(r)
    \/ Refuse(r)
    \/ \E rs \in SUBSET Runs, qs \in SUBSET Reads : r \in rs /\ LeaveInDoubt(rs, qs)

Answer(q) ==
    \/ Look(q)
    \/ \E rs \in SUBSET Runs, qs \in SUBSET Reads : q \in qs /\ LeaveInDoubt(rs, qs)

Next ==
    \/ \E r \in Runs : Take(r) \/ Store(r) \/ Settle(r)
    \/ \E q \in Reads : Answer(q) \/ \E r \in Runs : Ask(q, r)

\* A request that was taken is settled, and a read that was asked is answered.
Spec ==
    /\ Init /\ [][Next]_contractVars
    /\ \A r \in Runs : WF_contractVars(told[r] = "taken" /\ Settle(r))
    /\ \A q \in Reads : WF_contractVars(Answer(q))
=============================================================================
