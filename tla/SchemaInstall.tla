---------------------------- MODULE SchemaInstall ----------------------------
(***************************************************************************)
(* What migrating at startup is for: the schema appears and stays, at one  *)
(* instant where the database can do that, and a replica takes traffic     *)
(* only when all of it is there.  Who installs it, and how many tried,     *)
(* does not show.                                                          *)
(***************************************************************************)
CONSTANT Servers

VARIABLES
    atomic,     \* whether the database installs a schema as a whole
    installed,  \* "none", "part", "whole"
    ready       \* the replicas that take traffic

installVars == <<atomic, installed, ready>>

Init ==
    /\ atomic \in BOOLEAN
    /\ installed \in {"none", "whole"} \cup (IF atomic THEN {} ELSE {"part"})
    /\ ready = {}

\* Atomically from nothing to everything, else by way of a part that may last.
Install ==
    /\ installed # "whole"
    /\ installed' = IF atomic \/ installed = "part" THEN "whole" ELSE "part"
    /\ UNCHANGED <<atomic, ready>>

BecomeReady(p) ==
    /\ installed = "whole"
    /\ p \notin ready
    /\ ready' = ready \cup {p}
    /\ UNCHANGED <<atomic, installed>>

GoDown(p) ==
    /\ p \in ready
    /\ ready' = ready \ {p}
    /\ UNCHANGED <<atomic, installed>>

Next == Install \/ \E p \in Servers : BecomeReady(p) \/ GoDown(p)

Spec ==
    /\ Init /\ [][Next]_installVars
    /\ WF_installVars(Install /\ atomic)
    /\ \A p \in Servers : WF_installVars(BecomeReady(p))
=============================================================================
