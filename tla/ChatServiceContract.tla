------------------------- MODULE ChatServiceContract -------------------------
(***************************************************************************)
(* ChatService implements ChatContract: the refinement mapping.            *)
(***************************************************************************)
EXTENDS ChatService

NothingStored(r) == r \notin chats /\ r \notin runs /\ EventRows(r) \cap events = {}
AllStored(r) == r \in chats /\ r \in runs /\ EventRows(r) \subseteq events

\* The rows of a run over the three tables, seen together.
RowsOf(r) == IF AllStored(r) THEN "whole" ELSE IF NothingStored(r) THEN "none" ELSE "torn"

\* What the client of a request can conclude: a 503, a dropped connection and a
\* crash leave it in doubt.
Conclusion(status) ==
    IF status = 200 THEN "stored" ELSE IF status = 503 THEN "in doubt" ELSE "nothing"

Verdict(r) ==
    IF request[r].step = "replied" THEN Conclusion(request[r].reply.status)
    ELSE IF request[r].step = "dropped" THEN "in doubt"
    ELSE IF request[r].step = "idle" THEN "new" ELSE "taken"

\* What a read of a run tells its client; a probe of /ready asks for no run.
Finding(status, read) ==
    IF status = 404 THEN "no such run"
    ELSE IF status # 200 THEN "error"
    ELSE IF read = Orders THEN "whole" ELSE "part of a run"

AnswerOf(q) ==
    IF reader[q].run_id = None \/ reader[q].step \in {"idle", "connecting", "selecting"}
    THEN "none yet" ELSE Finding(reader[q].status, reader[q].read)

Contract ==
    INSTANCE ChatContract WITH
        Runs <- Requests,
        Reads <- Readers,
        NoRun <- None,
        stored <- [r \in Requests |-> RowsOf(r)],
        told <- [r \in Requests |-> Verdict(r)],
        asked <- [q \in Readers |-> reader[q].run_id],
        found <- [q \in Readers |-> AnswerOf(q)]

\* Clients see a store of whole runs, whatever errors, cancellations and crashes
\* come between its steps and however few connections there are, and whoever was
\* taken up is settled (routes.py:23-82, repo.py:94-165).
ImplementsContract == Contract!Spec
=============================================================================
