--------------------------- MODULE MCThreadHistory ---------------------------
(* Three runs on two threads with room for two exchanges: three exchanges     *)
(* overflow a thread, and one may start before the others have been recorded. *)
EXTENDS ThreadHistory, TLC

CONSTANTS r1, r2, r3, t1, t2

\* A system turn, a blank one and three that count, with orders out of step.
MixedHistory ==
    << [role |-> "system", run |-> NoRun, blank |-> FALSE, order |-> 0],
       [role |-> "user", run |-> r1, blank |-> FALSE, order |-> 4],
       [role |-> "assistant", run |-> r1, blank |-> TRUE, order |-> 5],
       [role |-> "user", run |-> r2, blank |-> FALSE, order |-> 6],
       [role |-> "assistant", run |-> r2, blank |-> FALSE, order |-> 7] >>

MCOwnHistories == {<<>>, MixedHistory}
MCRuns == {r1, r2, r3}
MCThreads == {t1, t2}

\* Threads are interchangeable; runs are not, because MixedHistory names two.
ThreadSymmetry == Permutations(MCThreads)
=============================================================================
