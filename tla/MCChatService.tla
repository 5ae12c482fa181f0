---------------------------- MODULE MCChatService ----------------------------
(* Two requests and up to two readers over one or two connections: a handler  *)
(* has to wait for the pool, and a fault may hit between any two steps.       *)
EXTENDS ChatServiceContract

CONSTANTS c1, c2, q1, q2

MCRequests == {c1, c2}
MCReaders == {q1, q2}
OneReader == {q1}
=============================================================================
