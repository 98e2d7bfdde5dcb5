-------------------------- MODULE MCOutboxDispatcher --------------------------
(* Two workers that each read two messages at once and may write back what *)
(* they read long after the other has moved on; two attempts a message, so *)
(* that a stale count can undo one that was already written.               *)
EXTENDS OutboxDispatcher

CONSTANTS m1, m2, w1, w2

MCMessages == {m1, m2}
MCWorkers == {w1, w2}
=============================================================================
