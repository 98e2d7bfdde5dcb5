--------------------------- MODULE MCConnectionPool ---------------------------
(* Four callers on a pool of two connections, one of them kept idle, and   *)
(* two pings: two callers can wait together, so the order of the queue     *)
(* matters, a closed pool can be reopened while both leases of its earlier *)
(* life are still out, and pings can record in the other order.            *)
EXTENDS ConnectionPool

CONSTANTS c1, c2, c3, c4, p1, p2

MCCallers == {c1, c2, c3, c4}
MCPings == {p1, p2}
=============================================================================
