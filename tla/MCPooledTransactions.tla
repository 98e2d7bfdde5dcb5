------------------------- MODULE MCPooledTransactions -------------------------
(* Two sessions on two leases and two clients: both transactions can hold  *)
(* a lease and want a second one, and each can get the other's client.     *)
EXTENDS PooledTransactions

CONSTANTS s1, s2, k1, k2

MCSessions == {s1, s2}
MCClients == {k1, k2}
=============================================================================
