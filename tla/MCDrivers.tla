------------------------------ MODULE MCDrivers ------------------------------
(* Every driver, with a transaction beside another, beside a statement outside  *)
(* a transaction, and beside procedure calls.                                   *)
EXTENDS Drivers, TLC

CONSTANTS f1, f2, s1, s2

Tx(body) == [tx |-> TRUE, body |-> body]
Alone(body) == [tx |-> FALSE, body |-> body]

Transfer == Tx(<<"write", "write">>)
Tolerant == Tx(<<"write", "point", "try">>)
Audited == Tx(<<"write", "attempt">>)

Pairs == {<<Transfer, Transfer>>, <<Tolerant, Alone(<<"write">>)>>,
          <<Tx(<<"function">>), Alone(<<"inout">>)>>, <<Alone(<<"inout">>), Alone(<<"function">>)>>,
          <<Tolerant, Tx(<<"inout">>)>>, <<Audited, Tx(<<"attempt", "write">>)>>}

MCWorkloads == {[driver |-> d, calls |-> f1 :> p[1] @@ f2 :> p[2]] : d \in Adapters, p \in Pairs}
=============================================================================
