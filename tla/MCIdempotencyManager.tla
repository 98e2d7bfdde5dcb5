------------------------- MODULE MCIdempotencyManager -------------------------
(* Four requests with one key: one whose lock expires, two that find it    *)
(* expired together, and one that comes after them.  The requests are      *)
(* interchangeable.                                                        *)
EXTENDS IdempotencyManager, TLC

CONSTANTS r1, r2, r3, r4

MCRequests == {r1, r2, r3, r4}
Symmetry == Permutations(MCRequests)
=============================================================================
