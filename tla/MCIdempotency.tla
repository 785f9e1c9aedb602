--------------------------- MODULE MCIdempotency ----------------------------
(* Instances of Idempotency for TLC: r1 and its retry ask the same, r4      *)
(* asks something else under the same key.                                  *)
EXTENDS Idempotency, TLC

CONSTANTS r1, r2, r4, same, other

OneStranger == [r \in Requests |-> IF r = r4 THEN other ELSE same]
Retries == Permutations(Requests \ {r4})
=============================================================================
