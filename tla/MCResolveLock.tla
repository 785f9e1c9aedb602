--------------------------- MODULE MCResolveLock ----------------------------
(* An instance of ResolveLock for TLC: three calls of k1 in one process, and *)
(* two of k2 in two.                                                         *)
EXTENDS ResolveLock

CONSTANTS a, b, c, d, e, p1, p2, k1, k2

Served == [x \in Callers |-> IF x = e THEN p2 ELSE p1]
Wanted == [x \in Callers |-> IF x \in {d, e} THEN k2 ELSE k1]
=============================================================================
