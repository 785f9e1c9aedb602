---------------------------- MODULE MCFactStore -----------------------------
(* Instances of FactStore for TLC.                                          *)
EXTENDS FactStore, TLC

CONSTANTS p, q, u, v, crm, chat

Everything == Values \X Values          \* all values are near each other
SameOnly   == {<<x, x>> : x \in Values}

Policy(sem, status) == [semantics |-> sem, status |-> status]

(* p is an operator's single_active slot, of typed writes only; the policy  *)
(* of q was edited, so that calls of two semantics meet in it.              *)
JudgePolicies == [s \in Slots |-> IF s = p THEN {Policy("single_active", "seeded")}
                                 ELSE {Policy("bitemporal_event", "seeded"), Policy("single_active", "proposed")}]
DirectOnly == [s \in Slots |-> {"direct"}]

(* A slot written by both paths, not in the registry at first and then      *)
(* seeded as single_active.                                                 *)
StatePolicies == [s \in Slots |-> {Policy("append_only", "fallback"), Policy("single_active", "seeded")}]
BothPaths == [s \in Slots |-> Paths]

AllSpans  == {x \in Times \X Ends : x[1] < x[2]}
DatedSpans == {x \in AllSpans : x[2] \in {1, Forever}}   \* past, held, future
HeldSpans == {x \in AllSpans : x[2] = Forever}   \* no end is stated

ValueSymmetry == Permutations(Values)
=============================================================================
