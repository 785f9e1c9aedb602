---------------------------- MODULE MCDocuments -----------------------------
(* Instances of Documents for TLC: a document read by the generalist, by   *)
(* one in-process pack and by an external pack whose remote indexer may    *)
(* never come, and a reindex that visits the document for the first pack.  *)
EXTENDS Documents

CONSTANTS x1, q1, w1, p1, p2

(* The generalist with a dedicated pack, or with an external one. *)
ThePlans  == {[specs |-> <<General, 1>>, external |-> {}],
              [specs |-> <<General>>, external |-> {x1}]}

OwnPack   == [r \in InProcess |-> r]
FirstPack == [w \in InProcess \cup {w1} |-> IF w = w1 THEN 1 ELSE w]
=============================================================================
