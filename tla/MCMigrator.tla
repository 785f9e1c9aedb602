----------------------------- MODULE MCMigrator -----------------------------
(* Three pods of a rolling deploy: the old image ends before the last file, *)
(* and a third image misses a file in the middle (a branch merged late).    *)
EXTENDS Migrator

CONSTANTS p1, p2, p3

MCPods == {p1, p2, p3}

MCManifest == [p \in MCPods |-> CASE p = p1 -> {1, 2}
                                  [] p = p2 -> {1, 2, 3}
                                  [] OTHER -> {1, 3}]
=============================================================================
