---------------------------- MODULE MCChangefeed ----------------------------
(* Two pods, two tenants; the operator's drain is called on one of the pods. *)
EXTENDS Changefeed

CONSTANTS p1, p2

MCPods == {p1, p2}
MCDrainers == {p1}
=============================================================================
