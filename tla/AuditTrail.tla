----------------------------- MODULE AuditTrail -----------------------------
(***************************************************************************)
(* What the audit changefeed promises (audit/changefeed-consumer.service.ts *)
(* and audit/changefeed-drain.service.ts): the audit trail of a table is   *)
(* always the changes of that table up to some point, in order and without *)
(* a gap, and it only grows.  Who drains, and how often, is not said here. *)
(***************************************************************************)
EXTENDS Naturals

CONSTANTS
  Feeds,   \* the change feeds: one per tenant and table
  Stamps   \* versionstamps, natural numbers

VARIABLES
  changes,   \* the versionstamps of a feed's committed changes
  audit      \* the changes a feed has an audit event for

vars == <<changes, audit>>

Init ==
  /\ changes = [f \in Feeds |-> {}]
  /\ audit = [f \in Feeds |-> {}]

(* A change commits: its stamp is above every earlier one of the feed. *)
Write(f) ==
  /\ \E v \in Stamps :
       /\ \A u \in changes[f] : u < v
       /\ changes' = [changes EXCEPT ![f] = @ \cup {v}]
  /\ UNCHANGED audit

(* The trail grows to the changes up to n. *)
Publish(f) ==
  /\ \E n \in changes[f] :
       /\ audit[f] \subseteq 0 .. n
       /\ audit' = [audit EXCEPT ![f] = {v \in changes[f] : v <= n}]
  /\ UNCHANGED changes

Next == \E f \in Feeds : Write(f) \/ Publish(f)

Spec == Init /\ [][Next]_vars
=============================================================================
