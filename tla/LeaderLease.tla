---------------------------- MODULE LeaderLease ----------------------------
(***************************************************************************)
(* The leader_lease row of one lease name (jobs/leader-lease.service.ts,   *)
(* migrations 0029 and 0142) and the three statements that touch it.       *)
(*                                                                         *)
(* A pod is one process: PROCESS_IDENTITY is drawn per process, so a       *)
(* restarted process is another pod.  The row's leaseUntil is compared     *)
(* with a clock only to ask whether it has passed, and the deadline is     *)
(* computed on a pod's own clock: `live' is that answer and may turn       *)
(* FALSE at any moment after a grant.                                      *)
(***************************************************************************)
EXTENDS Naturals

CONSTANTS
  Pods,      \* process identities
  NoPod,     \* no holder: the row does not exist
  MaxEpoch   \* bound: from this epoch on, only a dead pod's lease lapses

ASSUME LeaseAssumption == NoPod \notin Pods /\ MaxEpoch \in Nat \ {0}

VARIABLE lease   \* the row of the worker_loop lease

NoEpoch == 0
Epochs  == Nat

NoRow == [holder |-> NoPod, epoch |-> NoEpoch, live |-> FALSE]

LeaseType == [holder : Pods \cup {NoPod}, epoch : Epochs, live : BOOLEAN]

(* acquire's condition: missing row, lapsed lease, or our own row. *)
Takeable(p) == lease.holder \in {NoPod, p} \/ ~lease.live

(* Only a change of holder (or a missing row) bumps the epoch. *)
EpochFor(p) == IF lease.holder = p THEN lease.epoch ELSE lease.epoch + 1

(* The transaction of acquire when the condition holds. *)
TakeLease(p) ==
  /\ Takeable(p)
  /\ lease' = [holder |-> p, epoch |-> EpochFor(p), live |-> TRUE]

(* isHeld: our row, not expired, still at the epoch we acquired. *)
IsHeld(p, e) == lease.holder = p /\ lease.live /\ lease.epoch = e

(* Faulty variant: the DELETE forgets whose lease it is. *)
DeleteAnyLease(p) == lease' = NoRow

(* release: DELETE ... WHERE leaderId = $me. *)
DeleteLease(p) == lease' = IF lease.holder = p THEN NoRow ELSE lease

(* leaseUntil passes. *)
LeaseLapses ==
  /\ lease.live
  /\ lease' = [lease EXCEPT !.live = FALSE]
=============================================================================
