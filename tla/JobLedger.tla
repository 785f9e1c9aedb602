----------------------------- MODULE JobLedger ------------------------------
(***************************************************************************)
(* What the job queue promises a producer, without pods, leases or epochs: *)
(* a job is offered once, taken under claims numbered 1, 2, ..., and only  *)
(* the worker of the LATEST claim decides what becomes of it.  A worker    *)
(* whose claim was superseded, or that died, goes without a trace.         *)
(***************************************************************************)
EXTENDS Naturals

CONSTANT Items

VARIABLES
  state,    \* state[i]: where the item is
  claims,   \* claims[i]: claims taken on it so far
  working   \* working[i]: the claims whose worker is still at it

ledger == <<state, claims, working>>

LedgerInit ==
  /\ state = [i \in Items |-> "absent"]
  /\ claims = [i \in Items |-> 0]
  /\ working = [i \in Items |-> {}]

Offer(i) ==
  /\ state[i] = "absent"
  /\ state' = [state EXCEPT ![i] = "queued"]
  /\ UNCHANGED <<claims, working>>

(* A queued item is taken under a new number; its worker may never hear of it. *)
Take(i) ==
  /\ state[i] = "queued"
  /\ state' = [state EXCEPT ![i] = "held"]
  /\ claims' = [claims EXCEPT ![i] = @ + 1]
  /\ \/ working' = [working EXCEPT ![i] = @ \cup {claims[i] + 1}]
     \/ UNCHANGED working

(* The worker of the latest claim settles the item or puts it back. *)
Decide(i, n) ==
  /\ state[i] = "held"
  /\ n \in working[i]
  /\ n = claims[i]
  /\ \E s \in {"queued", "settled"} : state' = [state EXCEPT ![i] = s]
  /\ working' = [working EXCEPT ![i] = @ \ {n}]
  /\ UNCHANGED claims

(* Held items are taken back from their workers: reaped or handed back. *)
TakeBack ==
  /\ \A i \in Items : \/ state'[i] = state[i]
                      \/ state[i] = "held" /\ state'[i] \in {"queued", "settled"}
  /\ state' \in [Items -> {"absent", "queued", "held", "settled"}]
  /\ UNCHANGED <<claims, working>>

(* A queued item is cancelled. *)
Withdraw(i) ==
  /\ state[i] = "queued"
  /\ state' = [state EXCEPT ![i] = "settled"]
  /\ UNCHANGED <<claims, working>>

(* Workers go away without a word. *)
Vanish ==
  /\ \A i \in Items : working'[i] \subseteq working[i]
  /\ DOMAIN working' = Items
  /\ UNCHANGED <<state, claims>>

LedgerNext ==
  \/ \E i \in Items : Offer(i) \/ Take(i) \/ Withdraw(i) \/ (\E n \in working[i] : Decide(i, n))
  \/ TakeBack
  \/ Vanish

LedgerSpec == LedgerInit /\ [][LedgerNext]_ledger
=============================================================================
