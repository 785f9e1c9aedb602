------------------------------ MODULE Migrator ------------------------------
(***************************************************************************)
(* Schema migration of one target database by pods that boot together      *)
(* (db/migrator.service.ts, db/migration-lock.ts, ensureSchema of          *)
(* db/surreal.service.ts).                                                 *)
(*                                                                         *)
(* Every image carries its own manifest (a rolling deploy runs two images  *)
(* at once).  A pod reads the ledger, takes or waits for the migration     *)
(* lease, and applies its pending files in order; one file and its ledger  *)
(* row are one transaction.  The lease is a row with a deadline: it may    *)
(* lapse under a live holder, and then two pods apply at the same time.    *)
(* The in-process queue of ensureSchema makes a pod one sequential         *)
(* process.  A pod that died is not restarted: its successor has another   *)
(* identity and is another pod.                                            *)
(***************************************************************************)
EXTENDS Naturals, FiniteSets

CONSTANTS
  Pods,         \* process identities
  NoPod,        \* no holder: the lease row does not exist
  Manifest,     \* the files of a pod's image, by number
  MaxAttempts,  \* maxAttempts of applyOne
  MaxFaults,    \* bound: aborted batches, lost answers, unreachable stores
  MaxLapses,    \* bound: leases that lapse under a pod that is applying
  MaxCrashes    \* bound: processes that die

ASSUME MigratorAssumption ==
  /\ NoPod \notin Pods
  /\ Manifest \in [Pods -> SUBSET Nat]
  /\ \A p \in Pods : IsFiniteSet(Manifest[p])
  /\ MaxAttempts \in Nat \ {0}
  /\ MaxFaults \in Nat /\ MaxLapses \in Nat /\ MaxCrashes \in Nat

VARIABLES
  ledger,    \* schema_migrations: the numbers of the files applied
  lock,      \* leader_lease row of this database's migration lease
  pc,        \* where each pod's migrate() stands
  todo,      \* applyPending's list: the files it read as pending
  attempts,  \* applyOne's counter
  outcome,   \* what migrate() returns once the lease is released
  faults, lapses, crashes

vars == <<ledger, lock, pc, todo, attempts, outcome, faults, lapses, crashes>>

NoLock == [holder |-> NoPod, live |-> FALSE]

Applying == {"read", "next", "exec", "check"}
Running == Applying \cup {"start", "acquire", "peek", "release"}
Outcomes == {"ready", "failed"}

TypeOK ==
  /\ ledger \subseteq UNION {Manifest[p] : p \in Pods}
  /\ lock \in [holder : Pods \cup {NoPod}, live : BOOLEAN]
  /\ pc \in [Pods -> Running \cup Outcomes \cup {"dead"}]
  /\ todo \in [Pods -> SUBSET Nat]
  /\ attempts \in [Pods -> 0 .. MaxAttempts - 1]
  /\ outcome \in [Pods -> Outcomes]
  /\ faults \in 0 .. MaxFaults /\ lapses \in 0 .. MaxLapses /\ crashes \in 0 .. MaxCrashes

Init ==
  /\ ledger = {}
  /\ lock = NoLock
  /\ pc = [p \in Pods |-> "start"]
  /\ todo = [p \in Pods |-> {}]
  /\ attempts = [p \in Pods |-> 0]
  /\ outcome = [p \in Pods |-> "failed"]
  /\ faults = 0 /\ lapses = 0 /\ crashes = 0

-----------------------------------------------------------------------------
(* The ledger and the lease.                                               *)

(* readLedger's pending: the manifest's files without a ledger row. *)
Pending(p) == Manifest[p] \ ledger

(* Files are applied in the order of their numbers. *)
IsNext(p, m) == m \in todo[p] /\ \A k \in todo[p] : m <= k

(* Faulty variant: a lease that lapsed is never taken over. *)
TakeableIfFree(p) == lock.holder \in {NoPod, p}

(* tryAcquire's condition: missing row, lapsed lease, or our own row. *)
Takeable(p) == lock.holder \in {NoPod, p} \/ ~lock.live

TakeLock(p) == lock' = [holder |-> p, live |-> TRUE]

Goto(p, l) == pc' = [pc EXCEPT ![p] = l]

Fault == faults < MaxFaults /\ faults' = faults + 1

(* migrate() is about to return or throw: the finally releases the lease. *)
Finish(p, o) == Goto(p, "release") /\ outcome' = [outcome EXCEPT ![p] = o]

-----------------------------------------------------------------------------
(* migrate: nothing pending means no lease at all. *)
Start(p) ==
  /\ pc[p] = "start"
  /\ Goto(p, IF Pending(p) = {} THEN "ready" ELSE "acquire")
  /\ UNCHANGED <<ledger, lock, todo, attempts, outcome, faults, lapses, crashes>>

(* acquireOrWait: tryAcquire wins. *)
Acquire(p) ==
  /\ pc[p] = "acquire"
  /\ Takeable(p)
  /\ TakeLock(p)
  /\ Goto(p, "read")
  /\ UNCHANGED <<ledger, todo, attempts, outcome, faults, lapses, crashes>>

(* acquireOrWait: somebody holds the lease, or the lease store failed.     *)
(* The store may fail after the row was written.                           *)
Refused(p) ==
  /\ pc[p] = "acquire"
  /\ \/ ~Takeable(p) /\ UNCHANGED <<lock, faults>>
     \/ Fault /\ UNCHANGED lock
     \/ Fault /\ Takeable(p) /\ TakeLock(p)
  /\ Goto(p, "peek")
  /\ UNCHANGED <<ledger, todo, attempts, outcome, lapses, crashes>>

(* Faulty variant: whoever loses the race trusts the holder to finish. *)
PeekTrusting(p) ==
  /\ pc[p] = "peek"
  /\ Goto(p, "ready")
  /\ UNCHANGED <<ledger, lock, todo, attempts, outcome, faults, lapses, crashes>>

(* The re-read between two tries: the manifest is complete, or try again,  *)
(* or the deadline has passed and migrate throws.                          *)
Peek(p) ==
  /\ pc[p] = "peek"
  /\ IF Pending(p) = {} THEN Goto(p, "ready")
     ELSE Goto(p, "acquire") \/ Goto(p, "failed")
  /\ UNCHANGED <<ledger, lock, todo, attempts, outcome, faults, lapses, crashes>>

(* applyPending reads the ledger again under the lease. *)
ReadPending(p) ==
  /\ pc[p] = "read"
  /\ todo' = [todo EXCEPT ![p] = Pending(p)]
  /\ IF Pending(p) = {} THEN Finish(p, "ready")
     ELSE Goto(p, "next") /\ UNCHANGED outcome
  /\ UNCHANGED <<ledger, lock, attempts, faults, lapses, crashes>>

(* The loop head: before the half-life the file is applied as it is; after *)
(* it the lease is renewed first, and a lost one ends the run.             *)
NextFile(p) ==
  /\ pc[p] = "next"
  /\ \/ Goto(p, "exec") /\ UNCHANGED <<lock, outcome, faults>>
     \/ Takeable(p) /\ TakeLock(p) /\ Goto(p, "exec") /\ UNCHANGED <<outcome, faults>>
     \/ ~Takeable(p) /\ Finish(p, "failed") /\ UNCHANGED <<lock, faults>>
     \/ Fault /\ Finish(p, "failed") /\ UNCHANGED lock
  /\ UNCHANGED <<ledger, todo, attempts, lapses, crashes>>

(* A file is behind us: the next one, or the end of the list. *)
Advance(p, m) ==
  /\ todo' = [todo EXCEPT ![p] = @ \ {m}]
  /\ attempts' = [attempts EXCEPT ![p] = 0]
  /\ IF todo[p] = {m} THEN Finish(p, "ready") ELSE Goto(p, "next") /\ UNCHANGED outcome

(* applyOne's batch commits: the DDL and the ledger row, in one transaction. *)
(* The ledger's unique index admits the row once.                            *)
Commit(p) ==
  /\ pc[p] = "exec"
  /\ \E m \in todo[p] :
       /\ IsNext(p, m)
       /\ m \notin ledger
       /\ ledger' = ledger \cup {m}
       /\ Advance(p, m)
  /\ UNCHANGED <<lock, faults, lapses, crashes>>

(* The batch ends in an error: the row is there already, a conflict rolled *)
(* it back, or it committed and the answer was lost.                       *)
CommitError(p) ==
  /\ pc[p] = "exec"
  /\ \E m \in todo[p] :
       /\ IsNext(p, m)
       /\ \/ m \in ledger /\ UNCHANGED <<ledger, faults>>
          \/ m \notin ledger /\ Fault /\ UNCHANGED ledger
          \/ m \notin ledger /\ Fault /\ ledger' = ledger \cup {m}
  /\ Goto(p, "check")
  /\ UNCHANGED <<lock, todo, attempts, outcome, lapses, crashes>>

(* Faulty variant: every error of the batch is taken for a concurrent applier. *)
Forgive(p, m) == Advance(p, m)

(* Faulty variant: one attempt too many. *)
RetryOffByOne(p, m) ==
  /\ UNCHANGED todo
  /\ \/ /\ attempts[p] < MaxAttempts
        /\ attempts' = [attempts EXCEPT ![p] = @ + 1]
        /\ Goto(p, "exec") /\ UNCHANGED outcome
     \/ attempts' = [attempts EXCEPT ![p] = 0] /\ Finish(p, "failed")

(* The catch block once the row is known to be missing: try again, or, for *)
(* an error that is not retriable and after maxAttempts, give up.          *)
RetryOrThrow(p, m) ==
  /\ UNCHANGED todo
  /\ \/ /\ attempts[p] + 1 < MaxAttempts
        /\ attempts' = [attempts EXCEPT ![p] = @ + 1]
        /\ Goto(p, "exec") /\ UNCHANGED outcome
     \/ attempts' = [attempts EXCEPT ![p] = 0] /\ Finish(p, "failed")

(* isRecorded settles what the error meant; when the read fails too, the   *)
(* answer is no.                                                           *)
Check(p) ==
  /\ pc[p] = "check"
  /\ \E m \in todo[p] :
       /\ IsNext(p, m)
       /\ \/ m \in ledger /\ Advance(p, m) /\ UNCHANGED faults
          \/ m \notin ledger /\ RetryOrThrow(p, m) /\ UNCHANGED faults
          \/ m \in ledger /\ Fault /\ RetryOrThrow(p, m)
  /\ UNCHANGED <<ledger, lock, lapses, crashes>>

(* release: DELETE ... WHERE leaderId = $me, and a failure is only logged. *)
Release(p) ==
  /\ pc[p] = "release"
  /\ \/ lock' = (IF lock.holder = p THEN NoLock ELSE lock) /\ UNCHANGED faults
     \/ Fault /\ UNCHANGED lock
  /\ Goto(p, outcome[p])
  /\ todo' = [todo EXCEPT ![p] = {}]
  /\ UNCHANGED <<ledger, attempts, outcome, lapses, crashes>>

(* The database is not in knownDatabases: the next request migrates again. *)
Retry(p) ==
  /\ pc[p] = "failed"
  /\ Goto(p, "start")
  /\ UNCHANGED <<ledger, lock, todo, attempts, outcome, faults, lapses, crashes>>

-----------------------------------------------------------------------------
(* leaseUntil passes.  Nothing renews the lease of a pod that is not       *)
(* applying (it died, its release failed, or the answer to its acquire was *)
(* lost), so that one always lapses.                                       *)
Lapse ==
  /\ lock.live
  /\ lock' = [lock EXCEPT !.live = FALSE]
  /\ IF pc[lock.holder] \notin Applying THEN UNCHANGED lapses
     ELSE lapses < MaxLapses /\ lapses' = lapses + 1
  /\ UNCHANGED <<ledger, pc, todo, attempts, outcome, faults, crashes>>

Crash(p) ==
  /\ pc[p] # "dead"
  /\ crashes < MaxCrashes
  /\ crashes' = crashes + 1
  /\ Goto(p, "dead")
  /\ todo' = [todo EXCEPT ![p] = {}]
  /\ UNCHANGED <<ledger, lock, attempts, outcome, faults, lapses>>

PodStep(p) ==
  \/ Start(p) \/ Acquire(p) \/ Refused(p) \/ Peek(p) \/ ReadPending(p)
  \/ NextFile(p) \/ Commit(p) \/ CommitError(p) \/ Check(p)
  \/ Release(p) \/ Retry(p)

Next ==
  \/ \E p \in Pods : PodStep(p) \/ Crash(p)
  \/ Lapse

Spec == Init /\ [][Next]_vars

FairSpec == Spec /\ (\A p \in Pods : WF_vars(PodStep(p))) /\ WF_vars(Lapse)

-----------------------------------------------------------------------------
(* A pod serves the database only when every file of its image is applied, *)
(* whoever applied it and whichever error it saw on the way                *)
(* (ensureSchema marks knownDatabases after migrate returned).             *)
ReadyIsMigrated == \A p \in Pods : pc[p] = "ready" => Manifest[p] \subseteq ledger

(* A file runs only when every earlier file of the image that brings it    *)
(* has run, also while two pods apply because a lease lapsed under one of  *)
(* them; and no file is ever taken back or run again.                      *)
AppliedInOrder ==
  [][/\ ledger \subseteq ledger'
     /\ \A m \in ledger' \ ledger :
          \E p \in Pods : /\ m \in Manifest[p]
                          /\ \A k \in Manifest[p] : k < m => k \in ledger]_vars

(* Once the faults stop, every pod that lives comes up: a dead holder's    *)
(* lease is taken over and a failed migrate is tried again.                *)
EventuallyReady == \A p \in Pods : <>(pc[p] \in {"ready", "dead"})
=============================================================================
