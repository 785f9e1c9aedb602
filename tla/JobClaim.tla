------------------------------ MODULE JobClaim ------------------------------
(***************************************************************************)
(* The job_run rows and the statements of JobClaimService, JobRunService   *)
(* and fn::reap_zombies (migration 0058) over them.  Each operator below   *)
(* is one database statement, hence one atomic step.                       *)
(*                                                                         *)
(* visibleAfter <= time::now() is the Boolean `visible'; leaseUntil is     *)
(* "none" (NONE), "live" or "lapsed".  claimEpoch NONE is 0.  A job name   *)
(* stands for one (jobType, dedupKey): enqueueing it again while its row   *)
(* exists returns that row and changes nothing.  claimedBy NONE is NoPod.  *)
(***************************************************************************)
EXTENDS LeaderLease

CONSTANTS
  Jobs,       \* rows, one per (jobType, dedupKey)
  TenantOf,   \* the tenant database each row lives in
  RegMax,     \* maxAttempts of the registered handlers
  ReapMax     \* JOB_RUN_MAX_ATTEMPTS, the reaper's own bound

ASSUME JobAssumption ==
  /\ RegMax \in Nat \ {0}
  /\ ReapMax \in Nat \ {0}

VARIABLE job   \* job[j]: the row of j

Terminal == {"succeeded", "failed", "cancelled"}
Statuses == {"absent", "pending", "running"} \cup Terminal
Errors   == {"none", "HandlerError", "ZombieReclaim", "ZombieAbandoned", "PodShutdown"}

JobRow == [ status     : Statuses,
            claimedBy  : Pods \cup {NoPod},
            leaseUntil : {"none", "live", "lapsed"},
            attempts   : Nat,
            claimEpoch : Nat,
            visible    : BOOLEAN,
            cancelReq  : BOOLEAN,
            error      : Errors ]

AbsentRow == [ status |-> "absent", claimedBy |-> NoPod, leaseUntil |-> "none",
               attempts |-> 0, claimEpoch |-> 0, visible |-> FALSE,
               cancelReq |-> FALSE, error |-> "none" ]

JobInit == job = [j \in Jobs |-> AbsentRow]

SetRow(j, row) == job' = [job EXCEPT ![j] = row]

(* enqueue: CREATE a pending row, visible now or after visibleAfter. *)
Enqueue(j, visibleNow) ==
  /\ job[j].status = "absent"
  /\ SetRow(j, [AbsentRow EXCEPT !.status = "pending", !.visible = visibleNow])

(* visibleAfter passes. *)
BackoffElapses(j) ==
  /\ job[j].status = "pending"
  /\ ~job[j].visible
  /\ SetRow(j, [job[j] EXCEPT !.visible = TRUE])

(* Faulty variant: the claim stamps no lease, so nothing can ever lapse. *)
ClaimRowNoLease(p, e, j) ==
  /\ job[j].status = "pending"
  /\ job[j].visible
  /\ SetRow(j, [job[j] EXCEPT !.status = "running", !.claimedBy = p,
                              !.attempts = @ + 1, !.claimEpoch = e])

(* The columns claimNext writes. *)
Claimed(r, p, e) == [r EXCEPT !.status = "running", !.claimedBy = p, !.leaseUntil = "live",
                              !.attempts = @ + 1, !.claimEpoch = e]

(* claimNext: the compare-and-set of one candidate row. *)
ClaimRow(p, e, j) ==
  /\ job[j].status = "pending"
  /\ job[j].visible
  /\ SetRow(j, Claimed(job[j], p, e))

(* Faulty variant: the guard trusts the epoch and forgets the pod. *)
GuardByEpochOnly(p, e, j) == job[j].status = "running" /\ job[j].claimEpoch = e

(* ownerGuard: the WHERE clause of every later write on a claim. *)
OwnerGuard(p, e, j) ==
  /\ job[j].claimedBy = p
  /\ job[j].status = "running"
  /\ job[j].claimEpoch = e

(* A claim taken back from p: the columns every settled write clears. *)
Unclaimed(r) == [r EXCEPT !.claimedBy = NoPod, !.leaseUntil = "none", !.claimEpoch = 0]

(* Faulty variant: the row is updated by record id alone. *)
UnguardedUpdate(p, e, j, row) == SetRow(j, row)

(* UPDATE ... WHERE ownerGuard: zero rows when the claim is lost. *)
OwnedUpdate(p, e, j, row) ==
  IF OwnerGuard(p, e, j) THEN SetRow(j, row) ELSE UNCHANGED job

RenewRow(p, e, j) ==
  OwnedUpdate(p, e, j, [job[j] EXCEPT !.leaseUntil = "live"])

Complete(p, e, j) ==
  OwnedUpdate(p, e, j, [Unclaimed(job[j]) EXCEPT !.status = "succeeded"])

(* Faulty variant: one retry too many. *)
FailOffByOne(p, e, j, attempts) ==
  OwnedUpdate(p, e, j,
    IF attempts <= RegMax
    THEN [Unclaimed(job[j]) EXCEPT !.status = "pending", !.visible = FALSE,
                                   !.error = "HandlerError"]
    ELSE [Unclaimed(job[j]) EXCEPT !.status = "failed", !.error = "HandlerError"])

(* fail: requeue with backoff below maxAttempts, else terminal. *)
Fail(p, e, j, attempts) ==
  OwnedUpdate(p, e, j,
    IF attempts < RegMax
    THEN [Unclaimed(job[j]) EXCEPT !.status = "pending", !.visible = FALSE,
                                   !.error = "HandlerError"]
    ELSE [Unclaimed(job[j]) EXCEPT !.status = "failed", !.error = "HandlerError"])

Cancelled(p, e, j) ==
  OwnedUpdate(p, e, j, [Unclaimed(job[j]) EXCEPT !.status = "cancelled"])

(* release: back to the queue at once, attempts as claimed. *)
ReleaseRow(p, e, j) ==
  OwnedUpdate(p, e, j, [Unclaimed(job[j]) EXCEPT !.status = "pending", !.visible = TRUE,
                                                 !.error = "PodShutdown"])

(* Faulty variant, as before migration 0058: NONE < time::now() is true. *)
ZombieNoneIsPast(j) == job[j].status = "running" /\ job[j].leaseUntil \in {"none", "lapsed"}

(* A zombie has a lease and the lease has passed. *)
Zombie(j) == job[j].status = "running" /\ job[j].leaseUntil = "lapsed"

(* Faulty variant: the requeue writes a status nobody reads. *)
ReapedQueued(r) == [r EXCEPT !.status = "queued", !.claimedBy = NoPod, !.leaseUntil = "none"]

(* What the reaper makes of a zombie; claimEpoch stays as it was. *)
Reaped(r) ==
  IF r.attempts < ReapMax
  THEN [r EXCEPT !.status = "pending", !.claimedBy = NoPod, !.leaseUntil = "none",
                 !.visible = FALSE, !.error = "ZombieReclaim"]
  ELSE [r EXCEPT !.status = "failed", !.claimedBy = NoPod, !.leaseUntil = "none",
                 !.error = "ZombieAbandoned"]

(* fn::reap_zombies on one tenant's database: every zombie in one statement. *)
ReapZombies(c) ==
  /\ \E j \in Jobs : TenantOf[j] = c /\ Zombie(j)
  /\ job' = [j \in Jobs |-> IF TenantOf[j] = c /\ Zombie(j) THEN Reaped(job[j]) ELSE job[j]]

(* leaseUntil of a claim passes. *)
ClaimLapses(j) ==
  /\ job[j].status = "running"
  /\ job[j].leaseUntil = "live"
  /\ SetRow(j, [job[j] EXCEPT !.leaseUntil = "lapsed"])

(* requestCancel: pending rows are cancelled, running rows are flagged. *)
FlagCancel(j) ==
  /\ job[j].status \in {"pending", "running"}
  /\ SetRow(j, IF job[j].status = "pending"
               THEN [job[j] EXCEPT !.cancelReq = TRUE, !.status = "cancelled",
                                   !.claimedBy = NoPod, !.leaseUntil = "none"]
               ELSE [job[j] EXCEPT !.cancelReq = TRUE])

(* JobRunService.start: an inline run, running with neither claim nor lease. *)
StartInlineRow(j) ==
  /\ job[j].status = "absent"
  /\ SetRow(j, [AbsentRow EXCEPT !.status = "running", !.visible = TRUE])

(* JobRunService.finish: only a running row nobody has claimed. *)
FinishInlineRow(j, status) ==
  IF job[j].status = "running" /\ job[j].claimedBy = NoPod
  THEN SetRow(j, [job[j] EXCEPT !.status = status,
                                !.error = IF status = "failed" THEN "HandlerError" ELSE "none"])
  ELSE UNCHANGED job

(* isCancelRequested's read of the row: WHERE runId = .. AND companyId = .. *)
(* finds a row only if job_run has a companyId column.                      *)
PersistedCancel(j) == "companyId" \in DOMAIN job[j] /\ job[j].cancelReq
=============================================================================
