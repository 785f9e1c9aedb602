----------------------------- MODULE WorkerLoop -----------------------------
(***************************************************************************)
(* The pods of the service at work on the job queue: leadership            *)
(* (worker-loop.service.ts), the poll loops (worker-poller.service.ts),    *)
(* the dispatch of a claim (job-dispatcher.service.ts), shutdown, crashes, *)
(* and the inline runs and operator cancels of job-run.service.ts.         *)
(*                                                                         *)
(* A step is what a pod does between two awaits.  Every database statement *)
(* may also fail without effect; where the code then behaves as if the     *)
(* statement had not been sent, that is the step not taken.                *)
(***************************************************************************)
EXTENDS JobClaim, FiniteSets

CONSTANTS
  JobTypes,       \* one poll loop each
  TypeOf,         \* jobType of a row
  InlineJobs,     \* rows of JobRunService.start, never enqueued
  MaxConcurrent,  \* WORKER_LOOP_MAX_CONCURRENT
  TenantMax,      \* WORKER_LOOP_TENANT_MAX_CONCURRENT
  GlobalMax,      \* WORKER_LOOP_GLOBAL_MAX_CONCURRENT, 0 = uncapped
  MaxCrashes,     \* bound on the crashes explored
  MaxStops        \* bound on the shutdowns explored

ASSUME LoopAssumption ==
  /\ TypeOf \in [Jobs -> JobTypes]
  /\ InlineJobs \subseteq Jobs
  /\ MaxConcurrent \in Nat \ {0}
  /\ TenantMax \in Nat \ {0}
  /\ GlobalMax \in Nat
  /\ MaxCrashes \in Nat
  /\ MaxStops \in Nat

VARIABLES
  phase,      \* phase[p]: where the process is in its life
  isLeader,   \* isLeader[p]: WorkerLoopService.isLeader
  epoch,      \* epoch[p]: WorkerLoopService.epoch
  acq,        \* acq[p]: the acquire call of the renew tick
  loop,       \* loop[p][t]: the poll loop of job type t
  dispatch,   \* dispatch[p]: claims whose handler runs on p
  toRelease,  \* toRelease[p]: claims the shutdown drain still hands back
  inline,     \* inline[j]: the pod running inline job j
  hints,      \* hints[p]: inProcessCancelHints, of the inline jobs that read them
  crashes,    \* crashes so far
  stops       \* shutdowns so far

podVars == <<phase, isLeader, epoch, acq, loop, dispatch, toRelease, inline, hints, crashes, stops>>
vars    == <<lease, job, podVars>>

Phases == {"new", "up", "draining", "releasing", "exiting", "closed", "dead"}
Alive(p)   == phase[p] \notin {"new", "dead"}
Aborted(p) == phase[p] # "up"

IdleAcq  == [st |-> "idle", epoch |-> NoEpoch]
OffLoop  == [st |-> "off", epoch |-> NoEpoch]
LoopAt(st) == [st |-> st, epoch |-> NoEpoch]

AcqType   == [st : {"idle", "sent", "done"}, epoch : Epochs]
LoopType  == [st : {"off", "top", "yes", "no", "claiming"}, epoch : Epochs]
ClaimType == [job : Jobs, epoch : Epochs]

(* A claim being dispatched: what claimNext returned, and dispatchBody's flags. *)
DispatchType == [job : Jobs, epoch : Epochs, attempts : Nat,
                 cancelSeen : BOOLEAN, lost : BOOLEAN]

TypeOK ==
  /\ lease \in LeaseType
  /\ job \in [Jobs -> JobRow]
  /\ phase \in [Pods -> Phases]
  /\ isLeader \in [Pods -> BOOLEAN]
  /\ epoch \in [Pods -> Epochs]
  /\ acq \in [Pods -> AcqType]
  /\ loop \in [Pods -> [JobTypes -> LoopType]]
  /\ dispatch \in [Pods -> SUBSET DispatchType]
  /\ toRelease \in [Pods -> SUBSET ClaimType]
  /\ inline \in [Jobs -> Pods \cup {NoPod}]
  /\ hints \in [Pods -> SUBSET Jobs]
  /\ crashes \in 0..MaxCrashes
  /\ stops \in 0..MaxStops

Init ==
  /\ lease = NoRow
  /\ JobInit
  /\ phase = [p \in Pods |-> "new"]
  /\ isLeader = [p \in Pods |-> FALSE]
  /\ epoch = [p \in Pods |-> NoEpoch]
  /\ acq = [p \in Pods |-> IdleAcq]
  /\ loop = [p \in Pods |-> [t \in JobTypes |-> OffLoop]]
  /\ dispatch = [p \in Pods |-> {}]
  /\ toRelease = [p \in Pods |-> {}]
  /\ inline = [j \in Jobs |-> NoPod]
  /\ hints = [p \in Pods |-> {}]
  /\ crashes = 0
  /\ stops = 0

-----------------------------------------------------------------------------
(* Leadership.                                                              *)

(* onModuleInit: the process starts and arms the first renew tick. *)
Boot(p) ==
  /\ phase[p] = "new"
  /\ phase' = [phase EXCEPT ![p] = "up"]
  /\ UNCHANGED <<lease, job, isLeader, epoch, acq, loop, dispatch, toRelease, inline, hints, crashes, stops>>

(* The renew tick: tryBecomeLeader sends acquire. *)
RenewTick(p) ==
  /\ phase[p] = "up"
  /\ acq[p].st = "idle"
  /\ acq' = [acq EXCEPT ![p] = [st |-> "sent", epoch |-> NoEpoch]]
  /\ UNCHANGED <<lease, job, phase, isLeader, epoch, loop, dispatch, toRelease, inline, hints, crashes, stops>>

(* The datastore runs acquire and grants the lease. *)
AcquireGranted(p) ==
  /\ acq[p].st = "sent"
  /\ TakeLease(p)
  /\ acq' = [acq EXCEPT ![p] = [st |-> "done", epoch |-> EpochFor(p)]]
  /\ UNCHANGED <<job, phase, isLeader, epoch, loop, dispatch, toRelease, inline, hints, crashes, stops>>

(* acquire answers null: another pod holds a live lease, or the call failed, *)
(* before or after its commit.                                               *)
AcquireDenied(p) ==
  /\ acq[p].st = "sent"
  /\ acq' = [acq EXCEPT ![p] = [st |-> "done", epoch |-> NoEpoch]]
  /\ UNCHANGED <<job, phase, isLeader, epoch, loop, dispatch, toRelease, inline, hints, crashes, stops>>
  /\ TakeLease(p) \/ UNCHANGED lease

(* loopsStarted: some loop, or a dispatch it owns, has not settled. *)
LoopsStarted(p) == dispatch[p] # {} \/ \E t \in JobTypes : loop[p][t].st # "off"

(* tryBecomeLeader resumes; it starts the loops when the last set is over. *)
AcquireReturns(p) ==
  /\ acq[p].st = "done"
  /\ isLeader' = [isLeader EXCEPT ![p] = acq[p].epoch # NoEpoch]
  /\ epoch' = [epoch EXCEPT ![p] = acq[p].epoch]
  /\ acq' = [acq EXCEPT ![p] = IdleAcq]
  /\ loop' = IF acq[p].epoch # NoEpoch /\ ~LoopsStarted(p) /\ ~Aborted(p)
             THEN [loop EXCEPT ![p] = [t \in JobTypes |-> LoopAt("top")]]
             ELSE loop
  /\ UNCHANGED <<lease, job, phase, dispatch, toRelease, inline, hints, crashes, stops>>

-----------------------------------------------------------------------------
(* The poll loop of one job type.                                           *)

Busy(p, t) == {d \in dispatch[p] : TypeOf[d.job] = t}
SerialLoop == MaxConcurrent = 1 /\ GlobalMax = 0

(* The serial loop awaits its dispatch; the concurrent one keeps polling. *)
AtTop(p, t) == loop[p][t].st = "top" /\ (SerialLoop => Busy(p, t) = {})

GlobalInFlight(p) ==
  Cardinality(dispatch[p]) + Cardinality({t \in JobTypes : loop[p][t].st = "claiming"})

(* Faulty variant: the slot reserved by a claim in flight is not counted. *)
SaturatedNoReserve(p, t) ==
  \/ Cardinality(Busy(p, t)) >= MaxConcurrent
  \/ GlobalMax > 0 /\ Cardinality(dispatch[p]) >= GlobalMax

Saturated(p, t) ==
  \/ Cardinality(Busy(p, t)) >= MaxConcurrent
  \/ GlobalMax > 0 /\ GlobalInFlight(p) >= GlobalMax

(* Faulty variant: the tenant cap is off by one. *)
TenantOffByOne(p, j) ==
  Cardinality({d \in dispatch[p] : TypeOf[d.job] = TypeOf[j] /\ TenantOf[d.job] = TenantOf[j]})
    <= TenantMax

(* Tenants at their cap are not offered; only this loop can add to the count. *)
TenantEligible(p, j) ==
  Cardinality({d \in dispatch[p] : TypeOf[d.job] = TypeOf[j] /\ TenantOf[d.job] = TenantOf[j]})
    < TenantMax

SetLoop(p, t, l) == loop' = [loop EXCEPT ![p][t] = l]

(* The loop ends: shutdown, or leadership known to be lost. *)
LoopBreaks(p, t) ==
  /\ AtTop(p, t)
  /\ Aborted(p) \/ ~isLeader[p]
  /\ SetLoop(p, t, OffLoop)
  /\ UNCHANGED <<lease, job, phase, isLeader, epoch, acq, dispatch, toRelease, inline, hints, crashes, stops>>

(* confirmLeader's point read finds the lease ours. *)
ConfirmHeld(p, t) ==
  /\ AtTop(p, t)
  /\ ~Aborted(p)
  /\ isLeader[p]
  /\ IsHeld(p, epoch[p])
  /\ SetLoop(p, t, LoopAt("yes"))
  /\ UNCHANGED <<lease, job, phase, isLeader, epoch, acq, dispatch, toRelease, inline, hints, crashes, stops>>

(* ... or not ours, or the read fails: not knowing is not holding. *)
ConfirmNotHeld(p, t) ==
  /\ AtTop(p, t)
  /\ ~Aborted(p)
  /\ isLeader[p]
  /\ SetLoop(p, t, LoopAt("no"))
  /\ UNCHANGED <<lease, job, phase, isLeader, epoch, acq, dispatch, toRelease, inline, hints, crashes, stops>>

(* confirmLeader answers false: leadership is dropped and the loop ends. *)
ConfirmDenied(p, t) ==
  /\ loop[p][t].st = "no"
  /\ isLeader' = [isLeader EXCEPT ![p] = FALSE]
  /\ epoch' = [epoch EXCEPT ![p] = NoEpoch]
  /\ SetLoop(p, t, OffLoop)
  /\ UNCHANGED <<lease, job, phase, acq, dispatch, toRelease, inline, hints, crashes, stops>>

(* confirmLeader answers true: reserve a slot and send claimNext under the  *)
(* epoch of this instant, or wait for the next tick.                        *)
BeginClaim(p, t) ==
  /\ loop[p][t].st = "yes"
  /\ SetLoop(p, t, IF Saturated(p, t) \/ Aborted(p) \/ ~isLeader[p]
                   THEN LoopAt("top")
                   ELSE [st |-> "claiming", epoch |-> epoch[p]])
  /\ UNCHANGED <<lease, job, phase, isLeader, epoch, acq, dispatch, toRelease, inline, hints, crashes, stops>>

(* claimNext wins the row: the claim is dispatched, even after an abort. *)
ClaimWon(p, t, j) ==
  /\ loop[p][t].st = "claiming"
  /\ TypeOf[j] = t
  /\ TenantEligible(p, j)
  /\ ClaimRow(p, loop[p][t].epoch, j)
  /\ dispatch' = [dispatch EXCEPT ![p] = @ \cup
       {[job |-> j, epoch |-> loop[p][t].epoch, attempts |-> job[j].attempts + 1,
         cancelSeen |-> FALSE, lost |-> FALSE]}]
  /\ SetLoop(p, t, LoopAt("top"))
  /\ UNCHANGED <<lease, phase, isLeader, epoch, acq, toRelease, inline, hints, crashes, stops>>

(* The row is won but the answer is lost: claimNext returns null. *)
ClaimAnswerLost(p, t, j) ==
  /\ loop[p][t].st = "claiming"
  /\ TypeOf[j] = t
  /\ TenantEligible(p, j)
  /\ ClaimRow(p, loop[p][t].epoch, j)
  /\ SetLoop(p, t, LoopAt("top"))
  /\ UNCHANGED <<lease, phase, isLeader, epoch, acq, dispatch, toRelease, inline, hints, crashes, stops>>

(* Nothing won: the next tenant, under the epoch of this instant, or give up. *)
ClaimMissed(p, t) ==
  /\ loop[p][t].st = "claiming"
  /\ \/ SetLoop(p, t, LoopAt("top"))
     \/ /\ ~Aborted(p)
        /\ isLeader[p]
        /\ SetLoop(p, t, [st |-> "claiming", epoch |-> epoch[p]])
  /\ UNCHANGED <<lease, job, phase, isLeader, epoch, acq, dispatch, toRelease, inline, hints, crashes, stops>>

-----------------------------------------------------------------------------
(* The dispatch of one claim.                                               *)

(* The renew timer: the row tells whether the claim is lost or cancelled. *)
Renew(p, d) ==
  /\ d \in dispatch[p]
  /\ RenewRow(p, d.epoch, d.job)
  /\ dispatch' = [dispatch EXCEPT ![p] = (@ \ {d}) \cup
       {IF OwnerGuard(p, d.epoch, d.job)
        THEN [d EXCEPT !.cancelSeen = @ \/ job[d.job].cancelReq]
        ELSE [d EXCEPT !.lost = TRUE]}]
  /\ UNCHANGED <<lease, phase, isLeader, epoch, acq, loop, toRelease, inline, hints, crashes, stops>>

(* The terminal write dispatchBody chooses when the handler is over. *)
TerminalWrite(p, d, ok) ==
  IF d.cancelSeen THEN Cancelled(p, d.epoch, d.job)
  ELSE IF d.lost THEN UNCHANGED job
  ELSE IF ok THEN Complete(p, d.epoch, d.job)
  ELSE Fail(p, d.epoch, d.job, d.attempts)

(* The handler returns (ok) or throws or reports a failed batch (~ok). *)
HandlerEnds(p, d, ok) ==
  /\ d \in dispatch[p]
  /\ TerminalWrite(p, d, ok)
  /\ dispatch' = [dispatch EXCEPT ![p] = @ \ {d}]
  /\ UNCHANGED <<lease, phase, isLeader, epoch, acq, loop, toRelease, inline, hints, crashes, stops>>

(* The handler is over and its terminal write fails: logged, not retried. *)
TerminalWriteFails(p, d) ==
  /\ d \in dispatch[p]
  /\ dispatch' = [dispatch EXCEPT ![p] = @ \ {d}]
  /\ UNCHANGED <<lease, job, phase, isLeader, epoch, acq, loop, toRelease, inline, hints, crashes, stops>>

-----------------------------------------------------------------------------
(* Shutdown, crash, and the passing of time.                                *)

(* beforeApplicationShutdown: timer cleared, abort signalled. *)
Shutdown(p) ==
  /\ phase[p] = "up"
  /\ stops < MaxStops
  /\ stops' = stops + 1
  /\ phase' = [phase EXCEPT ![p] = "draining"]
  /\ UNCHANGED <<lease, job, isLeader, epoch, acq, loop, dispatch, toRelease, inline, hints, crashes>>

(* drainDispatches: every loop settled inside the budget. *)
Drained(p) ==
  /\ phase[p] = "draining"
  /\ ~LoopsStarted(p)
  /\ phase' = [phase EXCEPT ![p] = "exiting"]
  /\ UNCHANGED <<lease, job, isLeader, epoch, acq, loop, dispatch, toRelease, inline, hints, crashes, stops>>

(* ... or the budget is over: hand back the claims active at this instant. *)
DrainTimeout(p) ==
  /\ phase[p] = "draining"
  /\ LoopsStarted(p)
  /\ phase' = [phase EXCEPT ![p] = "releasing"]
  /\ toRelease' = [toRelease EXCEPT ![p] = {[job |-> d.job, epoch |-> d.epoch] : d \in dispatch[p]}]
  /\ UNCHANGED <<lease, job, isLeader, epoch, acq, loop, dispatch, inline, hints, crashes, stops>>

(* releaseActiveClaims, one claim; a failed write is skipped. *)
ReleaseClaim(p, c) ==
  /\ phase[p] = "releasing"
  /\ c \in toRelease[p]
  /\ toRelease' = [toRelease EXCEPT ![p] = @ \ {c}]
  /\ ReleaseRow(p, c.epoch, c.job) \/ UNCHANGED job
  /\ UNCHANGED <<lease, phase, isLeader, epoch, acq, loop, dispatch, inline, hints, crashes, stops>>

ReleasesDone(p) ==
  /\ phase[p] = "releasing"
  /\ toRelease[p] = {}
  /\ phase' = [phase EXCEPT ![p] = "exiting"]
  /\ UNCHANGED <<lease, job, isLeader, epoch, acq, loop, dispatch, toRelease, inline, hints, crashes, stops>>

(* The lease release that ends the hook; a failed write is logged. *)
ReleaseLease(p) ==
  /\ phase[p] = "exiting"
  /\ phase' = [phase EXCEPT ![p] = "closed"]
  /\ (isLeader[p] /\ DeleteLease(p)) \/ UNCHANGED lease
  /\ UNCHANGED <<job, isLeader, epoch, acq, loop, dispatch, toRelease, inline, hints, crashes, stops>>

(* Nothing of a process outlives it but its rows. *)
Dies(p) ==
  /\ phase' = [phase EXCEPT ![p] = "dead"]
  /\ isLeader' = [isLeader EXCEPT ![p] = FALSE]
  /\ epoch' = [epoch EXCEPT ![p] = NoEpoch]
  /\ acq' = [acq EXCEPT ![p] = IdleAcq]
  /\ loop' = [loop EXCEPT ![p] = [t \in JobTypes |-> OffLoop]]
  /\ dispatch' = [dispatch EXCEPT ![p] = {}]
  /\ toRelease' = [toRelease EXCEPT ![p] = {}]
  /\ inline' = [j \in Jobs |-> IF inline[j] = p THEN NoPod ELSE inline[j]]
  /\ hints' = [hints EXCEPT ![p] = {}]
  /\ UNCHANGED <<lease, job>>

Exit(p) == phase[p] = "closed" /\ Dies(p) /\ UNCHANGED <<crashes, stops>>

Crash(p) ==
  /\ Alive(p)
  /\ crashes < MaxCrashes
  /\ crashes' = crashes + 1
  /\ Dies(p)
  /\ UNCHANGED stops

(* leaseUntil passes although the holder is alive (a pause, failing renews), *)
(* or because it died.                                                       *)
LeaseExpires ==
  /\ lease.holder \in Pods
  /\ lease.epoch < MaxEpoch \/ phase[lease.holder] = "dead"
  /\ LeaseLapses
  /\ UNCHANGED <<job, podVars>>

ClaimExpires(j) == ClaimLapses(j) /\ UNCHANGED <<lease, podVars>>

BackoffOver(j) == BackoffElapses(j) /\ UNCHANGED <<lease, podVars>>

(* LeaseManagerService.reapTick on a live pod, one tenant's sweep. *)
Reap(c) ==
  /\ \E p \in Pods : phase[p] = "up"
  /\ ReapZombies(c)
  /\ UNCHANGED <<lease, podVars>>

-----------------------------------------------------------------------------
(* Producers, operators and inline runs.                                    *)

Submit(j, visibleNow) ==
  /\ j \notin InlineJobs
  /\ Enqueue(j, visibleNow)
  /\ UNCHANGED <<lease, podVars>>

(* requestCancel on pod p; the hint of a row that is over is dropped. *)
RequestCancel(p, j) ==
  /\ phase[p] = "up"
  /\ FlagCancel(j)
  /\ hints' = [hints EXCEPT ![p] = IF job[j].status = "pending" THEN @ \ {j} ELSE @ \cup ({j} \cap InlineJobs)]
  /\ UNCHANGED <<lease, phase, isLeader, epoch, acq, loop, dispatch, toRelease, inline, crashes, stops>>

(* The UPDATE of requestCancel fails: only the hint was left. *)
CancelWriteFails(p, j) ==
  /\ phase[p] = "up"
  /\ inline[j] # NoPod
  /\ hints' = [hints EXCEPT ![p] = @ \cup {j}]
  /\ UNCHANGED <<lease, job, phase, isLeader, epoch, acq, loop, dispatch, toRelease, inline, crashes, stops>>

(* The hints are an LRU: any of them may be evicted. *)
HintEvicted(p, j) ==
  /\ j \in hints[p]
  /\ hints' = [hints EXCEPT ![p] = @ \ {j}]
  /\ UNCHANGED <<lease, job, phase, isLeader, epoch, acq, loop, dispatch, toRelease, inline, crashes, stops>>

(* isCancelRequested: the hint of this process, or the row. *)
IsCancelRequested(p, j) == j \in hints[p] \/ PersistedCancel(j)

StartInline(p, j) ==
  /\ phase[p] = "up"
  /\ j \in InlineJobs
  /\ StartInlineRow(j)
  /\ inline' = [inline EXCEPT ![j] = p]
  /\ UNCHANGED <<lease, phase, isLeader, epoch, acq, loop, dispatch, toRelease, hints, crashes, stops>>

(* The inline run ends, as cancelled only if it saw the request. *)
FinishInline(p, j, status) ==
  /\ inline[j] = p
  /\ status = "cancelled" => IsCancelRequested(p, j)
  /\ FinishInlineRow(j, status)
  /\ inline' = [inline EXCEPT ![j] = NoPod]
  /\ hints' = [hints EXCEPT ![p] = @ \ {j}]
  /\ UNCHANGED <<lease, phase, isLeader, epoch, acq, loop, dispatch, toRelease, crashes, stops>>

-----------------------------------------------------------------------------
Leadership(p) ==
  Boot(p) \/ RenewTick(p) \/ AcquireGranted(p) \/ AcquireDenied(p) \/ AcquireReturns(p)

Poll(p, t) ==
  \/ LoopBreaks(p, t) \/ ConfirmHeld(p, t) \/ ConfirmNotHeld(p, t) \/ ConfirmDenied(p, t)
  \/ BeginClaim(p, t) \/ ClaimMissed(p, t)
  \/ \E j \in Jobs : ClaimWon(p, t, j) \/ ClaimAnswerLost(p, t, j)

Handle(p) ==
  \E d \in dispatch[p] :
    \/ Renew(p, d)
    \/ \E ok \in BOOLEAN : HandlerEnds(p, d, ok)
    \/ TerminalWriteFails(p, d)

Stop(p) ==
  \/ Shutdown(p) \/ Drained(p) \/ DrainTimeout(p) \/ ReleasesDone(p)
  \/ \E c \in toRelease[p] : ReleaseClaim(p, c)
  \/ ReleaseLease(p) \/ Exit(p) \/ Crash(p)

Inline(p, j) ==
  \/ RequestCancel(p, j) \/ CancelWriteFails(p, j) \/ HintEvicted(p, j)
  \/ StartInline(p, j)
  \/ \E s \in Terminal : FinishInline(p, j, s)

Environment ==
  \/ LeaseExpires
  \/ \E j \in Jobs : ClaimExpires(j) \/ BackoffOver(j) \/ (\E v \in BOOLEAN : Submit(j, v))
  \/ \E c \in {TenantOf[j] : j \in Jobs} : Reap(c)

Next ==
  \/ \E p \in Pods : Leadership(p) \/ Handle(p) \/ Stop(p)
  \/ \E p \in Pods, t \in JobTypes : Poll(p, t)
  \/ \E p \in Pods, j \in Jobs : Inline(p, j)
  \/ Environment

Spec == Init /\ [][Next]_vars

(* What the code keeps doing as long as it runs: timers fire, awaited calls  *)
(* return, handlers end, sweeps recur.  A call that is retried for ever does *)
(* not fail for ever (SF), a lease or claim nobody renews runs out.          *)
Fairness ==
  /\ \A p \in Pods :
       /\ WF_vars(Boot(p)) /\ WF_vars(RenewTick(p)) /\ WF_vars(AcquireReturns(p))
       /\ WF_vars(AcquireDenied(p)) /\ SF_vars(AcquireGranted(p))
       /\ WF_vars(\E d \in dispatch[p], ok \in BOOLEAN : HandlerEnds(p, d, ok))
       /\ WF_vars(Drained(p) \/ DrainTimeout(p) \/ ReleasesDone(p) \/ ReleaseLease(p) \/ Exit(p))
       /\ WF_vars(\E c \in toRelease[p] : ReleaseClaim(p, c))
       /\ \A t \in JobTypes :
            /\ WF_vars(LoopBreaks(p, t) \/ ConfirmNotHeld(p, t) \/ ConfirmDenied(p, t)
                         \/ BeginClaim(p, t) \/ ClaimMissed(p, t))
            /\ SF_vars(ConfirmHeld(p, t))
            /\ SF_vars(BeginClaim(p, t) /\ loop'[p][t].st = "claiming")
            /\ \A j \in Jobs : SF_vars(ClaimWon(p, t, j))
  /\ WF_vars(lease.holder \in Pods /\ phase[lease.holder] = "dead" /\ LeaseExpires)
  /\ \A j \in Jobs :
       /\ WF_vars(BackoffOver(j))
       /\ WF_vars((\A p \in Pods : \A d \in dispatch[p] : d.job # j) /\ ClaimExpires(j))
       /\ WF_vars(Reap(TenantOf[j]))

FairSpec == Spec /\ Fairness

-----------------------------------------------------------------------------
(* Properties.                                                              *)

(* ownerGuard names a claim exactly: a dispatch whose guard matches the row *)
(* holds the row's latest claim, so a stale writer cannot touch a row that  *)
(* was claimed again (job-claim.service.ts, the comment on ownerGuard).     *)
GuardNamesClaim ==
  \A p \in Pods : \A d \in dispatch[p] :
    OwnerGuard(p, d.epoch, d.job) => d.attempts = job[d.job].attempts

AttemptLimit == IF RegMax > ReapMax THEN RegMax ELSE ReapMax

(* Retries are bounded although fail, the reaper and the shutdown release    *)
(* requeue independently: only a shutdown may add an attempt past the limit, *)
(* and a process shuts down once.                                            *)
AttemptsBounded ==
  \A j \in Jobs :
    /\ job[j].attempts <= AttemptLimit + Cardinality({p \in Pods : phase[p] \notin {"new", "up"}})
    /\ job[j].status = "pending" /\ job[j].attempts >= AttemptLimit => job[j].error = "PodShutdown"

(* A settled row stays settled, whatever stale dispatches, reapers, cancels  *)
(* and inline finishes still write to it.                                    *)
TerminalIsFinal ==
  [][\A j \in Jobs : job[j].status \in Terminal => job'[j].status = job[j].status]_vars

(* A live lease changes hands only when its holder releases it on shutdown.  *)
LiveLeaseNotStolen ==
  [][lease.live /\ lease'.holder # lease.holder => phase[lease.holder] = "exiting"]_vars

(* Every enqueued job is settled in the end: a crashed leader, a lost claim   *)
(* answer or a failed terminal write never strands a row.                    *)
JobsSettle ==
  \A j \in Jobs \ InlineJobs : job[j].status \in {"pending", "running"} ~> job[j].status \in Terminal

(* While an inline run is executing, neither the reaper nor a worker touches *)
(* its row (migration 0058).                                                 *)
InlineUndisturbed ==
  \A j \in Jobs : inline[j] # NoPod => job[j].status = "running" /\ job[j].claimedBy = NoPod

(* The concurrency caps hold across the loops of a process, also while a     *)
(* claim is in flight (worker-poller.service.ts, runLoopConcurrent).         *)
CapsRespected ==
  \A p \in Pods :
    /\ GlobalMax > 0 => GlobalInFlight(p) <= GlobalMax
    /\ \A t \in JobTypes : Cardinality(Busy(p, t)) <= MaxConcurrent

(* The queue implements the ledger: claims are numbered by the row's attempts *)
(* and only the dispatch of the latest claim decides its row, although the    *)
(* guard of its write compares pod and epoch and never the number.            *)
Queued == Jobs \ InlineJobs

LedgerState(j) ==
  CASE job[j].status = "absent"  -> "absent"
    [] job[j].status = "pending" -> "queued"
    [] job[j].status = "running" -> "held"
    [] OTHER                     -> "settled"

Workers(j) == {n \in 1..job[j].attempts :
                 \E p \in Pods : \E d \in dispatch[p] : d.job = j /\ d.attempts = n}

Ledger == INSTANCE JobLedger WITH
  Items   <- Queued,
  state   <- [j \in Queued |-> LedgerState(j)],
  claims  <- [j \in Queued |-> job[j].attempts],
  working <- [j \in Queued |-> Workers(j)]

ImplementsLedger == Ledger!LedgerSpec
=============================================================================
