# TLA+ verification of inite-brain-service

inite-brain-service is a multi-tenant memory service: clients state facts about
entities, the service settles each fact against what it already holds, keeps
the history on two time axes, and answers questions from it.  It runs as
several identical Node.js processes ("pods") in front of SurrealDB.  All
coordination goes through rows of that database: there is no broker and no
consensus service.  This directory models the parts where that is hard to get
right, model-checks them with TLC on small instances, and proves what matters
most with TLAPS for every instance.

Paths below are relative to the repository root (`src/...` in `PROJECT.json`).

## 1. Inventory

### 1.1 Components, their state and their operations

| component | source | state | operations |
|---|---|---|---|
| leader lease | `src/jobs/leader-lease.service.ts` | one row per lease name: holder, `leaseUntil`, epoch | acquire (take, renew, steal when expired), isHeld, release |
| job queue | `src/jobs/job-claim.service.ts`, `job-run.service.ts`, migrations 0025, 0028, 0058, 0142 | `job_run` rows: status, claimedBy, leaseUntil, claimEpoch, attempts, visibleAfter, cancelRequested | enqueue, claimNext, renew, complete, fail, cancelled, release, reap, requestCancel, inline start and finish |
| worker loop | `src/jobs/worker-loop.service.ts`, `worker-poller.service.ts`, `job-dispatcher.service.ts`, `lease-manager.service.ts`, `job-reaper.service.ts` | per process: isLeader, epoch, poll loops, claims in flight, abort flag, cancel hints | renew tick, confirm, poll, claim, dispatch with heartbeat, drain, release of claims and lease |
| fact settlement | `fn::settle_fact` (migration 0177), `src/ingest/fact-resolver.service.ts` | `knowledge_fact` rows: status, validFrom, validUntil, priorValidUntil, supersededBy, conflictTrace | settle one fact, close the rows the extractor named |
| retract and revive | `src/facts/facts.service.ts` | the same rows: retractedAt, retractionReason | retract, cascade, revive what the fact had superseded |
| fact resolution | `src/dreams/fact-resolution.service.ts`, `fact-resolution.ts`, `resolver.service.ts` | resolutionCheckedAt; work tokens held by an agent | take or read pending facts, ask a model, apply the verdicts |
| rival event | migration 0175 | none of its own | after any write that closes a competing fact, settle the ones left alone |
| keyed mutex | `src/common/keyed-mutex.ts` | a map of promises in each process | run |
| idempotency keys | `src/idempotency/*`, migration 0179 | one row per (credential, key): fingerprint, pending or done, stored answer, expiresAt | begin, complete, release, sweep |
| migrator and migration lock | `src/db/migrator.service.ts`, `migration-lock.ts`, `surreal.service.ts` (`ensureSchema`) | `schema_migrations`, one lease row per database, `knownDatabases` of each process | read the ledger, take or wait for the lease, apply file by file, release, try again |
| audit changefeed | `src/audit/changefeed-consumer.service.ts`, `changefeed-drain.service.ts`, migration 0023 | `changefeed_state` cursors, `audit_event`, the `inFlight` flag of each process | cron tick, drainNow, load cursor, fetch, emit and advance |
| documents | `src/documents/*`, migration 0049 | `indexer_run` and `candidate` rows, index, reindex and commit jobs, claims of remote indexers | fan out, create or reopen a run, stage, finalize, commit, claim, heartbeat, fail, submit, nightly reconcile |
| the rest | see section 7 | | |

### 1.2 How they interact

* A producer enqueues a `job_run` row.  The pod that holds the `worker_loop`
  lease polls; a claim stamps the row with pod, deadline and lease epoch.  The
  handler's outcome is written through `ownerGuard`, which compares pod, status
  and epoch.  Every pod's reaper requeues or fails rows whose deadline passed.
* Facts are ingested by HTTP requests, by jobs and by syncs.  Each calls
  `fn::settle_fact` under a mutex keyed by (company, entity, predicate), with the
  semantics the caller chose for that call, then, in statements of their own,
  closes the rows the extractor named.
* The nightly judge reads facts that settlement left undecided, asks a model
  (seconds) and writes its verdicts one statement at a time.  Meanwhile the same
  facts are settled, named, retracted and revived.
* A process migrates a database when a request first needs it; the processes of
  two images do so at once, serialised by a lease that may lapse under its holder.
* The changefeed copies committed changes of the audited tables into
  `audit_event`; cron walks of all pods take turns by a lease, and an operator may
  start a walk without one.
* A document is read by the generalist (a background pass of the tenant, or in
  harness mode the connected agent), by one job per indexer pack and by remote
  indexers that claim work over HTTP; the last run to settle triggers the commit
  that turns staged candidates into facts, and a nightly sweep catches what was
  missed.  Jobs commit in the leader pod, requests in the pod that serves them.
* Every unsafe HTTP request may carry an `Idempotency-Key`; the interceptor
  wraps the handler with `begin` and `complete` or `release`.

### 1.3 What is hard

* *Concurrency without transactions across awaits.*  A step of the code is one
  statement; what it read before an `await` is old after it.
* *Time.*  Leases, claims and keys lapse while their owner still works.
* *Crashes and lost answers.*  A statement may commit and its answer be lost; a
  process may end between two writes of one operation.
* *Many writers of one status.*  Settlement, naming, retract, revive, cascade,
  judge, event and compaction all change `knowledge_fact.status`; the invariants
  between rows (one value at a time, a rival for every dispute,
  ordered intervals) belong to none of them.

The properties that make each component correct are listed with the modules in
section 3; the hazards, each with its line, are in `PROJECT.json`.

## 2. Modules

| module | models | extends |
|---|---|---|
| `LeaderLease` | the lease row and its three statements | |
| `JobClaim` | the `job_run` rows and every statement on them | `LeaderLease` |
| `WorkerLoop` | pods: leadership, loops, dispatch, shutdown, crash, reaper, inline runs | `JobClaim` |
| `JobLedger` | what the queue promises, without pods, leases or epochs | |
| `WorkerLoopProofs` | theorems about `WorkerLoop` | `WorkerLoop` |
| `WorkerCapsProofs` | the global cap, for any number of loops and jobs | `WorkerLoop` |
| `FactStore` | facts of one entity under settlement, naming, retract, revive, the judge and the event | |
| `FactStoreProofs` | theorems about `FactStore` | `FactStore` |
| `Idempotency` | the requests under one key | |
| `IdempotencyProofs` | theorems about `Idempotency` | `Idempotency` |
| `ResolveLock` | concurrent resolves: keyed mutex, snapshot read, commit, retry | |
| `ResolveLockProofs` | theorems about `ResolveLock` | `ResolveLock` |
| `Migrator` | pods that boot together and migrate one database | |
| `MigratorProofs` | theorems about `Migrator` | `Migrator` |
| `AuditTrail` | what the changefeed promises: a trail without gaps that only grows | |
| `Changefeed` | the walks that drain the change feeds, under and without the lease | `LeaderLease` |
| `ChangefeedProofs` | theorems about `Changefeed`, the refinement included | `Changefeed` |
| `Documents` | the queue-driven reading of one document, and its commits | |
| `DocumentsProofs` | theorems about `Documents` | `Documents` |
| `MC...` | the constants of the TLC runs | the module named |

### 2.1 LeaderLease, JobClaim, WorkerLoop

`lease` is the row; `live` says that `leaseUntil` has not passed.  There is no
clock: deadlines are computed on pods whose clocks differ, and the code only
asks whether one has passed, so `LeaseExpires` and `ClaimExpires` may happen
whenever they could.  `job[j]` is a row of `job_run`.  A pod is a process, since
`PROCESS_IDENTITY` is drawn per process: a restart is another pod.

Steps end at awaits.  The renew tick is `RenewTick` (send), `AcquireGranted` or
`AcquireDenied` (the database; a denial may also be a grant whose answer was
lost), `AcquireReturns` (resume).  A poll loop is `ConfirmHeld`,
`ConfirmNotHeld`/`ConfirmDenied`, `BeginClaim` (with the slot reserved before the
await), then `ClaimWon`, `ClaimMissed` or `ClaimAnswerLost`.  A dispatch renews
(`Renew`), ends (`HandlerEnds`, the guarded terminal write included) or ends
without its write (`TerminalWriteFails`).  Shutdown is `Shutdown`, `Drained` or
`DrainTimeout`, one `ReleaseClaim` per claim, `ReleaseLease`, `Exit`; `Crash`
may come at any time.  The serial loop is `MaxConcurrent = 1` with no global cap.

`JobLedger` numbers the claims of an item and lets only the worker of the latest
one decide it.  `WorkerLoop` implements it under the mapping that takes a row's
`attempts` as the number of its latest claim and the dispatches that still run
as its workers.  The point of the refinement is that the guard in the code never
compares the number: it compares pod and epoch.

### 2.2 FactStore

`facts[i]` is a row, numbered by `recordedAt`.  A slot is a canonical predicate;
the rows of other users, groups and derived versions are outside the pool that
both `settle_fact` and the judge read, so one pool is modelled.  Values are
model values; `Near` (cosine above the threshold) and `Alike` (`fn::same_value`)
are constants.  `NONE` as an end is `Forever`, which orders as the code's tests
do.  `Now` stands still; facts are dated before, at and after it.

Semantics belong to a call, not to a slot.  `settle_fact` takes `$semantics` from
its caller, and `conflictSlotResolution` settles a mention of a `single_active`
predicate as bitemporal, by exact value, under the flags of the moment.  `PoliciesOf`
are the semantics a predicate is configured with, `PathsOf` the ways a fact comes in, and
`CallsOn` the calls that both allow: calls of different semantics meet in one slot.  A slot is
`Exclusive` when only `single_active` calls write it.

`Ingest` is one call of `settle_fact`, atomic as in the database, with one
disjunct per outcome in the code's order: `EndsHeld`, `Confirms`, `OpensSlot`,
`GoesToHistory`, `Succeeds`, `SharesDay`, `AwaitsJudgement`.  What the extractor
named is closed afterwards by `applyExplicitSupersession`, statement by statement: the
bounds are read (`NamingReads`), each row is closed with what was read, or passed over
(`NamingCloses`, `NamingSkips`), the new fact is promoted (`NamingPromotes`); the call may be
made again (`NamingRetries`) or end anywhere (`NamingFails`).  Several of these statements
go to the database in one request, which is not a transaction, so the model's split
allows at least what can happen.  Every write that closes a competing row goes through
`Stored`, the event `competing_needs_a_rival`.

Not in the module, though they write the same status: compaction, the derivedFrom cascade
of a retract, and the corroboration and pair judges (section 7).

Retract is three steps (`RetractRead`, `RetractWrite`, `ReviveSupersededBy`) and
may end between them (`RetractDies`).  The judge takes an item, is answered, and
writes verdict by verdict; a supersede is itself three statements (`ReadBounds`,
`CloseLoser`, `PromoteWinner`).  `Harness` tells the agent's path (`submit`, which
checks that the evidence is unchanged) from the server's (`runPending`, which
does not).  A failed model call is an answer without verdicts, as in the code.

### 2.3 Idempotency

One key of one credential, any number of requests.  Each awaited statement of
`begin` is a step, so the SELECT, the DELETE of an expired row and the CREATE of
different requests interleave; the unique index is the guard of `Create`.  The
handler succeeds, refuses or fails, and one that fails may have written before it
failed.  `complete` and the CREATE may fail without effect, or commit and lose their
answer: then a done row takes the failure path, or a row stays in progress with
nobody in the handler.  `release` may fail, and a process may die anywhere.  Record ids
are never reused.

Timing assumption, stated in `Expire`: no request is in the handler for the 24
hours after which its key lapses.  HTTP timeouts are minutes.

### 2.4 ResolveLock

Calls of `resolveFactCall` on `single_active` slots.  `locks[p][k]` is the map of
process `p`; the test and the set run without an await, as in JavaScript.
`ReadSlot` and `Commit` are the snapshot and the commit of `settle_fact`.  Two
commits that close the same row conflict; that a row was *inserted* since the
snapshot the database may or may not notice (`Retry` is possible, not forced),
which is what `keyed-mutex.ts` says of SurrealDB 3.x.

### 2.5 Migrator

`ledger` is `schema_migrations`, `lock` the database's migration lease.  Each pod has
the manifest of its own image, so a rolling deploy with images that do not
contain one another is an instance.  `migrate` is a sequence of awaits: `Start`
reads the ledger, `Acquire` or `Refused` asks for the lease, `Peek` re-reads while
waiting (and may give up at the deadline), `ReadPending` reads again under the
lease, `NextFile`, then `Commit` or `CommitError`, since one file and its ledger
row are one transaction, then `Check` (`isRecorded`), and `Release` in the finally.
`CommitError` covers a row that is there already, a rollback and a commit whose
answer was lost.  `Lapse` may hit a pod that is applying: then two pods apply.

### 2.6 Changefeed

`walk` holds the walks of each pod, one from the cron tick and one from `drainNow`;
the flag `inFlight` is read in `Tick` and written in `TickLease`, on the other side
of the await.  `FetchChanges` keeps the code's order: LIMIT is applied before the
change the cursor stands on is dropped.  The code asks for one row more than a batch so
that a backlog stays visible (`pendingRemaining`, `changefeed-drain.service.ts:57-63`), but
only clamps the configured limit to the batch from below (`:68`), so `FetchLimit` may equal
`PerBatchLimit`.
`Emit` is the transaction that inserts the events and advances the cursor if it
is behind.  Versionstamps are numbers in commit order.  `AuditTrail` says what a
reader of `audit_event` may rely on; `audit` and `changes` are mapped to themselves.

### 2.7 Documents

One document.  `run` are the `indexer_run` rows, `cand` the candidates (a row is a
run and a chunk, or a run and the whole document; a row staged again is a new row, so
dropping rows also takes them out of the batches that commits have loaded).  A document
is routed by one of the `Plans`: in-process reads in the fan-out's order and external packs.

The fan-out is row by row (`FanRow`, `FanJob`, `PlanExternal`), and the request may die
between two writes (`FanDies`).  The generalist run (`General`) comes first and gets no job:
background extraction is taken to be on, so a pass of the tenant reads it, chunk by chunk
or as a whole (`GeneralWhole`), or keeps it raw (`GeneralRaw`) until something asks for it
(`Promote`); in harness mode the agent takes it and may leave (`AgentLeaves`).  Any other
worker is an index job or a reindex job: `IndexObserve` (createRun's read), `IndexDrop`,
`IndexSwap` (its compare-and-swap), `IndexStage` per chunk, `IndexClose` (finalizeRun),
`IndexCommit` (the finally).  A commit counts open runs, the waiting generalist's too
(`NonTerminalRuns`), takes the mutex of its pod and loads (`CommitLock`), and marks.  Jobs
commit in the `Leader` pod, a submit in any pod, and each pod has its own mutex.  Remote
indexers claim, heartbeat, fail and submit; a submit's token is looked at once, before its
three writes.  `ReconcileRuns` is the nightly sweep, which never fails a generalist run that
waits.  `stale` is the answer of the comparison with the stale window; as the window exceeds
the longest extraction, no run goes stale under a live in-process worker.

## 3. What the runs check

Sizes are distinct states; each passing run takes from half a minute to about
three minutes with two workers.

### 3.1 Job queue (`MCWorkerLoop`)

| run | instance | shows |
|---|---|---|
| `crash` | 2 pods, concurrent loop, 1 job, 1 crash; 416,692 | `TypeOK`; `GuardNamesClaim`: a dispatch that passes `ownerGuard` holds the row's latest claim; `TerminalIsFinal`: a settled row stays settled; `ImplementsLedger` |
| `deploy` | 2 pods, serial loop, 1 shutdown; 879,469 | `AttemptsBounded` although fail, reaper and shutdown requeue independently; `LiveLeaseNotStolen`; `ImplementsLedger` |
| `caps` | 1 pod, 2 loops, global cap 1, 2 queued jobs and an inline run; 2,161,322 | `CapsRespected`: the reservation before the await holds the cap; `InlineUndisturbed`: neither worker, reaper nor cancel takes an executing inline run's row |
| `live` | 2 pods, 1 crash, with fairness; 24,598 | `JobsSettle`: every enqueued job is settled |

Bounds: two pods are enough for a stale owner and a new one; one job because
jobs interact only through the caps, which `caps` checks with two; `MaxEpoch`
stops a live pod's lease from lapsing once the epoch has reached it, so two
changes of holder happen; one crash or one shutdown, which the proofs of section
5 lift.  `RegMax` and `ReapMax` (attempts allowed by `fail` and by the reaper) differ
in `crash` so that both limits are met.

### 3.2 Facts (`MCFactStore`)

| run | instance | shows |
|---|---|---|
| `facts_state` | one slot settled by append_only, bitemporal and single_active calls in turn, 2 facts, record and chat origin, past and held spans, naming, the server's judge, 2 retracts; 627,465 | `TypeOK`; `IntervalsOrdered`: no started fact ends before it starts, now or after a revive; `OnlyReviveReopens`: late verdicts reopen nothing; `RecordNotDemoted`: the judge never closes, absorbs or disputes an open fact of record |
| `facts_judge` | an exclusive single_active slot and one where an event's calls and promoted ones meet, 3 facts on 2 days, future-dated ones too, an agent as judge, no retract; 2,002,613 | `SingleActive`: a slot that only single_active calls write never holds two overlapping values; `SettleDecides`: no overlap that the call's semantics decide is left beside a fact that was just settled; `OrphansSettled`: whichever writer closes a competing fact, none is left competing alone by it, but beside a declared winner or a fact of the same day that was just settled (section 6) |

Bounds: three facts are needed for a chain (A, B, C) and for a dispute with a
third value; three instants, which give two days, order them in every way.
`facts_state` has two facts because it allows two origins, three semantics, spans with
ends, naming in statements and two retracts at once.  `facts_judge` leaves retracts out:
`SingleActive` is false with them (section 6); section 5 proves that a revive is the
only step that breaks it in an exclusive slot.

### 3.3 Idempotency (`MCIdempotency`)

`keys`: three requests, two equal and one other; 1,356,835 states.  `SingleFlight` and
`AnsweredOnce`; `ReplayIsFirst`: a replay repeats what the handler said to the request whose
row it read, also when that request went on to the failure path because the answer of
`complete` was lost; `RerunOnlyAfterFailure`: within a key's lifetime a write takes effect a
second time only after the request of the first ended in a failure (its handler wrote and
then failed, or its answer was not stored, or not known to be).  A third request is what it
takes to delete the row a second one created.

### 3.4 Resolve lock (`MCResolveLock`)

`lock`: five calls with fairness, three of one slot in one process and two of
another slot in two processes; 128,064 states.  `MutualExclusion` in every
process; `OneActive` of the slots one process serves; `KeysHaveHolders`;
`EveryoneServed`.

### 3.5 Migrator (`MCMigrator`)

`boot`: three pods with the files {1, 2}, {1, 2, 3} and {1, 3}, two attempts per
file, two faults, one lapse under an applying pod, one crash; 147,679 states.
`ReadyIsMigrated`: a pod that serves has every file of its image applied, whatever
error it took for another pod's success.  `AppliedInOrder`: a file runs once, after
the earlier files of an image that has it, also while two pods apply.
`EventuallyReady`: every living pod comes up.  The third image misses a file in the
middle, so orders differ; two faults are a lost answer followed by a failed check.

### 3.6 Changefeed (`MCChangefeed`)

`drain`: two pods, one with `drainNow`, two tenants with one table, batches of 2 of
pages of 2 (the smallest page the clamp allows), two changes, one fault, one crash;
136,244 states.  `AuditFollowsCursor`:
the events of a table are exactly its changes up to the cursor.  `ImplementsTrail`:
the walks implement `AuditTrail`.  `EventuallyAudited`: every change gets its event, if a
page has more than one row (section 6).  A page that holds the change the cursor stands on
and one more, and walks that overlap in one pod and between pods, are what a skipped
change would take.

### 3.7 Documents (`MCDocuments`)

`docs`: the generalist with an in-process pack, or with a remote indexer; the service's
passes or an agent as its reader; two chunks, two attempts, two pods, one fault or crash, one
claim or take; 351,100 states.  `SucceededIsWhole`: a succeeded run has every chunk staged or
decided.  `DecidedByOne`: two commits of one process never decide one candidate.  `RunsSettle`:
the in-process runs come to an end, all but a generalist run that waits for an agent.
`EventuallyDecided`: no staged candidate stays pending, although a commit may defer to the
generalist or to another pack, collapse into an old dedup key, fail or die and the remote
indexer may never come; what may hold it is, again, a generalist run that no agent takes.
Generalist, pack and remote indexer in one plan are left to the theorems of section 5.

`docs_reopen`: an index job and a reindex job of one pack.  Violates `OneExtractor`
(section 6).

### 3.8 Mutants

Every property of a passing run has a mutant in `PROJECT.json`: an operator of
the model, marked "Faulty variant", that a plausible mistake in the code would
give (a DELETE by key and not by record id, a retry loop one round longer, a
waiter that does not look at the map again, an end without its guard, a lock
given back on success only).  TLC finds the property violated with it.

## 4. Fairness

`WorkerLoop.FairSpec` assumes what the code does as long as a process runs:
timers fire (`Boot`, `RenewTick`, the reaper's cron), awaited calls return, the
drain has a deadline, handlers end, backoff and the deadlines of claims and
leases nobody renews pass.  Strong fairness is assumed of the calls that are
repeated for ever and may fail each time (acquire, isHeld, claim): a database
that refuses the same call for ever is out of scope.  Nothing is assumed of
crashes, shutdowns, lost answers or failing terminal writes.  A handler that
never returns is excluded; the code has no bound for it (see the hazards).

`Migrator.FairSpec`: a pod goes on (a failed migrate is tried again by the next
request, so the service must be asked for something), and time passes for leases.
`Changefeed.FairSpec`: the cron of a living pod fires, its queries answer and
leases lapse; nobody has to call `drainNow`.  `Documents.FairSpec`: the fan-out, the
jobs and the commits go on, which is what `JobsSettle` shows of the queue, a pass reads
what waits (`PassDue`; it need not try again what failed), time passes for in-process
runs and for an agent's token (`AgentLeaves`), and the nightly sweep runs; nothing makes an
agent take the generalist run, and nothing is assumed of remote indexers, not even that
they finish what they claimed.  `MaxClaims` bounds claims and takes: agents that take and
abandon a read for ever would hold the commit too.  Faults and crashes are bounded in all
three: the properties say what happens once they stop.  `JobsSettle` is checked without a
shutdown: a lease granted after its pod released it is in `deploy`, for safety only.

`ResolveLock.FairSpec` is weak fairness of every call's steps: the event loop
runs each continuation and the database answers.  Failure is not a fair action.

## 5. Proofs

Eight modules hold theorems; 35 of them are listed in `PROJECT.json`.  They assume
only the `ASSUME`s of the modules, which TLC evaluates in every run, and the hypotheses
named below.  Most of the `ASSUME`s type the constants; the others are what the code
guarantees: `FetchLimit >= PerBatchLimit` (the clamp), that a stated span does not end
before it starts, that an index job reads for its own pack.

**WorkerLoopProofs.**  `TypeCorrect` proves `TypeOK`.  The inductive invariant
`IInv` adds `RowsOwned` (only a running row has a claimant), `InlineOwned` (an
executing inline run's row is running and unclaimed), `FiniteDispatch` and
`LeaseOwned`.  From it: `InlineUndisturbedCorrect`, `TerminalIsFinalCorrect`,
`LiveLeaseNotStolenCorrect`, for any number of pods, jobs, crashes and shutdowns.
`GuardNamesClaimCorrect` needs one more conjunct, `LatestClaim`: of two dispatches
of one row, only that of the latest claim can have the row's pod and epoch.  It
holds because a pod with `TenantMax = 1` (the default) cannot claim a row of a
tenant whose dispatch it still runs, and it is false with `TenantMax = 2`, so the
theorem has that hypothesis.  The argument classifies every statement on a row
as *calm* (it does not create a claim) or as a claim.
`ImplementsLedgerCorrect` proves the refinement of `JobLedger` under the same
hypothesis.  The ledger numbers claims by a row's attempts and keeps the numbers at
work.  `Numbered` says that no two dispatches, of any pods, have the same number of
one row and none is ahead of the row, so that a handler's end takes out its own
number only; `AbsentUnclaimed`, that a row not yet enqueued has no claims;
`LatestClaim`, that a decision is made under the latest number.  Every action is
shown to be of one of six kinds (`TakesBack`, `Vanishes`, `Offers`, `Withdraws`, `Takes`,
`Decides`), and every kind to be a step of the ledger or a stutter.  Without the
hypothesis the refinement is false: a decision can come from an earlier claim of the
same pod and epoch.

**WorkerCapsProofs.**  `CapsRespectedCorrect`: however many loops and jobs, a process
keeps the global cap and the cap of each job type (of which there are finitely
many).  The caps are tested before the await of the claim, so the invariant
`CapInv` counts places, not jobs: a loop that waits for its claim's answer has
reserved one, and every dispatch holds one.
`AttemptsBoundedCorrect`, for finitely many pods and `TenantMax = 1`: `fail` and the reaper
requeue below their limits, but the shutdown's release requeues whatever the
attempts.  `HandedBack(j)` is the set of pods that are past releasing row `j`; it only
grows, and `RowBound` says that a row is never more than its size past the limit, and
strictly less while it is pending.  That a release adds its pod needs that a pod has
one dispatch and one release of a row (`OneDispatch`, `OneRelease`), which is where the
tenant cap comes in again.

**FactStoreProofs.**  `TypeCorrect`, `IntervalsOrderedCorrect`, `RecordNotDemotedCorrect`
and `OnlyReviveReopensCorrect`, for any number of facts, slots, dates and retracts.
`IntervalsOrdered` is not inductive: the judge closes a loser with an end it read
two statements earlier.  `IInv` adds `Prefix` (rows are numbered without gaps) and
`JudgeSane`: what the judge has taken, been told and begun names rows that exist,
every verdict still to be applied is `Lawful` (its loser is not of record), and the
end it is about to write or keep is not before the loser's start.  The step lemma
shows of every writer that each row it touches stays `RowOK`: its interval, the one
a revive would copy back, and how its status may change; the action properties are
read off that.

A second pass over the writers shows what each does to the *other* rows of a slot
(`Carried`): no writer but a revive opens a row, stretches its end, or moves it to
another slot, value or start.  With `OpenIsLive` (an open row is not retracted, `LiveHolds`)
this gives the theorems about slots.  `SettleDecidesCorrect`: the pools that `settle_fact`
builds (later rows, rows to close, peers) leave no near overlap out, for any dates and
day length.  `OrphansSettledCorrect`: the event settles every orphan of every writer of the model.
`OnlyReviveDoubles`: of all steps only `reviveSupersededBy` puts a second value into an
exclusive slot, so `SingleActiveCorrect` needs one hypothesis, `Retractable = {}` (no
operator retracts), and is false without it (section 6).  Both say nothing of a slot that
promoted calls write as well: there a bitemporal call leaves a second value by design.

**IdempotencyProofs.**  `SingleFlight` is not inductive: two requests could both
hold a row id.  `IInv` adds `IdsOwned` (ids are below `nextId` and no two requests
hold the same), `HandlerHolds` (a request in the handler holds the present,
unexpired row, in progress until its answer is stored), `DeletesLapsed` (a request about to delete names a lapsed row),
`RepliesEnd`, `AnswerKept` (the row of an answered request is done with its
status, or lapsed) and `RowAnswered` (a done row was completed by a request with
its fingerprint).  Then `SingleFlightCorrect`, `AnsweredOnceCorrect`,
`ReplayIsFirstCorrect`, `TypeCorrect`, for any number of requests.
`RerunOnlyAfterFailureCorrect` adds `EffectHeld`: the row of a request whose write took
effect is still there, unless it lapsed or the request ended in a failure.

**ResolveLockProofs.**  `Named` says that a call inside its section is the one
the map names, and that what the map names is inside; `LockCorrect` follows.
`OneActiveCorrect` adds `SnapshotCurrent`: of a slot whose calls are all in one
process (`OneProcess`), the snapshot of the call inside is the slot as it is.
`KeysHaveHoldersCorrect`: a key of the map is held by a call that is inside.

**MigratorProofs.**  `ReadyIsMigratedCorrect` and `AppliedInOrderCorrect`, for any
images, pods and faults, and although the lease may lapse under its holder: the
lease is not what makes migration safe.  `IInv` says that a pod's list holds files of
its image only (`TodoOfImage`), that every file of the image that is no longer on
the list of an applying pod is in the ledger (`DoneIsRecorded`), and that a pod about
to return "ready" has its image applied (`ReadyOutcome`).

**ChangefeedProofs.**  `AuditFollowsCursorCorrect` and `ImplementsTrailCorrect`.  A walk
acts on a cursor and a batch it read earlier, which others may have overtaken.
`Loaded` says that what it loaded is not ahead of the cursor, `Gapless` that its batch
has every change between the cursor it loaded and its last one, and `StampIsLast`
that later commits have larger stamps, so a batch cannot get a hole while it waits.
With the condition of the transaction, no overlap of walks can skip a change.

**DocumentsProofs.**  `TypeCorrect` (jobs never exceed their attempts) for any workers.
`SucceededIsWholeCorrect` for any packs, chunks, attempts, crashes, remote indexers
and commits, under the hypothesis `Reindexers = {}`, without which it is false
(section 6).  The invariant is per pack: `Staged` (what a worker has staged at each
point of its run), `BusyIsOpen` (a run its worker may yet drop or close has not
succeeded) and `Whole`.
All of it holds of the generalist's run too, which reads chunk by chunk or whole.
`BatchesDisjointCorrect` has no hypothesis: two commits of one process never hold one
candidate, because only the holder of the pod's mutex is past it and only a commit about to
mark has a batch (`Held`).  `DecidedByOneCorrect` adds that no candidate of a batch is in the
store as one its own process decided (`Fresh`).  `ClearInv` says that a candidate is in the
store in one form (`OneForm`) because whoever stages has dropped the run's candidates and
nobody has staged since (`Cleared` for workers, `RemoteCleared` for the indexer).  Its
hypotheses, `Reindexers = {}` and at most one poller, are where the code does not guard: two
reopeners of a stale run both pass (`docs_reopen`), and `submit` verifies its claim once
(section 6).  Of commits in different processes neither theorem claims anything: they do
take the same candidates (section 6).

Only model-checked: the liveness properties `JobsSettle`, `EveryoneServed`,
`EventuallyReady`, `EventuallyAudited`, `RunsSettle` and `EventuallyDecided`, since the prover
handles neither fairness nor ENABLED.  Every invariant, every action property and both
refinements of the runs are proved, with the hypotheses above.

## 6. Findings and observations

`docs_reopen` is a finding: `createRun` reopens a stale `running` run with
`UPDATE ... SET status = 'running' WHERE status = $observed`.  The winner writes the
value the loser compares with, so both pass and both extract, where the comment
above it says that only the winner gets `created: true`
(`src/documents/candidate-store.service.ts:136-140` and `:193`).

The following came up while modelling and proving.  No run states them as a
property; they are read off the models, and some are hazards with a note.

Comments that say otherwise than the code:

* Migration 0175 begins with "a fact stays 'competing' only while it has an open
  rival".  `settle_fact` closes the losers, on which the event makes a remaining
  same-day peer active, and then writes `competing` to the day peers of the new fact
  (0177:275), which is itself active: the peer competes alone.  The first attempt to
  prove `OrphansSettled` without this exception (`DayPeer`) failed on that branch, and TLC
  then finds it with three facts and a nearness that is not transitive: the judge
  lets u (day 1) and v (day 2) compete, and w (day 2), near both, closes u and flips v.
  In `facts_judge` all values are near each other, and v would have closed u.
* `isCancelRequested` filters on a `companyId` column that `job_run` does not have
  (`src/jobs/job-run.service.ts:376`, comment 185-188), so a cancel taken by another
  pod does not reach an inline run.
* Retracting B of A, B, C revives A beside C in a single-active slot
  (`src/facts/facts.service.ts:939`; `retract` accepts a superseded fact, line 861,
  comment 797).  `SingleActive` is therefore checked without retracts.
* The judge's `markSuperseded` overwrites a retraction made while the model answered
  (`src/dreams/resolver.service.ts:451`), and the winner's retract then revives the
  retracted fact (`facts.service.ts:889-892`).
* `complete()` runs inside the handler's try: when storing the answer fails after a
  success, the key is released and the retry writes again
  (`src/idempotency/idempotency.interceptor.ts:100`, migration 0179:1-2).  When it was stored
  and only the database's answer was lost, a retry may replay it before the release
  deletes the row, and a third request then writes again, where `idempotency-store.service.ts:96`
  says "The response the key answers with from now on".
* A handler that has written and then fails (`stampFactScope` after `settle_fact`,
  `fact-resolver.service.ts:1278`) answers 5xx, the key is released, and the retry writes
  again.  `RerunOnlyAfterFailure` shows that a failure is the only way to a second write.
* `fact-resolver.service.ts:113` says of the flags of `conflictSlotResolution` that "Both
  flags default off"; the code, and the comment at 585-587, have both on.
* `changefeed-consumer.service.ts:182` says that the `inFlight` guard prevents overlap
  with a cron tick; the tick reads the flag (89), awaits the lease and sets it at 93,
  so walks of one pod can overlap.  The trail is not harmed: `AuditFollowsCursor`.
* `candidate-commit.service.ts:50-51` says of commits "Serialized per (company,
  document): concurrent commits of one document would double-resolve the same
  candidates".  `commitLock` is a mutex of the process, and a submit commits in the pod that
  serves it (`document-ingest.service.ts:191`): stated of all pods and not of each
  (`commit[c].batch \cap commit[d].batch = {}`), `DecidedByOne` is violated in `docs` after
  thirteen steps, by an agent's submit in one pod and the sweep's commit job in the other.
* `document-async.service.ts:176` says that "a stuck pending row is reaped".  The reaper
  leaves out a generalist run that waits (`candidate-store.service.ts:279-283`), counting on
  a background reader.  In harness mode there is none: without an agent the run waits for
  ever, and with it the document's commit.  `RunsSettle` without its exception is violated
  in `docs`, with nothing failing.
* `document-async.service.ts:142-143` says that every run row is pending before
  anything is enqueued; rows and jobs are written pack by pack (170-203).  A commit
  that comes in between can see the first packs settled and the later ones absent.

Other observations:

* The DELETE of `createRun` precedes its compare-and-swap: a loser removes what the
  winner has staged, and a succeeded run can end up with a hole.
* The commit job's dedup key (`document-async.service.ts:273`) collapses later
  enqueues, and a job retried within the stale window (10 minutes against 30)
  skips its own run; both leave the commit to the nightly sweep.
* An external submit checks its token once.
* With background extraction off, the generalist is a job like a pack's, but a request
  that dies between its row and its job leaves a pending row that nobody reads or reaps.
* A page of one row (batch 1 and fetch limit 1, which `changefeed-drain.service.ts:68`
  allows) holds only the change the cursor stands on: the table is not drained any further.
  `EventuallyAudited` is stated of pages of more than one row.
* A promoted call (bitemporal, by exact value) leaves two values with one start active in
  the slot of a `single_active` predicate, without any retract
  (`fact-resolver.service.ts:120-170`).  `SingleActive` is stated of exclusive slots.
* Releasing the lease deletes its row and the epoch restarts at 1
  (`leader-lease.service.ts:170`), so epochs do not order the holders.  Claims stay
  safe: the guard also compares the pod.
* With a tenant cap of 2 (`TenantMax`) a pod can claim, under one epoch, a row its
  own stale dispatch still works on, and the guard matches both
  (`job-claim.service.ts:556`).
* An inline run of a process that dies stays `running`: the reaper skips rows without
  a lease (`job-run.service.ts:208`).
* `loopsStarted` covers all job types: after a leadership flap one handler that
  never returns keeps every loop from starting again (`worker-loop.service.ts:204`).
* A claim that disputes a record competes with a fact that stays active, and the
  rival test counts competing facts only (`fact-resolution.service.ts:460`).
* A retract that ends between its writes is not completed by its retry
  (`facts.service.ts:877`); the cascade retracts rows without reviving what those
  rows superseded (870).
* Retracting a future-dated fact ends it before it starts (`facts.service.ts:882`),
  because `retract` does not read the end it means to keep.  `IntervalsOrdered` is
  therefore stated of facts that have started.
* Storing a refusal (4xx) fails: the key answers 409 for 24 hours
  (`idempotency.interceptor.ts:108`).
* Two pods resolve one slot on snapshots without each other's row and leave two
  active rows: the mutex is per process.  `OneActive` is therefore stated of
  slots that one process serves.

## 7. Not modelled

`PROJECT.json` lists every component.  In short: *text, scores and models*
(extraction, embedding, search, synthesis, calibration) compute floating-point
values and text and have no protocol; *transports and reports* (MCP, metrics,
statistics, profiles) keep no state of their own; *authentication and policy*
are outside what this project states.  Inside the modelled parts: edges of the
graph, the other writers of a fact's status (the derivedFrom cascade, compaction, the
corroboration and pair judges), batches of more than one judged fact, the stamps
after settlement, and the wording and logging of every operation.  Of documents:
the administrator's commitPending, the synchronous path, how a pass groups documents,
the generalist's own job when background extraction is off, relearning from raw text,
submissions without a claim, the time to live of candidates, the purge and the status of
the document itself.  Of the migrator: checksums of edited files, which are recorded and
reported and stop nothing.

The mapped lines are a small share of the repository: most of it computes text,
scores and reports, and is sequential code with one writer.

## 8. Plan

In order:

1. `LeaseGuard`: `distributed-lease.guard.ts` on top of `LeaderLease` (a cron body
   with a heartbeat; a lost lease aborts it), composed with the sweeps that use it.
2. `SourceSync`: cursors, tombstones and webhooks of a connection; no item lost
   between a full and an incremental sync.
3. `UserForget`: erasure racing writers of the same user; nothing of the user is
   left once it reports success.
4. `AnswerCache`: an answer computed from older facts stored after the invalidation.
5. Work tokens of the judge's harness (taken, expired, submitted twice) composed
   with `FactStore`; the derivedFrom cascade and compaction.
6. Database sessions (pool, re-authentication) and the garbage collection of
   evidence.
7. Two remote indexers and a reindex in `Documents`, once the code decides who owns
   a reopened run.
8. Proofs for the modules of items 1 to 4 as they come; the theorems that need
   `TenantMax = 1`, restated for more dispatches once `ownerGuard` compares the attempt.
