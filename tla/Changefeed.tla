----------------------------- MODULE Changefeed -----------------------------
(***************************************************************************)
(* The audit changefeed: walks over the tenants that copy every committed  *)
(* change of the audited tables into audit_event                           *)
(* (audit/changefeed-consumer.service.ts, audit/changefeed-drain.service.ts). *)
(*                                                                         *)
(* A pod runs a walk from the cron tick, under the changefeed_consumer     *)
(* lease, and one from the admin's drainNow, under no lease; the flag      *)
(* inFlight is read before the tick awaits the lease and written after.    *)
(* A walk visits the tenants in order and each tenant's tables in order:   *)
(* load the cursor, fetch the changes since it, then emit the batch and    *)
(* advance the cursor in one transaction.                                  *)
(***************************************************************************)
EXTENDS LeaderLease, FiniteSets

CONSTANTS
  Drainers,      \* the pods whose drainNow route is called
  Tenants,       \* number of tenants in fanOutRoster
  Sources,       \* number of audited tables (SOURCES)
  PerBatchLimit, \* changes of a table emitted per visit
  FetchLimit,    \* rows asked of SHOW CHANGES
  MaxStamp,      \* bound: changes committed
  MaxFaults,     \* bound: queries that fail or whose answer is lost
  MaxCrashes     \* bound: processes that die

ASSUME ChangefeedAssumption ==
  /\ Drainers \subseteq Pods
  /\ Tenants \in Nat \ {0} /\ Sources \in Nat \ {0}
  /\ PerBatchLimit \in Nat \ {0}
  /\ FetchLimit \in Nat /\ FetchLimit >= PerBatchLimit    \* Math.max(fetchLimit, safeBatch)
  /\ MaxStamp \in Nat /\ MaxFaults \in Nat /\ MaxCrashes \in Nat

VARIABLES
  stamp,     \* versionstamp of the last commit
  changes,   \* the change feed of each tenant's table
  audit,     \* audit_event: the changes that have their events
  cursor,    \* changefeed_state: lastVersionstamp, 0 when there is no row
  inFlight,  \* the flag of each pod
  walk,      \* the walks of each pod
  up,        \* processes that live
  faults

vars == <<lease, stamp, changes, audit, cursor, inFlight, walk, up, faults>>
feedVars == <<stamp, changes, audit, cursor>>

Feeds == (1 .. Tenants) \X (1 .. Sources)
Walks == (Pods \X {"tick"}) \cup (Drainers \X {"drainNow"})

(* A walk that has read nothing of the table it stands on. *)
At(pc, tenant, source) ==
  [pc |-> pc, tenant |-> tenant, source |-> source, since |-> 0, batch |-> {}]

Idle == At("idle", 1, 1)

InWalk == {"hold", "cursor", "fetch", "emit"}

TypeOK ==
  /\ lease \in LeaseType
  /\ stamp \in 0 .. MaxStamp
  /\ changes \in [Feeds -> SUBSET (1 .. MaxStamp)]
  /\ audit \in [Feeds -> SUBSET (1 .. MaxStamp)]
  /\ cursor \in [Feeds -> 0 .. MaxStamp]
  /\ inFlight \in [Pods -> BOOLEAN]
  /\ walk \in [Walks -> [pc : InWalk \cup {"idle", "lease"}, tenant : 1 .. Tenants,
                         source : 1 .. Sources, since : 0 .. MaxStamp,
                         batch : SUBSET (1 .. MaxStamp)]]
  /\ up \subseteq Pods
  /\ faults \in 0 .. MaxFaults

Init ==
  /\ lease = NoRow
  /\ stamp = 0
  /\ changes = [f \in Feeds |-> {}]
  /\ audit = [f \in Feeds |-> {}]
  /\ cursor = [f \in Feeds |-> 0]
  /\ inFlight = [p \in Pods |-> FALSE]
  /\ walk = [w \in Walks |-> Idle]
  /\ up = Pods
  /\ faults = 0

-----------------------------------------------------------------------------
(* The n smallest stamps of a set: SHOW CHANGES ... LIMIT, and slice(0, n). *)
First(n, S) == {v \in S : Cardinality({u \in S : u < v}) < n}

(* Faulty variant: the change the cursor stands on stays in the page, so a *)
(* table that has nothing new looks like one another drainer is ahead on.  *)
FetchInclusive(f, since) ==
  First(PerBatchLimit, First(FetchLimit, {u \in changes[f] : u >= since}))

(* fetchChanges: SINCE includes the cursor's own change, which is dropped  *)
(* after the limit was applied.                                            *)
FetchChanges(f, since) ==
  First(PerBatchLimit,
        {v \in First(FetchLimit, {u \in changes[f] : u >= since}) : v > since})

IsLast(v, batch) == v \in batch /\ \A u \in batch : u <= v

Fault == faults < MaxFaults /\ faults' = faults + 1

Pod(w) == w[1]
Feed(w) == <<walk[w].tenant, walk[w].source>>

Step(w, pc) == walk' = [walk EXCEPT ![w].pc = pc]

(* The walk is over: the finally clears the flag, whoever set it. *)
End(w) ==
  /\ walk' = [walk EXCEPT ![w] = Idle]
  /\ inFlight' = [inFlight EXCEPT ![Pod(w)] = FALSE]

(* Only the tick holds a lease, and asks for it before every tenant. *)
TenantStart(w) == IF w[2] = "tick" THEN "hold" ELSE "cursor"

(* Faulty variant: the roster's end is missed by one. *)
NextTenantOffByOne(w) ==
  IF walk[w].tenant > Tenants THEN End(w)
  ELSE /\ walk' = [walk EXCEPT ![w] = At(TenantStart(w), walk[w].tenant + 1, 1)]
       /\ UNCHANGED inFlight

(* The tenant's tables are done, or an error ended them. *)
NextTenant(w) ==
  IF walk[w].tenant = Tenants THEN End(w)
  ELSE /\ walk' = [walk EXCEPT ![w] = At(TenantStart(w), walk[w].tenant + 1, 1)]
       /\ UNCHANGED inFlight

(* The next table of the tenant. *)
NextSource(w) ==
  IF walk[w].source = Sources THEN NextTenant(w)
  ELSE /\ walk' = [walk EXCEPT ![w] = At("cursor", walk[w].tenant, walk[w].source + 1)]
       /\ UNCHANGED inFlight

-----------------------------------------------------------------------------
(* A transaction commits a change to an audited table. *)
Write(f) ==
  /\ stamp < MaxStamp
  /\ stamp' = stamp + 1
  /\ changes' = [changes EXCEPT ![f] = @ \cup {stamp + 1}]
  /\ UNCHANGED <<lease, audit, cursor, inFlight, walk, up, faults>>

(* tick: the flag is read here ... *)
Tick(w) ==
  /\ w[2] = "tick" /\ walk[w].pc = "idle"
  /\ ~inFlight[Pod(w)]
  /\ Step(w, "lease")
  /\ UNCHANGED <<lease, feedVars, inFlight, up, faults>>

(* ... and set here, once tryAcquire has answered. *)
TickLease(w) ==
  /\ walk[w].pc = "lease"
  /\ TakeLease(Pod(w))
  /\ inFlight' = [inFlight EXCEPT ![Pod(w)] = TRUE]
  /\ Step(w, "hold")
  /\ UNCHANGED <<feedVars, up, faults>>

(* Somebody else holds the lease, or the lease store failed. *)
TickRefused(w) ==
  /\ walk[w].pc = "lease"
  /\ (~Takeable(Pod(w)) /\ UNCHANGED faults) \/ Fault
  /\ Step(w, "idle")
  /\ UNCHANGED <<lease, feedVars, inFlight, up>>

DrainNow(w) ==
  /\ w[2] = "drainNow" /\ walk[w].pc = "idle"
  /\ ~inFlight[Pod(w)]
  /\ inFlight' = [inFlight EXCEPT ![Pod(w)] = TRUE]
  /\ Step(w, "cursor")
  /\ UNCHANGED <<lease, feedVars, up, faults>>

(* holdLease: the horizon is far, or the lease is renewed. *)
Hold(w) ==
  /\ walk[w].pc = "hold"
  /\ UNCHANGED lease \/ TakeLease(Pod(w))
  /\ Step(w, "cursor")
  /\ UNCHANGED <<feedVars, inFlight, up, faults>>

(* holdLease: the renewal is refused or fails, and the walk stops. *)
HoldLost(w) ==
  /\ walk[w].pc = "hold"
  /\ (~Takeable(Pod(w)) /\ UNCHANGED faults) \/ Fault
  /\ End(w)
  /\ UNCHANGED <<lease, feedVars, up>>

LoadCursor(w) ==
  /\ walk[w].pc = "cursor"
  /\ walk' = [walk EXCEPT ![w].pc = "fetch", ![w].since = cursor[Feed(w)]]
  /\ UNCHANGED <<lease, feedVars, inFlight, up, faults>>

Fetch(w) ==
  /\ walk[w].pc = "fetch"
  /\ LET batch == FetchChanges(Feed(w), walk[w].since)
     IN  IF batch = {} THEN NextSource(w)
         ELSE /\ walk' = [walk EXCEPT ![w].pc = "emit", ![w].batch = batch]
              /\ UNCHANGED inFlight
  /\ UNCHANGED <<lease, feedVars, up, faults>>

(* Faulty variant: the cursor is written whatever it holds. *)
MayAdvance(f, v) == TRUE

(* The condition of the transaction: the cursor is behind the batch. *)
Behind(f, v) == cursor[f] < v

(* Faulty variant: the changes of a batch share an event id, so that INSERT *)
(* IGNORE keeps one of them.                                               *)
EmitSharedId(w, v) ==
  /\ Behind(Feed(w), v)
  /\ audit' = [audit EXCEPT ![Feed(w)] = @ \cup {v}]
  /\ cursor' = [cursor EXCEPT ![Feed(w)] = v]

(* INSERT IGNORE of the events and the cursor, in one transaction. *)
EmitAndAdvance(w, v) ==
  /\ Behind(Feed(w), v)
  /\ audit' = [audit EXCEPT ![Feed(w)] = @ \cup walk[w].batch]
  /\ cursor' = [cursor EXCEPT ![Feed(w)] = v]

Emit(w) ==
  /\ walk[w].pc = "emit"
  /\ \E v \in walk[w].batch : IsLast(v, walk[w].batch) /\ EmitAndAdvance(w, v)
  /\ NextSource(w)
  /\ UNCHANGED <<lease, stamp, changes, up, faults>>

(* Another drainer is ahead: cursorRaceLost ends the walk. *)
RaceLost(w) ==
  /\ walk[w].pc = "emit"
  /\ \E v \in walk[w].batch : IsLast(v, walk[w].batch) /\ ~Behind(Feed(w), v)
  /\ End(w)
  /\ UNCHANGED <<lease, feedVars, up, faults>>

(* A query throws: the tenant is given up, the walk goes on.  The          *)
(* transaction may have committed although its answer was lost.            *)
TenantFails(w) ==
  /\ walk[w].pc \in {"cursor", "fetch", "emit"}
  /\ Fault
  /\ \/ UNCHANGED <<audit, cursor>>
     \/ /\ walk[w].pc = "emit"
        /\ \E v \in walk[w].batch : IsLast(v, walk[w].batch) /\ EmitAndAdvance(w, v)
  /\ NextTenant(w)
  /\ UNCHANGED <<lease, stamp, changes, up>>

-----------------------------------------------------------------------------
Crash(p) ==
  /\ p \in up
  /\ Cardinality(Pods \ up) < MaxCrashes
  /\ up' = up \ {p}
  /\ walk' = [w \in Walks |-> IF Pod(w) = p THEN Idle ELSE walk[w]]
  /\ inFlight' = [inFlight EXCEPT ![p] = FALSE]
  /\ UNCHANGED <<lease, feedVars, faults>>

Lapse ==
  /\ lease.epoch < MaxEpoch \/ lease.holder \notin up
  /\ LeaseLapses
  /\ UNCHANGED <<feedVars, inFlight, walk, up, faults>>

(* A walk in progress takes its next step. *)
WalkStep(w) ==
  \/ TickLease(w) \/ TickRefused(w) \/ Hold(w) \/ HoldLost(w)
  \/ LoadCursor(w) \/ Fetch(w) \/ Emit(w) \/ RaceLost(w) \/ TenantFails(w)

Next ==
  \/ \E f \in Feeds : Write(f)
  \/ \E w \in Walks : Pod(w) \in up /\ (Tick(w) \/ DrainNow(w) \/ WalkStep(w))
  \/ \E p \in Pods : Crash(p)
  \/ Lapse

Spec == Init /\ [][Next]_vars

(* Cron fires for ever, queries answer, and time passes; nobody has to     *)
(* press the admin's button.                                               *)
FairSpec ==
  /\ Spec
  /\ \A w \in Walks : WF_vars(Pod(w) \in up /\ (Tick(w) \/ WalkStep(w)))
  /\ WF_vars(Lapse)

-----------------------------------------------------------------------------
(* The audit trail of a table is exactly its changes up to the cursor:     *)
(* nothing at or below the cursor is missing and nothing above it is       *)
(* there, whichever walks overlap, crash or lose their answers.            *)
AuditFollowsCursor ==
  \A f \in Feeds : audit[f] = {v \in changes[f] : v <= cursor[f]}

Trail == INSTANCE AuditTrail WITH Stamps <- 1 .. MaxStamp

(* Together the walks behave like a trail that grows by a prefix at a time *)
(* and never shrinks.                                                      *)
ImplementsTrail == Trail!Spec

(* Every committed change gets its audit event, whatever the batch, as     *)
(* long as a page holds more than the change the cursor stands on: a fetch *)
(* limit of 1, which the constructor lets through with a batch of 1, stops *)
(* every table at its first change.                                        *)
EventuallyAudited ==
  FetchLimit > 1 =>
    \A v \in 1 .. MaxStamp :
       (\E f \in Feeds : v \in changes[f]) ~> (\E f \in Feeds : v \in audit[f])
=============================================================================
