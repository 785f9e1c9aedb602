-------------------------- MODULE ChangefeedProofs --------------------------
(***************************************************************************)
(* AuditFollowsCursor and the refinement of AuditTrail, for any pods,      *)
(* tenants, tables and batch sizes.  The invariant is what a walk knows    *)
(* between its three queries: its `since' is not above the cursor (Loaded) *)
(* and its batch has no hole between `since' and its last change           *)
(* (Gapless).  The lease and inFlight play no part in it: the condition of *)
(* the emitting transaction alone keeps overlapping walks from tearing the *)
(* trail.                                                                  *)
(***************************************************************************)
EXTENDS Changefeed, FiniteSetTheorems, TLAPS

WalkRec == [pc : InWalk \cup {"idle", "lease"}, tenant : 1 .. Tenants, source : 1 .. Sources,
            since : 0 .. MaxStamp, batch : SUBSET (1 .. MaxStamp)]

StampIsLast ==
  \A f \in Feeds : cursor[f] <= stamp /\ \A v \in changes[f] : v <= stamp

Loaded ==
  \A w \in Walks : walk[w].pc \in {"fetch", "emit"} => walk[w].since <= cursor[Feed(w)]

NoGap(since, batch, all) ==
  \A v \in batch : /\ v \in all /\ since < v
                   /\ \A u \in all : since < u /\ u < v => u \in batch

Gapless ==
  \A w \in Walks : walk[w].pc = "emit" => NoGap(walk[w].since, walk[w].batch, changes[Feed(w)])

IInv == StampIsLast /\ Loaded /\ Gapless /\ AuditFollowsCursor

(* The walk leaves its table: whatever it had read is forgotten. *)
Leaves(w) ==
  \E x \in WalkRec : x.pc \notin {"fetch", "emit"} /\ walk' = [walk EXCEPT ![w] = x]

-----------------------------------------------------------------------------
(* A walk belongs to a pod. *)
LEMMA PodOfWalk == \A w \in Walks : Pod(w) \in Pods
  BY ChangefeedAssumption DEF Walks, Pod

(* A walk stands on a feed. *)
LEMMA FeedOfWalk == ASSUME TypeOK, NEW w \in Walks PROVE Feed(w) \in Feeds
  BY DEF TypeOK, Feed, Feeds

(* The n smallest elements of a finite set of stamps have no hole. *)
LEMMA FirstClosed ==
  ASSUME NEW n \in Nat, NEW S \in SUBSET (1 .. MaxStamp),
         NEW v \in First(n, S), NEW u \in S, u < v
  PROVE  u \in First(n, S)
<1> DEFINE A == {x \in S : x < u}
           B == {x \in S : x < v}
<1>1. v \in S /\ Cardinality(B) < n
  BY DEF First
<1>2. A \subseteq B
  <2>1. u \in Nat /\ v \in Nat /\ \A x \in S : x \in Nat
    BY <1>1, ChangefeedAssumption
  <2>2. ASSUME NEW x \in S, x < u PROVE x < v
    BY <2>1, <2>2
  <2> QED BY <2>2
<1>3. IsFiniteSet(1 .. MaxStamp)
  BY FS_Interval, ChangefeedAssumption
<1>4. IsFiniteSet(B)
  BY <1>3, FS_Subset
<1>5. Cardinality(A) <= Cardinality(B) /\ IsFiniteSet(A)
  BY <1>2, <1>4, FS_Subset
<1>6. Cardinality(A) \in Nat /\ Cardinality(B) \in Nat
  BY <1>4, <1>5, FS_CardinalityType
<1>7. Cardinality(A) < n
  BY <1>1, <1>5, <1>6
<1> QED BY <1>7 DEF First

(* fetchChanges returns changes above the cursor it was given, no hole      *)
(* among them, although a limit is applied before and after the filter.     *)
LEMMA FetchNoGap ==
  ASSUME TypeOK, NEW f \in Feeds, NEW since \in 0 .. MaxStamp
  PROVE  /\ FetchChanges(f, since) \subseteq 1 .. MaxStamp
         /\ NoGap(since, FetchChanges(f, since), changes[f])
<1> DEFINE S == {u \in changes[f] : u >= since}
           P == First(FetchLimit, S)
           T == {v \in P : v > since}
           F == First(PerBatchLimit, T)
<1>1. changes[f] \in SUBSET (1 .. MaxStamp)
  BY DEF TypeOK
<1>2. P \subseteq S /\ F \subseteq T
  BY DEF First
<1>3. S \in SUBSET (1 .. MaxStamp) /\ T \in SUBSET (1 .. MaxStamp)
  BY <1>1, <1>2
<1>4. ASSUME NEW v \in F, NEW u \in changes[f], since < u, u < v PROVE u \in F
  <2>1. u \in S
    BY <1>1, <1>4
  <2>2. v \in P
    BY <1>2
  <2>3. u \in P
    BY <1>3, <1>4, <2>1, <2>2, FirstClosed, ChangefeedAssumption
  <2>4. u \in T
    BY <1>1, <1>4, <2>3
  <2> QED BY <1>3, <1>4, <2>4, FirstClosed, ChangefeedAssumption
<1>5. FetchChanges(f, since) = F
  BY DEF FetchChanges
<1>6. \A v \in F : v \in changes[f] /\ since < v
  BY <1>1, <1>2
<1> HIDE DEF F
<1>7. F \subseteq 1 .. MaxStamp
  BY <1>1, <1>6
<1> QED BY <1>4, <1>5, <1>6, <1>7 DEF NoGap

-----------------------------------------------------------------------------
(* The end of a walk and the moves of its two loops. *)
LEMMA EndLeaves ==
  ASSUME TypeOK, NEW w \in Walks, End(w)
  PROVE  Leaves(w) /\ inFlight' \in [Pods -> BOOLEAN]
<1>1. Idle \in WalkRec /\ Idle.pc \notin {"fetch", "emit"}
  BY ChangefeedAssumption DEF Idle, At, WalkRec, InWalk
<1>2. Leaves(w)
  BY <1>1 DEF Leaves, End
<1>3. inFlight' \in [Pods -> BOOLEAN]
  BY DEF TypeOK, End
<1> QED BY <1>2, <1>3

LEMMA NextTenantLeaves ==
  ASSUME TypeOK, NEW w \in Walks, NextTenant(w)
  PROVE  Leaves(w) /\ inFlight' \in [Pods -> BOOLEAN]
<1>1. CASE walk[w].tenant = Tenants
  BY <1>1, EndLeaves DEF NextTenant
<1>2. CASE walk[w].tenant # Tenants
  <2> DEFINE x == At(TenantStart(w), walk[w].tenant + 1, 1)
  <2>1. walk[w].tenant \in 1 .. Tenants
    BY DEF TypeOK
  <2>2. walk[w].tenant + 1 \in 1 .. Tenants
    BY <2>1, <1>2, ChangefeedAssumption
  <2>3. TenantStart(w) \in {"hold", "cursor"}
    BY DEF TenantStart
  <2>4. x \in WalkRec /\ x.pc \notin {"fetch", "emit"}
    BY <2>2, <2>3, ChangefeedAssumption DEF At, WalkRec, InWalk
  <2>5. walk' = [walk EXCEPT ![w] = x] /\ inFlight' = inFlight
    BY <1>2 DEF NextTenant
  <2> QED BY <2>4, <2>5 DEF Leaves, TypeOK
<1> QED BY <1>1, <1>2

LEMMA NextSourceLeaves ==
  ASSUME TypeOK, NEW w \in Walks, NextSource(w)
  PROVE  Leaves(w) /\ inFlight' \in [Pods -> BOOLEAN]
<1>1. CASE walk[w].source = Sources
  BY <1>1, NextTenantLeaves DEF NextSource
<1>2. CASE walk[w].source # Sources
  <2> DEFINE x == At("cursor", walk[w].tenant, walk[w].source + 1)
  <2>1. walk[w].tenant \in 1 .. Tenants /\ walk[w].source \in 1 .. Sources
    BY DEF TypeOK
  <2>2. walk[w].source + 1 \in 1 .. Sources
    BY <2>1, <1>2, ChangefeedAssumption
  <2>3. x \in WalkRec /\ x.pc \notin {"fetch", "emit"}
    BY <2>1, <2>2, ChangefeedAssumption DEF At, WalkRec, InWalk
  <2>4. walk' = [walk EXCEPT ![w] = x] /\ inFlight' = inFlight
    BY <1>2 DEF NextSource
  <2> QED BY <2>3, <2>4 DEF Leaves, TypeOK
<1> QED BY <1>1, <1>2

(* A step of the program counter, outside a table. *)
LEMMA StepLeaves ==
  ASSUME TypeOK, NEW w \in Walks, NEW l \in {"idle", "lease", "hold", "cursor"}, Step(w, l)
  PROVE  Leaves(w)
<1> DEFINE x == [walk[w] EXCEPT !.pc = l]
<1>1. walk[w] \in WalkRec
  BY DEF TypeOK, WalkRec
<1>2. x \in WalkRec /\ x.pc = l
  BY <1>1 DEF WalkRec, InWalk
<1>3. walk' = [walk EXCEPT ![w] = x]
  BY DEF Step
<1> HIDE DEF x
<1> QED BY <1>2, <1>3 DEF Leaves

-----------------------------------------------------------------------------
(* What the walk variables keep when a walk leaves its table. *)
LEMMA LeavesTyped ==
  ASSUME TypeOK, NEW w \in Walks, Leaves(w) PROVE walk' \in [Walks -> WalkRec]
  BY DEF TypeOK, WalkRec, Leaves

(* The values a step may give the lease row. *)
LEMMA LeaseTypes ==
  ASSUME TypeOK
  PROVE  /\ \A p \in Pods : TakeLease(p) => lease' \in LeaseType
         /\ LeaseLapses => lease' \in LeaseType
<1>1. lease \in LeaseType
  BY DEF TypeOK
<1>2. ASSUME NEW p \in Pods, TakeLease(p) PROVE lease' \in LeaseType
  <2>1. EpochFor(p) \in Nat
    BY <1>1 DEF EpochFor, LeaseType, Epochs
  <2> QED BY <1>2, <2>1 DEF TakeLease, LeaseType, Epochs
<1>3. ASSUME LeaseLapses PROVE lease' \in LeaseType
  BY <1>1, <1>3 DEF LeaseLapses, LeaseType
<1> QED BY <1>2, <1>3

(* The transaction that emits and advances keeps the feeds' types. *)
LEMMA EmitTyped ==
  ASSUME TypeOK, NEW w \in Walks, NEW v \in walk[w].batch, EmitAndAdvance(w, v)
  PROVE  /\ audit' \in [Feeds -> SUBSET (1 .. MaxStamp)]
         /\ cursor' \in [Feeds -> 0 .. MaxStamp]
<1>1. walk[w].batch \in SUBSET (1 .. MaxStamp)
  BY DEF TypeOK
<1>2. audit' \in [Feeds -> SUBSET (1 .. MaxStamp)]
  BY <1>1 DEF TypeOK, EmitAndAdvance
<1>3. cursor' \in [Feeds -> 0 .. MaxStamp]
  <2>1. v \in 0 .. MaxStamp
    BY <1>1, ChangefeedAssumption
  <2> QED BY <2>1 DEF TypeOK, EmitAndAdvance
<1> QED BY <1>2, <1>3

FeedTypes ==
  /\ stamp \in 0 .. MaxStamp
  /\ changes \in [Feeds -> SUBSET (1 .. MaxStamp)]
  /\ audit \in [Feeds -> SUBSET (1 .. MaxStamp)]
  /\ cursor \in [Feeds -> 0 .. MaxStamp]

(* Every step keeps the types. *)
LEMMA TypeStep == TypeOK /\ [Next]_vars => TypeOK'
<1> SUFFICES ASSUME TypeOK, [Next]_vars PROVE TypeOK'
  OBVIOUS
<1>a. FeedTypes /\ lease \in LeaseType /\ inFlight \in [Pods -> BOOLEAN]
      /\ walk \in [Walks -> WalkRec] /\ up \subseteq Pods /\ faults \in 0 .. MaxFaults
  BY DEF TypeOK, FeedTypes, WalkRec
<1>b. FeedTypes' /\ lease' \in LeaseType /\ inFlight' \in [Pods -> BOOLEAN]
      /\ walk' \in [Walks -> WalkRec] /\ up' \subseteq Pods /\ faults' \in 0 .. MaxFaults
      => TypeOK'
  BY Zenon DEF TypeOK, FeedTypes, WalkRec
<1>c. Fault => faults' \in 0 .. MaxFaults
  BY <1>a, ChangefeedAssumption DEF Fault
<1>d. UNCHANGED feedVars => FeedTypes'
  BY <1>a DEF feedVars, FeedTypes
<1>1. ASSUME NEW f \in Feeds, Write(f) PROVE TypeOK'
  <2>1. FeedTypes'
    BY <1>1, <1>a, ChangefeedAssumption DEF Write, FeedTypes
  <2> QED BY <1>1, <1>a, <1>b, <2>1 DEF Write
<1>2. ASSUME NEW w \in Walks, Tick(w) PROVE TypeOK'
  <2>1. walk' \in [Walks -> WalkRec]
    BY <1>2, StepLeaves, LeavesTyped DEF Tick
  <2> QED BY <1>2, <1>a, <1>b, <1>d, <2>1 DEF Tick
<1>3. ASSUME NEW w \in Walks, TickLease(w) PROVE TypeOK'
  <2>1. walk' \in [Walks -> WalkRec]
    BY <1>3, StepLeaves, LeavesTyped DEF TickLease
  <2>2. lease' \in LeaseType
    BY <1>3, LeaseTypes, PodOfWalk DEF TickLease
  <2>3. inFlight' \in [Pods -> BOOLEAN]
    BY <1>3, <1>a DEF TickLease
  <2> QED BY <1>3, <1>a, <1>b, <1>d, <2>1, <2>2, <2>3 DEF TickLease
<1>4. ASSUME NEW w \in Walks, TickRefused(w) PROVE TypeOK'
  <2>1. walk' \in [Walks -> WalkRec]
    BY <1>4, StepLeaves, LeavesTyped DEF TickRefused
  <2> QED BY <1>4, <1>a, <1>b, <1>c, <1>d, <2>1 DEF TickRefused
<1>5. ASSUME NEW w \in Walks, DrainNow(w) PROVE TypeOK'
  <2>1. walk' \in [Walks -> WalkRec]
    BY <1>5, StepLeaves, LeavesTyped DEF DrainNow
  <2>2. inFlight' \in [Pods -> BOOLEAN]
    BY <1>5, <1>a DEF DrainNow
  <2> QED BY <1>5, <1>a, <1>b, <1>d, <2>1, <2>2 DEF DrainNow
<1>6. ASSUME NEW w \in Walks, Hold(w) PROVE TypeOK'
  <2>1. walk' \in [Walks -> WalkRec]
    BY <1>6, StepLeaves, LeavesTyped DEF Hold
  <2>2. lease' \in LeaseType
    BY <1>6, <1>a, LeaseTypes, PodOfWalk DEF Hold
  <2> QED BY <1>6, <1>a, <1>b, <1>d, <2>1, <2>2 DEF Hold
<1>7. ASSUME NEW w \in Walks, HoldLost(w) PROVE TypeOK'
  <2>1. walk' \in [Walks -> WalkRec] /\ inFlight' \in [Pods -> BOOLEAN]
    BY <1>7, EndLeaves, LeavesTyped DEF HoldLost
  <2> QED BY <1>7, <1>a, <1>b, <1>c, <1>d, <2>1 DEF HoldLost
<1>8. ASSUME NEW w \in Walks, LoadCursor(w) PROVE TypeOK'
  <2>1. cursor[Feed(w)] \in 0 .. MaxStamp
    BY <1>a, FeedOfWalk DEF FeedTypes
  <2>2. walk' \in [Walks -> WalkRec]
    BY <1>8, <1>a, <2>1 DEF LoadCursor, WalkRec, InWalk
  <2> QED BY <1>8, <1>a, <1>b, <1>d, <2>2 DEF LoadCursor
<1>9. ASSUME NEW w \in Walks, Fetch(w) PROVE TypeOK'
  <2> DEFINE batch == FetchChanges(Feed(w), walk[w].since)
  <2>1. CASE batch = {}
    <3>1. NextSource(w)
      BY <1>9, <2>1 DEF Fetch
    <3>2. walk' \in [Walks -> WalkRec] /\ inFlight' \in [Pods -> BOOLEAN]
      BY <3>1, NextSourceLeaves, LeavesTyped
    <3> QED BY <1>9, <1>a, <1>b, <1>d, <3>2 DEF Fetch
  <2>2. CASE batch # {}
    <3>1. walk' = [walk EXCEPT ![w].pc = "emit", ![w].batch = batch] /\ inFlight' = inFlight
      BY <1>9, <2>2 DEF Fetch
    <3>2. walk[w].since \in 0 .. MaxStamp
      BY <1>a DEF WalkRec
    <3>3. batch \subseteq 1 .. MaxStamp
      BY <3>2, FeedOfWalk, FetchNoGap
    <3> HIDE DEF batch
    <3>4. walk' \in [Walks -> WalkRec]
      BY <1>a, <3>1, <3>3 DEF WalkRec, InWalk
    <3> QED BY <1>9, <1>a, <1>b, <1>d, <3>1, <3>4 DEF Fetch
  <2> QED BY <2>1, <2>2
<1>10. ASSUME NEW w \in Walks, Emit(w) PROVE TypeOK'
  <2>1. walk' \in [Walks -> WalkRec] /\ inFlight' \in [Pods -> BOOLEAN]
    BY <1>10, NextSourceLeaves, LeavesTyped DEF Emit
  <2>2. FeedTypes'
    BY <1>10, <1>a, EmitTyped DEF Emit, FeedTypes
  <2> QED BY <1>10, <1>a, <1>b, <2>1, <2>2 DEF Emit
<1>11. ASSUME NEW w \in Walks, RaceLost(w) PROVE TypeOK'
  <2>1. walk' \in [Walks -> WalkRec] /\ inFlight' \in [Pods -> BOOLEAN]
    BY <1>11, EndLeaves, LeavesTyped DEF RaceLost
  <2> QED BY <1>11, <1>a, <1>b, <1>d, <2>1 DEF RaceLost
<1>12. ASSUME NEW w \in Walks, TenantFails(w) PROVE TypeOK'
  <2>1. walk' \in [Walks -> WalkRec] /\ inFlight' \in [Pods -> BOOLEAN]
    BY <1>12, NextTenantLeaves, LeavesTyped DEF TenantFails
  <2>2. FeedTypes'
    BY <1>12, <1>a, EmitTyped DEF TenantFails, FeedTypes
  <2> QED BY <1>12, <1>a, <1>b, <1>c, <2>1, <2>2 DEF TenantFails
<1>13. ASSUME NEW p \in Pods, Crash(p) PROVE TypeOK'
  <2>1. Idle \in WalkRec
    BY ChangefeedAssumption DEF Idle, At, WalkRec, InWalk
  <2>2. walk' \in [Walks -> WalkRec]
    BY <1>13, <1>a, <2>1 DEF Crash
  <2>3. inFlight' \in [Pods -> BOOLEAN] /\ up' \subseteq Pods
    BY <1>13, <1>a DEF Crash
  <2> QED BY <1>13, <1>a, <1>b, <1>d, <2>2, <2>3 DEF Crash
<1>14. CASE Lapse
  BY <1>14, <1>a, <1>b, <1>d, LeaseTypes DEF Lapse
<1>15. CASE UNCHANGED vars
  BY <1>15, <1>a, <1>b, <1>d DEF vars, feedVars
<1> QED
  BY <1>1, <1>2, <1>3, <1>4, <1>5, <1>6, <1>7, <1>8, <1>9, <1>10, <1>11, <1>12, <1>13, <1>14,
     <1>15
  DEF Next, WalkStep

-----------------------------------------------------------------------------
(* What a walk knows outlives the steps that leave it where it is and only *)
(* move the cursors on.                                                    *)
LEMMA OthersKnow ==
  ASSUME TypeOK, Loaded, Gapless, NEW w \in Walks, walk'[w] = walk[w],
         \A f \in Feeds : cursor[f] <= cursor'[f], cursor' \in [Feeds -> 0 .. MaxStamp],
         changes' = changes
  PROVE  /\ walk'[w].pc \in {"fetch", "emit"} => walk'[w].since <= cursor'[Feed(w)']
         /\ walk'[w].pc = "emit" => NoGap(walk'[w].since, walk'[w].batch, changes'[Feed(w)'])
<1>1. Feed(w)' = Feed(w)
  BY DEF Feed
<1>2. Feed(w) \in Feeds
  BY FeedOfWalk
<1>3. /\ walk[w].since \in 0 .. MaxStamp /\ cursor[Feed(w)] \in 0 .. MaxStamp
      /\ cursor'[Feed(w)] \in 0 .. MaxStamp
  BY <1>2 DEF TypeOK
<1>4. walk[w].pc \in {"fetch", "emit"} => walk[w].since <= cursor'[Feed(w)]
  BY <1>2, <1>3, ChangefeedAssumption DEF Loaded
<1>5. walk[w].pc = "emit" => NoGap(walk[w].since, walk[w].batch, changes'[Feed(w)])
  BY DEF Gapless
<1> QED BY <1>1, <1>4, <1>5

(* A walk that leaves its table knows nothing more, and the others what    *)
(* they knew.                                                              *)
LEMMA LeavesKnows ==
  ASSUME TypeOK, Loaded, Gapless, NEW w \in Walks, Leaves(w),
         \A f \in Feeds : cursor[f] <= cursor'[f], cursor' \in [Feeds -> 0 .. MaxStamp],
         changes' = changes
  PROVE  Loaded' /\ Gapless'
<1>1. walk'[w].pc \notin {"fetch", "emit"}
  BY DEF Leaves, TypeOK
<1>2. \A x \in Walks : x # w => walk'[x] = walk[x]
  BY DEF Leaves, TypeOK
<1>3. ASSUME NEW x \in Walks
      PROVE  /\ walk'[x].pc \in {"fetch", "emit"} => walk'[x].since <= cursor'[Feed(x)']
             /\ walk'[x].pc = "emit" => NoGap(walk'[x].since, walk'[x].batch, changes'[Feed(x)'])
  <2>1. CASE x = w
    BY <1>1, <2>1
  <2>2. CASE x # w
    BY <1>2, <2>2, OthersKnow
  <2> QED BY <2>1, <2>2
<1> QED BY <1>3 DEF Loaded, Gapless

(* Steps that write no feed keep the part of the invariant about feeds. *)
LEMMA FeedsStill ==
  ASSUME TypeOK, IInv, UNCHANGED feedVars
  PROVE  /\ StampIsLast' /\ AuditFollowsCursor'
         /\ \A f \in Feeds : cursor[f] <= cursor'[f]
         /\ cursor' \in [Feeds -> 0 .. MaxStamp] /\ changes' = changes
<1>1. \A f \in Feeds : cursor[f] <= cursor'[f]
  BY DEF feedVars, TypeOK
<1>2. StampIsLast' /\ AuditFollowsCursor'
  BY DEF IInv, feedVars, StampIsLast, AuditFollowsCursor
<1> QED BY <1>1, <1>2 DEF feedVars, TypeOK

(* A walk that leaves its table without writing keeps the invariant. *)
LEMMA LeavesInv ==
  ASSUME TypeOK, IInv, NEW w \in Walks, Leaves(w), UNCHANGED feedVars
  PROVE  IInv'
  BY FeedsStill, LeavesKnows DEF IInv

(* The transaction extends the trail of its feed to the last change of the *)
(* batch, and touches no other.                                            *)
LEMMA EmitExtends ==
  ASSUME TypeOK, IInv, NEW w \in Walks, walk[w].pc = "emit",
         NEW v \in walk[w].batch, IsLast(v, walk[w].batch), EmitAndAdvance(w, v)
  PROVE  /\ v \in changes[Feed(w)] /\ cursor[Feed(w)] < v
         /\ audit' = [audit EXCEPT ![Feed(w)] = {u \in changes[Feed(w)] : u <= v}]
         /\ cursor' = [cursor EXCEPT ![Feed(w)] = v]
<1> DEFINE f == Feed(w)
<1>1. f \in Feeds
  BY FeedOfWalk
<1>2. /\ changes[f] \in SUBSET (1 .. MaxStamp) /\ cursor[f] \in 0 .. MaxStamp
      /\ walk[w].since \in 0 .. MaxStamp
  BY <1>1 DEF TypeOK
<1>3. cursor[f] < v
  BY DEF EmitAndAdvance, Behind
<1>4. NoGap(walk[w].since, walk[w].batch, changes[f]) /\ walk[w].since <= cursor[f]
  BY DEF IInv, Loaded, Gapless
<1>5. v \in changes[f] /\ \A u \in walk[w].batch : u \in changes[f] /\ u <= v
  BY <1>4 DEF NoGap, IsLast
<1>6. audit[f] = {u \in changes[f] : u <= cursor[f]}
  BY <1>1 DEF IInv, AuditFollowsCursor
<1>7. ASSUME NEW u \in changes[f], u <= v, ~(u <= cursor[f]) PROVE u \in walk[w].batch
  <2>1. u \in Nat /\ v \in Nat /\ cursor[f] \in Nat /\ walk[w].since \in Nat
    BY <1>2, <1>5, ChangefeedAssumption
  <2>2. walk[w].since < u
    BY <1>4, <1>7, <2>1
  <2>3. CASE u = v
    BY <2>3
  <2>4. CASE u # v
    BY <1>4, <1>7, <2>1, <2>2, <2>4 DEF NoGap
  <2> QED BY <2>3, <2>4
<1>8. \A u \in changes[f] : u <= cursor[f] => u <= v
  BY <1>2, <1>3, <1>5, ChangefeedAssumption
<1>9. audit[f] \cup walk[w].batch = {u \in changes[f] : u <= v}
  BY <1>5, <1>6, <1>7, <1>8
<1> QED BY <1>3, <1>5, <1>9, <1>1 DEF EmitAndAdvance, TypeOK

(* So it keeps the invariant. *)
LEMMA EmitInv ==
  ASSUME TypeOK, IInv, NEW w \in Walks, walk[w].pc = "emit", Leaves(w),
         NEW v \in walk[w].batch, IsLast(v, walk[w].batch), EmitAndAdvance(w, v),
         UNCHANGED <<stamp, changes>>
  PROVE  IInv'
<1> DEFINE f == Feed(w)
<1>1. f \in Feeds /\ v \in changes[f] /\ cursor[f] < v
  BY FeedOfWalk, EmitExtends
<1>2. cursor' = [cursor EXCEPT ![f] = v] /\ cursor' \in [Feeds -> 0 .. MaxStamp]
  BY EmitExtends, EmitTyped
<1>3. audit' = [audit EXCEPT ![f] = {u \in changes[f] : u <= v}]
  BY EmitExtends
<1> HIDE DEF f
<1>4. v \in Nat /\ \A g \in Feeds : cursor[g] \in Nat
  BY <1>1, ChangefeedAssumption DEF TypeOK
<1>5. \A g \in Feeds : cursor[g] <= cursor'[g]
  BY <1>1, <1>2, <1>4 DEF TypeOK
<1>6. StampIsLast'
  BY <1>1, <1>2 DEF IInv, StampIsLast, TypeOK
<1>7. AuditFollowsCursor'
  BY <1>1, <1>2, <1>3 DEF IInv, AuditFollowsCursor, TypeOK
<1>8. Loaded' /\ Gapless'
  BY <1>2, <1>5, LeavesKnows DEF IInv
<1> QED BY <1>6, <1>7, <1>8 DEF IInv

(* A new change lies above every cursor and every batch. *)
LEMMA WriteInv ==
  ASSUME TypeOK, IInv, NEW f \in Feeds, Write(f)
  PROVE  IInv'
<1>1. /\ stamp \in Nat /\ stamp' = stamp + 1
      /\ changes' = [changes EXCEPT ![f] = @ \cup {stamp + 1}]
      /\ audit' = audit /\ cursor' = cursor /\ walk' = walk
  BY ChangefeedAssumption DEF TypeOK, Write
<1>2. \A g \in Feeds : cursor[g] \in Nat /\ changes[g] \in SUBSET Nat
  BY ChangefeedAssumption DEF TypeOK
<1>3. \A g \in Feeds : cursor[g] <= stamp /\ \A v \in changes[g] : v <= stamp
  BY DEF IInv, StampIsLast
<1>4. \A g \in Feeds : changes'[g] \in {changes[g], changes[g] \cup {stamp + 1}}
  BY <1>1 DEF TypeOK
<1>5. StampIsLast'
  BY <1>1, <1>2, <1>3, <1>4 DEF StampIsLast
<1>6. AuditFollowsCursor'
  <2>1. \A g \in Feeds : audit[g] = {v \in changes[g] : v <= cursor[g]}
    BY DEF IInv, AuditFollowsCursor
  <2>2. ASSUME NEW g \in Feeds
        PROVE  {v \in changes'[g] : v <= cursor[g]} = {v \in changes[g] : v <= cursor[g]}
    BY <1>1, <1>2, <1>3, <1>4
  <2> QED BY <1>1, <2>1, <2>2 DEF AuditFollowsCursor
<1>7. Loaded'
  BY <1>1 DEF IInv, Loaded, Feed
<1>8. Gapless'
  <2> SUFFICES ASSUME NEW w \in Walks, walk[w].pc = "emit"
               PROVE  NoGap(walk[w].since, walk[w].batch, changes'[Feed(w)])
    BY <1>1 DEF Gapless, Feed
  <2>1. Feed(w) \in Feeds
    BY FeedOfWalk
  <2>2. NoGap(walk[w].since, walk[w].batch, changes[Feed(w)])
    BY DEF IInv, Gapless
  <2>3. \A v \in walk[w].batch : v \in Nat /\ v <= stamp
    BY <1>2, <1>3, <2>1, <2>2 DEF NoGap
  <2> QED BY <1>1, <1>4, <2>1, <2>2, <2>3 DEF NoGap
<1> QED BY <1>5, <1>6, <1>7, <1>8 DEF IInv

(* Every step keeps the invariant. *)
LEMMA InvStep == TypeOK /\ IInv /\ [Next]_vars => IInv'
<1> SUFFICES ASSUME TypeOK, IInv, [Next]_vars PROVE IInv'
  OBVIOUS
<1>1. ASSUME NEW f \in Feeds, Write(f) PROVE IInv'
  BY <1>1, WriteInv
<1>2. ASSUME NEW w \in Walks, Tick(w) \/ TickLease(w) \/ TickRefused(w) \/ DrainNow(w) \/ Hold(w)
      PROVE  IInv'
  <2>1. Leaves(w) /\ UNCHANGED feedVars
    BY <1>2, StepLeaves DEF Tick, TickLease, TickRefused, DrainNow, Hold
  <2> QED BY <2>1, LeavesInv
<1>3. ASSUME NEW w \in Walks, HoldLost(w) \/ RaceLost(w) PROVE IInv'
  <2>1. Leaves(w) /\ UNCHANGED feedVars
    BY <1>3, EndLeaves DEF HoldLost, RaceLost
  <2> QED BY <2>1, LeavesInv
<1>4. ASSUME NEW w \in Walks, LoadCursor(w) PROVE IInv'
  <2>1. /\ UNCHANGED feedVars
        /\ walk' = [walk EXCEPT ![w].pc = "fetch", ![w].since = cursor[Feed(w)]]
    BY <1>4 DEF LoadCursor
  <2>2. /\ walk'[w].pc = "fetch" /\ walk'[w].since = cursor[Feed(w)] /\ Feed(w)' = Feed(w)
        /\ \A x \in Walks : x # w => walk'[x] = walk[x]
    BY <2>1 DEF TypeOK, Feed
  <2>3. cursor[Feed(w)] \in 0 .. MaxStamp /\ cursor' = cursor
    BY <2>1, FeedOfWalk DEF TypeOK, feedVars
  <2>4. ASSUME NEW x \in Walks
        PROVE  /\ walk'[x].pc \in {"fetch", "emit"} => walk'[x].since <= cursor'[Feed(x)']
               /\ walk'[x].pc = "emit" => NoGap(walk'[x].since, walk'[x].batch, changes'[Feed(x)'])
    <3>1. CASE x = w
      BY <2>2, <2>3, <3>1
    <3>2. CASE x # w
      BY <2>1, <2>2, <3>2, FeedsStill, OthersKnow DEF IInv
    <3> QED BY <3>1, <3>2
  <2> QED BY <2>1, <2>4, FeedsStill DEF IInv, Loaded, Gapless
<1>5. ASSUME NEW w \in Walks, Fetch(w) PROVE IInv'
  <2> DEFINE batch == FetchChanges(Feed(w), walk[w].since)
  <2>0. UNCHANGED feedVars /\ walk[w].pc = "fetch"
    BY <1>5 DEF Fetch
  <2>1. CASE batch = {}
    BY <1>5, <2>0, <2>1, NextSourceLeaves, LeavesInv DEF Fetch
  <2>2. CASE batch # {}
    <3>1. walk' = [walk EXCEPT ![w].pc = "emit", ![w].batch = batch]
      BY <1>5, <2>2 DEF Fetch
    <3>2. walk[w].since \in 0 .. MaxStamp /\ walk[w].since <= cursor[Feed(w)]
      BY <2>0 DEF TypeOK, IInv, Loaded
    <3>3. NoGap(walk[w].since, batch, changes[Feed(w)])
      BY <3>2, FeedOfWalk, FetchNoGap
    <3> HIDE DEF batch
    <3>4. /\ walk'[w].pc = "emit" /\ walk'[w].since = walk[w].since /\ walk'[w].batch = batch
          /\ Feed(w)' = Feed(w)
          /\ \A x \in Walks : x # w => walk'[x] = walk[x]
      BY <3>1 DEF TypeOK, Feed
    <3>5. cursor' = cursor /\ changes' = changes
      BY <2>0 DEF feedVars
    <3>6. ASSUME NEW x \in Walks
          PROVE  /\ walk'[x].pc \in {"fetch", "emit"} => walk'[x].since <= cursor'[Feed(x)']
                 /\ walk'[x].pc = "emit" => NoGap(walk'[x].since, walk'[x].batch, changes'[Feed(x)'])
      <4>1. CASE x = w
        BY <3>2, <3>3, <3>4, <3>5, <4>1
      <4>2. CASE x # w
        BY <2>0, <3>4, <4>2, FeedsStill, OthersKnow DEF IInv
      <4> QED BY <4>1, <4>2
    <3> QED BY <2>0, <3>6, FeedsStill DEF IInv, Loaded, Gapless
  <2> QED BY <2>1, <2>2
<1>6. ASSUME NEW w \in Walks, Emit(w) PROVE IInv'
  <2>1. Leaves(w)
    BY <1>6, NextSourceLeaves DEF Emit
  <2> QED BY <1>6, <2>1, EmitInv DEF Emit
<1>7. ASSUME NEW w \in Walks, TenantFails(w) PROVE IInv'
  <2>1. Leaves(w)
    BY <1>7, NextTenantLeaves DEF TenantFails
  <2>2. CASE UNCHANGED <<audit, cursor>>
    BY <1>7, <2>1, <2>2, LeavesInv DEF TenantFails, feedVars
  <2>3. CASE ~UNCHANGED <<audit, cursor>>
    BY <1>7, <2>1, <2>3, EmitInv DEF TenantFails
  <2> QED BY <2>2, <2>3
<1>8. ASSUME NEW p \in Pods, Crash(p) PROVE IInv'
  <2>1. UNCHANGED feedVars /\ \A x \in Walks : walk'[x] \in {Idle, walk[x]}
    BY <1>8 DEF Crash
  <2>2. ASSUME NEW x \in Walks
        PROVE  /\ walk'[x].pc \in {"fetch", "emit"} => walk'[x].since <= cursor'[Feed(x)']
               /\ walk'[x].pc = "emit" => NoGap(walk'[x].since, walk'[x].batch, changes'[Feed(x)'])
    <3>1. CASE walk'[x] = Idle
      BY <3>1 DEF Idle, At
    <3>2. CASE walk'[x] = walk[x]
      BY <2>1, <3>2, FeedsStill, OthersKnow DEF IInv
    <3> QED BY <2>1, <3>1, <3>2
  <2> QED BY <2>1, <2>2, FeedsStill DEF IInv, Loaded, Gapless
<1>9. CASE Lapse \/ UNCHANGED vars
  <2>1. UNCHANGED feedVars /\ walk' = walk
    BY <1>9 DEF Lapse, vars, feedVars
  <2>2. Loaded' /\ Gapless'
    BY <2>1 DEF IInv, Loaded, Gapless, Feed, feedVars
  <2> QED BY <2>1, <2>2, FeedsStill DEF IInv
<1> QED BY <1>1, <1>2, <1>3, <1>4, <1>5, <1>6, <1>7, <1>8, <1>9 DEF Next, WalkStep

(* The invariant holds in every state of every behaviour. *)
LEMMA Invariance == Spec => [](TypeOK /\ IInv)
<1>1. Init => TypeOK /\ IInv
  <2> SUFFICES ASSUME Init PROVE TypeOK /\ IInv
    OBVIOUS
  <2>1. Idle \in WalkRec /\ Idle.pc = "idle"
    BY ChangefeedAssumption DEF Idle, At, WalkRec, InWalk
  <2>2. TypeOK
    BY <2>1, ChangefeedAssumption, LeaseAssumption
    DEF Init, TypeOK, WalkRec, NoRow, NoEpoch, LeaseType, Epochs
  <2>3. \A w \in Walks : walk[w].pc = "idle"
    BY <2>1 DEF Init
  <2>4. StampIsLast /\ AuditFollowsCursor
    BY DEF Init, StampIsLast, AuditFollowsCursor
  <2> QED BY <2>2, <2>3, <2>4 DEF IInv, Loaded, Gapless
<1>2. TypeOK /\ IInv /\ [Next]_vars => (TypeOK /\ IInv)'
  BY TypeStep, InvStep
<1> QED BY <1>1, <1>2, PTL DEF Spec

(* The variables of the changefeed keep their types. *)
THEOREM TypeCorrect == Spec => []TypeOK
  BY Invariance, PTL

(* The trail of a table is always exactly its changes up to the cursor, for *)
(* any number of pods, tenants, tables and overlapping walks and any batch  *)
(* size below the fetch limit.                                              *)
THEOREM AuditFollowsCursorCorrect == Spec => []AuditFollowsCursor
<1>1. IInv => AuditFollowsCursor
  BY DEF IInv
<1> QED BY <1>1, Invariance, PTL

-----------------------------------------------------------------------------
(* A committed transaction is a publication of the trail. *)
LEMMA EmitPublishes ==
  ASSUME TypeOK, IInv, NEW w \in Walks, walk[w].pc = "emit",
         NEW v \in walk[w].batch, IsLast(v, walk[w].batch), EmitAndAdvance(w, v),
         changes' = changes
  PROVE  Trail!Next
<1> DEFINE f == Feed(w)
<1>1. f \in Feeds /\ v \in changes[f] /\ cursor[f] < v
  BY FeedOfWalk, EmitExtends
<1>2. audit' = [audit EXCEPT ![f] = {u \in changes[f] : u <= v}]
  BY EmitExtends
<1> HIDE DEF f
<1>3. changes[f] \in SUBSET (1 .. MaxStamp) /\ cursor[f] \in 0 .. MaxStamp
  BY <1>1 DEF TypeOK
<1>4. audit[f] = {u \in changes[f] : u <= cursor[f]}
  BY <1>1 DEF IInv, AuditFollowsCursor
<1>5. audit[f] \subseteq 0 .. v
  BY <1>1, <1>3, <1>4, ChangefeedAssumption
<1>6. Trail!Publish(f)
  BY <1>1, <1>2, <1>5 DEF Trail!Publish
<1> QED BY <1>1, <1>6 DEF Trail!Next

(* Every step is a step of the trail, or leaves it alone. *)
LEMMA TrailStep == TypeOK /\ IInv /\ [Next]_vars => [Trail!Next]_(Trail!vars)
<1> SUFFICES ASSUME TypeOK, IInv, [Next]_vars PROVE Trail!Next \/ UNCHANGED <<changes, audit>>
  BY DEF Trail!vars
<1>1. ASSUME NEW f \in Feeds, Write(f) PROVE Trail!Next
  <2>1. stamp + 1 \in 1 .. MaxStamp /\ stamp \in Nat
    BY <1>1, ChangefeedAssumption DEF Write, TypeOK
  <2>2. \A u \in changes[f] : u \in Nat /\ u <= stamp
    BY ChangefeedAssumption DEF TypeOK, IInv, StampIsLast
  <2>3. \A u \in changes[f] : u < stamp + 1
    BY <2>1, <2>2
  <2>4. Trail!Write(f)
    BY <1>1, <2>1, <2>3 DEF Write, Trail!Write
  <2> QED BY <2>4 DEF Trail!Next
<1>2. ASSUME NEW w \in Walks, Emit(w) PROVE Trail!Next
  BY <1>2, EmitPublishes DEF Emit
<1>3. ASSUME NEW w \in Walks, TenantFails(w) PROVE Trail!Next \/ UNCHANGED <<changes, audit>>
  BY <1>3, EmitPublishes DEF TenantFails
<1>4. ASSUME NEW w \in Walks,
             Tick(w) \/ TickLease(w) \/ TickRefused(w) \/ DrainNow(w) \/ Hold(w) \/ HoldLost(w)
             \/ LoadCursor(w) \/ Fetch(w) \/ RaceLost(w)
      PROVE  UNCHANGED <<changes, audit>>
  BY <1>4 DEF Tick, TickLease, TickRefused, DrainNow, Hold, HoldLost, LoadCursor, Fetch, RaceLost,
              feedVars
<1>5. ASSUME NEW p \in Pods, Crash(p) PROVE UNCHANGED <<changes, audit>>
  BY <1>5 DEF Crash, feedVars
<1>6. CASE Lapse \/ UNCHANGED vars
  BY <1>6 DEF Lapse, vars, feedVars
<1> QED BY <1>1, <1>2, <1>3, <1>4, <1>5, <1>6 DEF Next, WalkStep

(* The walks implement the abstract trail: every audited table's trail      *)
(* grows by prefixes and never shrinks.                                     *)
THEOREM ImplementsTrailCorrect == Spec => ImplementsTrail
<1>1. Init => Trail!Init
  BY DEF Init, Trail!Init
<1> QED BY <1>1, TrailStep, Invariance, PTL DEF Spec, ImplementsTrail, Trail!Spec
=============================================================================
