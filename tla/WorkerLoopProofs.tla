-------------------------- MODULE WorkerLoopProofs --------------------------
(* Theorems about WorkerLoop, for any number of pods, jobs and tenants. *)
EXTENDS WorkerLoop, FiniteSetTheorems, TLAPS

(* Every statement on the rows writes rows. *)
LEMMA RowType ==
  ASSUME NEW r \in JobRow
  PROVE  /\ Unclaimed(r) \in JobRow
         /\ \A p \in Pods, e \in Nat : Claimed(r, p, e) \in JobRow
         /\ Reaped(r) \in JobRow
         /\ AbsentRow \in JobRow
         /\ \A s \in Statuses, v \in BOOLEAN, x \in Errors :
              /\ [r EXCEPT !.status = s] \in JobRow
              /\ [r EXCEPT !.visible = v] \in JobRow
              /\ [r EXCEPT !.status = s, !.visible = v] \in JobRow
              /\ [r EXCEPT !.status = s, !.error = x] \in JobRow
              /\ [r EXCEPT !.status = s, !.visible = v, !.error = x] \in JobRow
         /\ [r EXCEPT !.leaseUntil = "live"] \in JobRow
         /\ [r EXCEPT !.leaseUntil = "lapsed"] \in JobRow
         /\ [r EXCEPT !.cancelReq = TRUE] \in JobRow
         /\ [r EXCEPT !.cancelReq = TRUE, !.status = "cancelled",
                      !.claimedBy = NoPod, !.leaseUntil = "none"] \in JobRow
<1> USE DEF JobRow, Statuses, Terminal, Errors
<1>1. Unclaimed(r) \in JobRow
  BY DEF Unclaimed
<1>0. ASSUME NEW p \in Pods, NEW e \in Nat
      PROVE  Claimed(r, p, e) \in JobRow
  <2>1. r.attempts + 1 \in Nat
    OBVIOUS
  <2>2. ASSUME NEW n \in Nat
        PROVE  [r EXCEPT !.status = "running", !.claimedBy = p, !.leaseUntil = "live",
                         !.attempts = n, !.claimEpoch = e] \in JobRow
    OBVIOUS
  <2>3. QED
    BY <2>1, <2>2 DEF Claimed
<1>2. Reaped(r) \in JobRow
  <2>1. [r EXCEPT !.status = "pending", !.claimedBy = NoPod, !.leaseUntil = "none",
                  !.visible = FALSE, !.error = "ZombieReclaim"] \in JobRow
    OBVIOUS
  <2>2. [r EXCEPT !.status = "failed", !.claimedBy = NoPod, !.leaseUntil = "none",
                  !.error = "ZombieAbandoned"] \in JobRow
    OBVIOUS
  <2>3. QED
    BY <2>1, <2>2 DEF Reaped
<1>3. AbsentRow \in JobRow
  BY DEF AbsentRow
<1>4. ASSUME NEW s \in Statuses, NEW v \in BOOLEAN, NEW x \in Errors
      PROVE  /\ [r EXCEPT !.status = s] \in JobRow
             /\ [r EXCEPT !.visible = v] \in JobRow
             /\ [r EXCEPT !.status = s, !.visible = v] \in JobRow
             /\ [r EXCEPT !.status = s, !.error = x] \in JobRow
             /\ [r EXCEPT !.status = s, !.visible = v, !.error = x] \in JobRow
  <2>1. [r EXCEPT !.status = s] \in JobRow  OBVIOUS
  <2>2. [r EXCEPT !.visible = v] \in JobRow  OBVIOUS
  <2>3. [r EXCEPT !.status = s, !.visible = v] \in JobRow  OBVIOUS
  <2>4. [r EXCEPT !.status = s, !.error = x] \in JobRow  OBVIOUS
  <2>5. [r EXCEPT !.status = s, !.visible = v, !.error = x] \in JobRow  OBVIOUS
  <2>6. QED  BY <2>1, <2>2, <2>3, <2>4, <2>5
<1>5. /\ [r EXCEPT !.leaseUntil = "live"] \in JobRow
      /\ [r EXCEPT !.leaseUntil = "lapsed"] \in JobRow
      /\ [r EXCEPT !.cancelReq = TRUE] \in JobRow
  OBVIOUS
<1>6. [r EXCEPT !.cancelReq = TRUE, !.status = "cancelled",
                !.claimedBy = NoPod, !.leaseUntil = "none"] \in JobRow
  OBVIOUS
<1>7. QED
  BY <1>0, <1>1, <1>2, <1>3, <1>4, <1>5, <1>6

LEMMA SetRowType ==
  ASSUME job \in [Jobs -> JobRow], NEW j \in Jobs, NEW row \in JobRow, SetRow(j, row)
  PROVE  job' \in [Jobs -> JobRow]
BY DEF SetRow

LEMMA OwnedUpdateType ==
  ASSUME job \in [Jobs -> JobRow], NEW p, NEW e, NEW j \in Jobs, NEW row \in JobRow,
         OwnedUpdate(p, e, j, row)
  PROVE  job' \in [Jobs -> JobRow]
BY DEF OwnedUpdate, SetRow

LEMMA TerminalWriteType ==
  ASSUME job \in [Jobs -> JobRow], NEW p \in Pods, NEW d \in DispatchType, NEW ok \in BOOLEAN,
         TerminalWrite(p, d, ok)
  PROVE  job' \in [Jobs -> JobRow]
<1> DEFINE r == Unclaimed(job[d.job])
<1>1. d.job \in Jobs /\ r \in JobRow
  BY RowType DEF DispatchType, Epochs
<1>2. /\ [r EXCEPT !.status = "succeeded"] \in JobRow
      /\ [r EXCEPT !.status = "cancelled"] \in JobRow
      /\ [r EXCEPT !.status = "pending", !.visible = FALSE, !.error = "HandlerError"] \in JobRow
      /\ [r EXCEPT !.status = "failed", !.error = "HandlerError"] \in JobRow
  BY <1>1 DEF JobRow, Statuses, Terminal, Errors
<1> HIDE DEF r
<1>3. QED
  BY <1>1, <1>2, OwnedUpdateType DEF TerminalWrite, Cancelled, Complete, Fail, r

(* What the environment, an operator or an inline run does to one row. *)
LEMMA EnvRowType ==
  ASSUME job \in [Jobs -> JobRow], NEW j \in Jobs,
         \/ \E v \in BOOLEAN : Enqueue(j, v)
         \/ BackoffElapses(j) \/ ClaimLapses(j) \/ FlagCancel(j) \/ StartInlineRow(j)
         \/ \E s \in Terminal : FinishInlineRow(j, s)
  PROVE  job' \in [Jobs -> JobRow]
<1>0. job[j] \in JobRow /\ "pending" \in Statuses /\ "running" \in Statuses
      /\ "HandlerError" \in Errors /\ "none" \in Errors /\ Terminal \subseteq Statuses
  BY DEF Statuses, Errors
<1>1. CASE \E v \in BOOLEAN : Enqueue(j, v)
  BY <1>0, <1>1, RowType, SetRowType DEF Enqueue
<1>2. CASE BackoffElapses(j) \/ ClaimLapses(j)
  BY <1>0, <1>2, RowType, SetRowType DEF BackoffElapses, ClaimLapses
<1>3. CASE FlagCancel(j)
  BY <1>0, <1>3, RowType, SetRowType DEF FlagCancel
<1>4. CASE StartInlineRow(j)
  BY <1>0, <1>4, RowType, SetRowType DEF StartInlineRow
<1>5. CASE \E s \in Terminal : FinishInlineRow(j, s)
  BY <1>0, <1>5, RowType, SetRowType DEF FinishInlineRow
<1>6. QED
  BY <1>1, <1>2, <1>3, <1>4, <1>5

LEMMA ReapType ==
  ASSUME job \in [Jobs -> JobRow], NEW c, ReapZombies(c)
  PROVE  job' \in [Jobs -> JobRow]
BY RowType DEF ReapZombies

(* What a pod's statement on a claim does to its row. *)
LEMMA PodRowType ==
  ASSUME job \in [Jobs -> JobRow], NEW j \in Jobs, NEW p \in Pods, NEW e \in Nat,
         ClaimRow(p, e, j) \/ RenewRow(p, e, j) \/ ReleaseRow(p, e, j)
  PROVE  job' \in [Jobs -> JobRow]
<1>0. job[j] \in JobRow /\ "pending" \in Statuses /\ "PodShutdown" \in Errors
  BY DEF Statuses, Errors
<1>1. CASE ClaimRow(p, e, j)
  BY <1>0, <1>1, RowType, SetRowType DEF ClaimRow
<1>2. CASE RenewRow(p, e, j)
  BY <1>0, <1>2, RowType, OwnedUpdateType DEF RenewRow
<1>3. CASE ReleaseRow(p, e, j)
  <2>1. Unclaimed(job[j]) \in JobRow
    BY <1>0, RowType
  <2>2. [Unclaimed(job[j]) EXCEPT !.status = "pending", !.visible = TRUE,
                                  !.error = "PodShutdown"] \in JobRow
    BY <1>0, <2>1, RowType
  <2>3. QED
    BY <1>3, <2>2, OwnedUpdateType DEF ReleaseRow
<1>4. QED
  BY <1>1, <1>2, <1>3

LEMMA SetLoopType ==
  ASSUME loop \in [Pods -> [JobTypes -> LoopType]],
         NEW p \in Pods, NEW t \in JobTypes, NEW l \in LoopType, SetLoop(p, t, l)
  PROVE  loop' \in [Pods -> [JobTypes -> LoopType]]
BY DEF SetLoop

LEMMA LoopAtType ==
  /\ OffLoop \in LoopType
  /\ \A st \in {"off", "top", "yes", "no", "claiming"} : LoopAt(st) \in LoopType
  /\ \A e \in Nat : [st |-> "claiming", epoch |-> e] \in LoopType
BY DEF OffLoop, LoopAt, LoopType, NoEpoch, Epochs

LEMMA LeadershipType ==
  ASSUME TypeOK, NEW p \in Pods, Leadership(p)
  PROVE  TypeOK'
<1> USE DEF TypeOK, Epochs, NoEpoch
<1>1. CASE Boot(p)
  BY <1>1 DEF Boot, Phases
<1>2. CASE RenewTick(p)
  BY <1>2 DEF RenewTick, AcqType
<1>3. ASSUME TakeLease(p)
      PROVE  lease' \in LeaseType /\ EpochFor(p) \in Nat
  BY <1>3 DEF TakeLease, EpochFor, LeaseType
<1>4. CASE AcquireGranted(p)
  BY <1>3, <1>4 DEF AcquireGranted, AcqType
<1>5. CASE AcquireDenied(p)
  BY <1>3, <1>5 DEF AcquireDenied, AcqType
<1>6. CASE AcquireReturns(p)
  <2>1. loop' \in [Pods -> [JobTypes -> LoopType]]
    BY <1>6, LoopAtType DEF AcquireReturns
  <2>2. acq[p].epoch \in Nat /\ IdleAcq \in AcqType
    BY DEF AcqType, IdleAcq
  <2>3. QED
    BY <1>6, <2>1, <2>2 DEF AcquireReturns
<1>7. QED
  BY <1>1, <1>2, <1>4, <1>5, <1>6 DEF Leadership

LEMMA PollType ==
  ASSUME TypeOK, NEW p \in Pods, NEW t \in JobTypes, Poll(p, t)
  PROVE  TypeOK'
<1>0. loop[p][t] \in LoopType /\ loop[p][t].epoch \in Nat /\ epoch[p] \in Nat
  BY DEF TypeOK, LoopType, Epochs
<1>1. CASE LoopBreaks(p, t)
  <2>1. loop' \in [Pods -> [JobTypes -> LoopType]]
    BY <1>1, LoopAtType, SetLoopType DEF LoopBreaks, TypeOK
  <2>2. QED
    BY <1>1, <2>1 DEF LoopBreaks, TypeOK
<1>2. CASE ConfirmHeld(p, t) \/ ConfirmNotHeld(p, t)
  <2>1. loop' \in [Pods -> [JobTypes -> LoopType]]
    BY <1>2, LoopAtType, SetLoopType DEF ConfirmHeld, ConfirmNotHeld, TypeOK
  <2>2. QED
    BY <1>2, <2>1 DEF ConfirmHeld, ConfirmNotHeld, TypeOK
<1>3. CASE ConfirmDenied(p, t)
  <2>1. loop' \in [Pods -> [JobTypes -> LoopType]]
    BY <1>3, LoopAtType, SetLoopType DEF ConfirmDenied, TypeOK
  <2>2. QED
    BY <1>3, <2>1 DEF ConfirmDenied, TypeOK, Epochs, NoEpoch
<1>4. CASE BeginClaim(p, t)
  <2>1. loop' \in [Pods -> [JobTypes -> LoopType]]
    BY <1>0, <1>4, LoopAtType, SetLoopType DEF BeginClaim, TypeOK
  <2>2. QED
    BY <1>4, <2>1 DEF BeginClaim, TypeOK
<1>5. CASE ClaimMissed(p, t)
  <2>1. loop' \in [Pods -> [JobTypes -> LoopType]]
    BY <1>0, <1>5, LoopAtType, SetLoopType DEF ClaimMissed, TypeOK
  <2>2. QED
    BY <1>5, <2>1 DEF ClaimMissed, TypeOK
<1>6. ASSUME NEW j \in Jobs, ClaimWon(p, t, j) \/ ClaimAnswerLost(p, t, j)
      PROVE  TypeOK'
  <2>1. loop' \in [Pods -> [JobTypes -> LoopType]]
    BY <1>6, LoopAtType, SetLoopType DEF ClaimWon, ClaimAnswerLost, TypeOK
  <2>2. job' \in [Jobs -> JobRow]
    BY <1>0, <1>6, PodRowType DEF ClaimWon, ClaimAnswerLost, TypeOK
  <2>3. job[j].attempts + 1 \in Nat
    BY DEF TypeOK, JobRow
  <2>4. [job |-> j, epoch |-> loop[p][t].epoch, attempts |-> job[j].attempts + 1,
         cancelSeen |-> FALSE, lost |-> FALSE] \in DispatchType
    BY <1>0, <2>3 DEF DispatchType, Epochs
  <2>5. ASSUME NEW d \in DispatchType, dispatch' = [dispatch EXCEPT ![p] = @ \cup {d}]
        PROVE  dispatch' \in [Pods -> SUBSET DispatchType]
    BY <2>5 DEF TypeOK
  <2>6. CASE ClaimWon(p, t, j)
    <3>1. dispatch' \in [Pods -> SUBSET DispatchType]
      BY <2>4, <2>5, <2>6 DEF ClaimWon
    <3>2. QED
      BY <2>1, <2>2, <2>6, <3>1 DEF ClaimWon, TypeOK
  <2>7. CASE ClaimAnswerLost(p, t, j)
    BY <2>1, <2>2, <2>7 DEF ClaimAnswerLost, TypeOK
  <2>8. QED
    BY <1>6, <2>6, <2>7
<1>7. QED
  BY <1>1, <1>2, <1>3, <1>4, <1>5, <1>6 DEF Poll

LEMMA HandleType ==
  ASSUME TypeOK, NEW p \in Pods, Handle(p)
  PROVE  TypeOK'
<1>1. PICK d \in dispatch[p] : \/ Renew(p, d)
                               \/ \E ok \in BOOLEAN : HandlerEnds(p, d, ok)
                               \/ TerminalWriteFails(p, d)
  BY DEF Handle
<1>2. d \in DispatchType /\ d.job \in Jobs /\ d.epoch \in Nat
  BY <1>1 DEF TypeOK, DispatchType, Epochs
<1>3. CASE Renew(p, d)
  <2>1. job' \in [Jobs -> JobRow]
    BY <1>2, <1>3, PodRowType DEF Renew, TypeOK
  <2>2. [d EXCEPT !.lost = TRUE] \in DispatchType
    BY <1>2 DEF DispatchType
  <2>3. [d EXCEPT !.cancelSeen = @ \/ job[d.job].cancelReq] \in DispatchType
    <3>1. ASSUME NEW b \in BOOLEAN
          PROVE  [d EXCEPT !.cancelSeen = b] \in DispatchType
      BY <1>2 DEF DispatchType
    <3>2. (d.cancelSeen \/ job[d.job].cancelReq) \in BOOLEAN
      OBVIOUS
    <3>3. QED
      BY <3>1, <3>2
  <2>4. dispatch' \in [Pods -> SUBSET DispatchType]
    BY <1>3, <2>2, <2>3 DEF Renew, TypeOK
  <2>5. QED
    BY <1>3, <2>1, <2>4 DEF Renew, TypeOK
<1>4. ASSUME NEW ok \in BOOLEAN, HandlerEnds(p, d, ok)
      PROVE  TypeOK'
  <2>1. job' \in [Jobs -> JobRow]
    BY <1>2, <1>4, TerminalWriteType DEF HandlerEnds, TypeOK
  <2>2. QED
    BY <1>4, <2>1 DEF HandlerEnds, TypeOK
<1>5. CASE TerminalWriteFails(p, d)
  BY <1>5 DEF TerminalWriteFails, TypeOK
<1>6. QED
  BY <1>1, <1>3, <1>4, <1>5

LEMMA StopType ==
  ASSUME TypeOK, NEW p \in Pods, Stop(p)
  PROVE  TypeOK'
<1> USE DEF TypeOK, Phases
<1>1. CASE Shutdown(p)
  BY <1>1, LoopAssumption DEF Shutdown
<1>2. CASE Drained(p) \/ ReleasesDone(p)
  BY <1>2 DEF Drained, ReleasesDone
<1>3. CASE DrainTimeout(p)
  <2>1. \A d \in dispatch[p] : [job |-> d.job, epoch |-> d.epoch] \in ClaimType
    BY DEF ClaimType, DispatchType
  <2>2. QED
    BY <1>3, <2>1 DEF DrainTimeout
<1>4. ASSUME NEW c \in toRelease[p], ReleaseClaim(p, c)
      PROVE  TypeOK'
  <2>1. c.job \in Jobs /\ c.epoch \in Nat
    BY DEF ClaimType, Epochs
  <2>2. job' \in [Jobs -> JobRow]
    BY <1>4, <2>1, PodRowType DEF ReleaseClaim
  <2>3. QED
    BY <1>4, <2>2 DEF ReleaseClaim
<1>5. CASE ReleaseLease(p)
  <2>1. lease' \in LeaseType
    <3>1. NoRow \in LeaseType
      BY DEF NoRow, LeaseType, Epochs, NoEpoch
    <3>2. QED
      BY <1>5, <3>1 DEF ReleaseLease, DeleteLease
  <2>2. QED
    BY <1>5, <2>1 DEF ReleaseLease
<1>6. ASSUME Dies(p), crashes' \in 0..MaxCrashes, stops' \in 0..MaxStops
      PROVE  TypeOK'
  <2>1. loop' \in [Pods -> [JobTypes -> LoopType]]
    BY <1>6, LoopAtType DEF Dies
  <2>2. acq' \in [Pods -> AcqType] /\ epoch' \in [Pods -> Epochs]
    BY <1>6 DEF Dies, AcqType, IdleAcq, Epochs, NoEpoch
  <2>3. QED
    BY <1>6, <2>1, <2>2 DEF Dies
<1>7. CASE Exit(p)
  BY <1>6, <1>7 DEF Exit
<1>8. CASE Crash(p)
  <2>1. crashes' \in 0..MaxCrashes
    BY <1>8, LoopAssumption DEF Crash
  <2>2. QED
    BY <1>6, <1>8, <2>1 DEF Crash
<1>9. QED
  BY <1>1, <1>2, <1>3, <1>4, <1>5, <1>7, <1>8 DEF Stop

LEMMA InlineType ==
  ASSUME TypeOK, NEW p \in Pods, NEW j \in Jobs, Inline(p, j)
  PROVE  TypeOK'
<1>1. CASE RequestCancel(p, j)
  <2>1. job' \in [Jobs -> JobRow]
    BY <1>1, EnvRowType DEF RequestCancel, TypeOK
  <2>2. hints' \in [Pods -> SUBSET Jobs]
    BY <1>1 DEF RequestCancel, TypeOK
  <2>3. QED
    BY <1>1, <2>1, <2>2 DEF RequestCancel, TypeOK
<1>2. CASE CancelWriteFails(p, j) \/ HintEvicted(p, j)
  <2>1. hints' \in [Pods -> SUBSET Jobs]
    BY <1>2 DEF CancelWriteFails, HintEvicted, TypeOK
  <2>2. QED
    BY <1>2, <2>1 DEF CancelWriteFails, HintEvicted, TypeOK
<1>3. CASE StartInline(p, j)
  <2>1. job' \in [Jobs -> JobRow]
    BY <1>3, EnvRowType DEF StartInline, TypeOK
  <2>2. QED
    BY <1>3, <2>1 DEF StartInline, TypeOK
<1>4. ASSUME NEW s \in Terminal, FinishInline(p, j, s)
      PROVE  TypeOK'
  <2>1. job' \in [Jobs -> JobRow]
    BY <1>4, EnvRowType DEF FinishInline, TypeOK
  <2>2. hints' \in [Pods -> SUBSET Jobs] /\ inline' \in [Jobs -> Pods \cup {NoPod}]
    BY <1>4 DEF FinishInline, TypeOK
  <2>3. QED
    BY <1>4, <2>1, <2>2 DEF FinishInline, TypeOK
<1>5. QED
  BY <1>1, <1>2, <1>3, <1>4 DEF Inline

LEMMA EnvironmentType ==
  ASSUME TypeOK, Environment
  PROVE  TypeOK'
<1>1. CASE LeaseExpires
  BY <1>1 DEF LeaseExpires, LeaseLapses, TypeOK, LeaseType, podVars
<1>2. ASSUME NEW j \in Jobs, ClaimExpires(j) \/ BackoffOver(j) \/ (\E v \in BOOLEAN : Submit(j, v))
      PROVE  TypeOK'
  <2>1. job' \in [Jobs -> JobRow]
    BY <1>2, EnvRowType DEF ClaimExpires, BackoffOver, Submit, TypeOK
  <2>2. QED
    BY <1>2, <2>1 DEF ClaimExpires, BackoffOver, Submit, TypeOK, podVars
<1>3. ASSUME NEW c, Reap(c)
      PROVE  TypeOK'
  <2>1. job' \in [Jobs -> JobRow]
    BY <1>3, ReapType DEF Reap, TypeOK
  <2>2. QED
    BY <1>3, <2>1 DEF Reap, TypeOK, podVars
<1>4. QED
  BY <1>1, <1>2, <1>3 DEF Environment

LEMMA InitType == Init => TypeOK
<1> SUFFICES ASSUME Init PROVE TypeOK
  OBVIOUS
<1>1. lease \in LeaseType
  BY DEF Init, NoRow, LeaseType, NoEpoch, Epochs
<1>2. job \in [Jobs -> JobRow]
  BY DEF Init, JobInit, AbsentRow, JobRow, Statuses, Errors
<1>3. loop \in [Pods -> [JobTypes -> LoopType]]
  BY LoopAtType DEF Init
<1>4. acq \in [Pods -> AcqType] /\ epoch \in [Pods -> Epochs]
  BY DEF Init, AcqType, IdleAcq, NoEpoch, Epochs
<1>5. QED
  BY <1>1, <1>2, <1>3, <1>4, LoopAssumption DEF Init, TypeOK, Phases

(* Type correctness: every variable keeps its type at every step. *)
THEOREM TypeCorrect == Spec => []TypeOK
<1>2. TypeOK /\ [Next]_vars => TypeOK'
  <2> SUFFICES ASSUME TypeOK, [Next]_vars PROVE TypeOK'
    OBVIOUS
  <2>1. CASE Next
    BY <2>1, LeadershipType, PollType, HandleType, StopType, InlineType, EnvironmentType DEF Next
  <2>2. CASE UNCHANGED vars
    BY <2>2 DEF vars, podVars, TypeOK
  <2>3. QED
    BY <2>1, <2>2
<1>3. QED
  BY InitType, <1>2, PTL DEF Spec

-----------------------------------------------------------------------------
(***************************************************************************)
(* The inductive invariant.  GuardNamesClaim alone is not inductive: that  *)
(* a dispatch holds the latest claim of its row survives a new claim only  *)
(* because a pod never claims a row it is already working on, which the    *)
(* tenant cap of one sees to; and a row comes to be `running' with its old *)
(* claimedBy only if no settled row keeps one.  The lease of an inline run *)
(* must be known to be "none", or the reaper could take the row.           *)
(***************************************************************************)
RowsOwned == \A j \in Jobs : job[j].status # "running" => job[j].claimedBy = NoPod

LatestClaim ==
  \A p \in Pods : \A d \in dispatch[p] :
    job[d.job].status = "running" /\ job[d.job].claimedBy = p => d.attempts = job[d.job].attempts

InlineOwned ==
  \A j \in Jobs : inline[j] # NoPod =>
    job[j].status = "running" /\ job[j].claimedBy = NoPod /\ job[j].leaseUntil = "none"

FiniteDispatch == \A p \in Pods : IsFiniteSet(dispatch[p])

LeaseOwned == lease.live => lease.holder \in Pods

IInv == TypeOK /\ RowsOwned /\ InlineOwned /\ FiniteDispatch /\ LeaseOwned

(* A row that is not newly claimed: r before, s after. *)
Calm(r, s) ==
  /\ s.status # "running" => s.claimedBy = NoPod
  /\ s.status = "running" /\ s.claimedBy # NoPod =>
       r.status = "running" /\ s.claimedBy = r.claimedBy /\ s.attempts = r.attempts
  /\ r.status \in Terminal => s.status = r.status

(* A row that, if it was an inline run, still is. *)
StaysInline(r, s) ==
  r.status = "running" /\ r.claimedBy = NoPod /\ r.leaseUntil = "none" =>
    s.status = "running" /\ s.claimedBy = NoPod /\ s.leaseUntil = "none"

CalmJobs == \A k \in Jobs : Calm(job[k], job'[k]) /\ StaysInline(job[k], job'[k])

LEMMA CalmStutter ==
  ASSUME RowsOwned, UNCHANGED job
  PROVE  CalmJobs
BY DEF RowsOwned, CalmJobs, Calm, StaysInline

LEMMA CalmSetRow ==
  ASSUME TypeOK, RowsOwned, NEW j \in Jobs, NEW row, SetRow(j, row),
         Calm(job[j], row), StaysInline(job[j], row)
  PROVE  CalmJobs
<1>1. job'[j] = row /\ \A k \in Jobs \ {j} : job'[k] = job[k]
  BY DEF SetRow, TypeOK
<1>2. QED
  BY <1>1 DEF RowsOwned, CalmJobs, Calm, StaysInline

(* The owner's writes touch claimed rows only, and leave them unclaimed or as they were. *)
LEMMA CalmOwnedUpdate ==
  ASSUME TypeOK, RowsOwned, NEW p \in Pods, NEW e, NEW j \in Jobs, NEW row,
         OwnedUpdate(p, e, j, row),
         row.claimedBy = NoPod \/ (row.claimedBy = job[j].claimedBy /\ row.status = "running"
                                   /\ row.attempts = job[j].attempts)
  PROVE  CalmJobs
<1>1. CASE OwnerGuard(p, e, j)
  <2>1. SetRow(j, row)
    BY <1>1 DEF OwnedUpdate
  <2>2. Calm(job[j], row) /\ StaysInline(job[j], row)
    BY <1>1, LeaseAssumption DEF OwnerGuard, Calm, StaysInline, Terminal
  <2>3. QED
    BY <2>1, <2>2, CalmSetRow
<1>2. CASE ~OwnerGuard(p, e, j)
  BY <1>2, CalmStutter DEF OwnedUpdate
<1>3. QED
  BY <1>1, <1>2

LEMMA CalmTerminalWrite ==
  ASSUME TypeOK, RowsOwned, NEW p \in Pods, NEW d \in DispatchType, NEW ok \in BOOLEAN,
         TerminalWrite(p, d, ok)
  PROVE  CalmJobs
<1> DEFINE r == Unclaimed(job[d.job])
<1>1. d.job \in Jobs /\ job[d.job] \in JobRow
  BY DEF DispatchType, TypeOK
<1>2. r \in JobRow /\ r.claimedBy = NoPod
  <2>1. r \in JobRow
    BY <1>1, RowType
  <2>2. r.claimedBy = NoPod
    BY <1>1 DEF Unclaimed, JobRow
  <2>3. QED
    BY <2>1, <2>2
<1> HIDE DEF r
<1>3. /\ [r EXCEPT !.status = "succeeded"].claimedBy = NoPod
      /\ [r EXCEPT !.status = "cancelled"].claimedBy = NoPod
      /\ [r EXCEPT !.status = "pending", !.visible = FALSE, !.error = "HandlerError"].claimedBy = NoPod
      /\ [r EXCEPT !.status = "failed", !.error = "HandlerError"].claimedBy = NoPod
  BY <1>2 DEF JobRow
<1>4. QED
  BY <1>1, <1>3, CalmOwnedUpdate, CalmStutter DEF TerminalWrite, Cancelled, Complete, Fail, r

LEMMA CalmClaimStatements ==
  ASSUME TypeOK, RowsOwned, NEW p \in Pods, NEW e, NEW j \in Jobs,
         RenewRow(p, e, j) \/ ReleaseRow(p, e, j)
  PROVE  CalmJobs
<1>1. job[j] \in JobRow
  BY DEF TypeOK
<1>2. CASE RenewRow(p, e, j)
  <2> DEFINE row == [job[j] EXCEPT !.leaseUntil = "live"]
  <2>1. row.claimedBy = job[j].claimedBy /\ row.status = job[j].status /\ row.attempts = job[j].attempts
    BY <1>1 DEF JobRow
  <2>2. CASE OwnerGuard(p, e, j)
    <3>1. row.status = "running"
      BY <2>1, <2>2 DEF OwnerGuard
    <3> HIDE DEF row
    <3>2. QED
      BY <1>2, <2>1, <3>1, CalmOwnedUpdate DEF RenewRow, row
  <2>3. CASE ~OwnerGuard(p, e, j)
    BY <1>2, <2>3, CalmStutter DEF RenewRow, OwnedUpdate
  <2>4. QED
    BY <2>2, <2>3
<1>3. CASE ReleaseRow(p, e, j)
  <2> DEFINE r == Unclaimed(job[j])
  <2>0. r \in JobRow
    BY <1>1, RowType
  <2>1. r.claimedBy = NoPod
    BY <1>1 DEF Unclaimed, JobRow
  <2> HIDE DEF r
  <2>2. [r EXCEPT !.status = "pending", !.visible = TRUE, !.error = "PodShutdown"].claimedBy = NoPod
    BY <2>0, <2>1 DEF JobRow
  <2>3. QED
    BY <1>3, <2>2, CalmOwnedUpdate DEF ReleaseRow, r
<1>4. QED
  BY <1>2, <1>3

(* Producers, the clock, operators and inline starts. *)
LEMMA CalmEnvironment ==
  ASSUME TypeOK, RowsOwned, NEW j \in Jobs,
         \/ \E v \in BOOLEAN : Enqueue(j, v)
         \/ BackoffElapses(j) \/ ClaimLapses(j) \/ FlagCancel(j) \/ StartInlineRow(j)
  PROVE  CalmJobs
<1>1. job[j] \in JobRow /\ AbsentRow \in JobRow /\ AbsentRow.claimedBy = NoPod
  BY DEF TypeOK, AbsentRow, JobRow, Statuses, Errors
<1>2. job[j].status # "running" => job[j].claimedBy = NoPod
  BY DEF RowsOwned
<1>3. ASSUME NEW v \in BOOLEAN, Enqueue(j, v)
      PROVE  CalmJobs
  <2> DEFINE row == [AbsentRow EXCEPT !.status = "pending", !.visible = v]
  <2>1. row.status = "pending" /\ row.claimedBy = NoPod
    BY <1>1 DEF JobRow
  <2> HIDE DEF row
  <2>2. Calm(job[j], row) /\ StaysInline(job[j], row)
    BY <1>3, <2>1 DEF Enqueue, Calm, StaysInline, Terminal
  <2>3. QED
    BY <1>3, <2>2, CalmSetRow DEF Enqueue, row
<1>4. CASE BackoffElapses(j)
  <2> DEFINE row == [job[j] EXCEPT !.visible = TRUE]
  <2>1. row.status = job[j].status /\ row.claimedBy = job[j].claimedBy
    BY <1>1 DEF JobRow
  <2> HIDE DEF row
  <2>2. Calm(job[j], row) /\ StaysInline(job[j], row)
    BY <1>2, <1>4, <2>1 DEF BackoffElapses, Calm, StaysInline, Terminal
  <2>3. QED
    BY <1>4, <2>2, CalmSetRow DEF BackoffElapses, row
<1>5. CASE ClaimLapses(j)
  <2> DEFINE row == [job[j] EXCEPT !.leaseUntil = "lapsed"]
  <2>1. row.status = job[j].status /\ row.claimedBy = job[j].claimedBy /\ row.attempts = job[j].attempts
    BY <1>1 DEF JobRow
  <2> HIDE DEF row
  <2>2. Calm(job[j], row) /\ StaysInline(job[j], row)
    BY <1>5, <2>1 DEF ClaimLapses, Calm, StaysInline, Terminal
  <2>3. QED
    BY <1>5, <2>2, CalmSetRow DEF ClaimLapses, row
<1>6. CASE FlagCancel(j)
  <2> DEFINE c == [job[j] EXCEPT !.cancelReq = TRUE, !.status = "cancelled",
                                 !.claimedBy = NoPod, !.leaseUntil = "none"]
             f == [job[j] EXCEPT !.cancelReq = TRUE]
  <2>1. c.status = "cancelled" /\ c.claimedBy = NoPod
    BY <1>1 DEF JobRow
  <2>2. f.status = job[j].status /\ f.claimedBy = job[j].claimedBy /\ f.attempts = job[j].attempts
        /\ f.leaseUntil = job[j].leaseUntil
    BY <1>1 DEF JobRow
  <2> HIDE DEF c, f
  <2>3. CASE job[j].status = "pending"
    <3>1. Calm(job[j], c) /\ StaysInline(job[j], c)
      BY <2>1, <2>3 DEF Calm, StaysInline, Terminal
    <3>2. QED
      BY <1>6, <2>3, <3>1, CalmSetRow DEF FlagCancel, c
  <2>4. CASE job[j].status = "running"
    <3>1. Calm(job[j], f) /\ StaysInline(job[j], f)
      BY <2>2, <2>4 DEF Calm, StaysInline, Terminal
    <3>2. QED
      BY <1>6, <2>4, <3>1, CalmSetRow DEF FlagCancel, f
  <2>5. QED
    BY <1>6, <2>3, <2>4 DEF FlagCancel
<1>7. CASE StartInlineRow(j)
  <2> DEFINE row == [AbsentRow EXCEPT !.status = "running", !.visible = TRUE]
  <2>1. row.status = "running" /\ row.claimedBy = NoPod
    BY <1>1 DEF JobRow
  <2> HIDE DEF row
  <2>2. Calm(job[j], row) /\ StaysInline(job[j], row)
    BY <1>7, <2>1 DEF StartInlineRow, Calm, StaysInline, Terminal
  <2>3. QED
    BY <1>7, <2>2, CalmSetRow DEF StartInlineRow, row
<1>8. QED
  BY <1>3, <1>4, <1>5, <1>6, <1>7

LEMMA CalmReap ==
  ASSUME TypeOK, RowsOwned, NEW c, ReapZombies(c)
  PROVE  CalmJobs
<1> SUFFICES ASSUME NEW k \in Jobs
             PROVE  Calm(job[k], job'[k]) /\ StaysInline(job[k], job'[k])
  BY DEF CalmJobs
<1>1. job[k] \in JobRow
  BY DEF TypeOK
<1>2. CASE TenantOf[k] = c /\ Zombie(k)
  <2>1. job'[k] = Reaped(job[k])
    BY <1>2 DEF ReapZombies
  <2>2. Reaped(job[k]).status # "running" /\ Reaped(job[k]).claimedBy = NoPod
    BY <1>1 DEF Reaped, JobRow
  <2>3. QED
    BY <1>2, <2>1, <2>2 DEF Calm, StaysInline, Zombie, Terminal
<1>3. CASE ~(TenantOf[k] = c /\ Zombie(k))
  BY <1>3 DEF ReapZombies, Calm, StaysInline, RowsOwned
<1>4. QED
  BY <1>2, <1>3

(* An inline finish leaves every other row alone, and its own settled. *)
LEMMA CalmFinishInline ==
  ASSUME TypeOK, RowsOwned, NEW j \in Jobs, NEW s \in Terminal, FinishInlineRow(j, s)
  PROVE  /\ \A k \in Jobs : Calm(job[k], job'[k])
         /\ \A k \in Jobs \ {j} : job'[k] = job[k]
<1>1. CASE job[j].status = "running" /\ job[j].claimedBy = NoPod
  <2>1. PICK x \in Errors : SetRow(j, [job[j] EXCEPT !.status = s, !.error = x])
    BY <1>1 DEF FinishInlineRow, Errors
  <2> DEFINE row == [job[j] EXCEPT !.status = s, !.error = x]
  <2>2. row.status = s /\ row.claimedBy = NoPod
    BY <1>1 DEF TypeOK, JobRow
  <2> HIDE DEF row
  <2>3. job'[j] = row /\ \A k \in Jobs \ {j} : job'[k] = job[k]
    BY <2>1 DEF SetRow, TypeOK, row
  <2>4. QED
    BY <1>1, <2>2, <2>3 DEF Calm, Terminal, RowsOwned
<1>2. CASE ~(job[j].status = "running" /\ job[j].claimedBy = NoPod)
  <2>1. job' = job
    BY <1>2 DEF FinishInlineRow
  <2>2. QED
    BY <2>1 DEF Calm, RowsOwned
<1>3. QED
  BY <1>1, <1>2

-----------------------------------------------------------------------------
(* What every step keeps. *)
Settled == \A j \in Jobs : job[j].status \in Terminal => job'[j].status = job[j].status

Kept == IInv' /\ Settled /\ (TenantMax = 1 /\ LatestClaim => LatestClaim')

(* A dispatch after the step is one from before it, up to its flags. *)
SameDispatches ==
  \A q \in Pods : \A d \in dispatch'[q] : \E c \in dispatch[q] : c.job = d.job /\ c.attempts = d.attempts

LEMMA CalmKeepsClaims ==
  ASSUME TypeOK, TypeOK', \A k \in Jobs : Calm(job[k], job'[k]), SameDispatches
  PROVE  RowsOwned' /\ Settled /\ (LatestClaim => LatestClaim')
<1>1. RowsOwned' /\ Settled
  BY DEF RowsOwned, Settled, Calm
<1>2. ASSUME LatestClaim, NEW q \in Pods, NEW d \in dispatch'[q],
             job'[d.job].status = "running", job'[d.job].claimedBy = q
      PROVE  d.attempts = job'[d.job].attempts
  <2>1. PICK c \in dispatch[q] : c.job = d.job /\ c.attempts = d.attempts
    BY DEF SameDispatches
  <2>2. c.job \in Jobs /\ q # NoPod
    BY LeaseAssumption DEF TypeOK, DispatchType
  <2>3. job[c.job].status = "running" /\ job[c.job].claimedBy = q /\ job'[c.job].attempts = job[c.job].attempts
    BY <1>2, <2>1, <2>2 DEF Calm
  <2>4. QED
    BY <1>2, <2>1, <2>3 DEF LatestClaim
<1>3. QED
  BY <1>1, <1>2 DEF LatestClaim

(* A step that claims nothing and starts nothing. *)
LEMMA CalmKept ==
  ASSUME IInv, TypeOK', CalmJobs,
         \A q \in Pods : dispatch'[q] \subseteq dispatch[q],
         \A k \in Jobs : inline'[k] \in {NoPod, inline[k]},
         LeaseOwned'
  PROVE  Kept
<1>1. SameDispatches
  BY DEF SameDispatches
<1>2. RowsOwned' /\ Settled /\ (LatestClaim => LatestClaim')
  BY <1>1, CalmKeepsClaims DEF IInv, CalmJobs
<1>3. InlineOwned'
  BY DEF IInv, InlineOwned, CalmJobs, StaysInline
<1>4. FiniteDispatch'
  BY FS_Subset DEF IInv, FiniteDispatch
<1>5. QED
  BY <1>2, <1>3, <1>4 DEF Kept, IInv

LEMMA LeadershipKept ==
  ASSUME IInv, TypeOK', NEW p \in Pods, Leadership(p)
  PROVE  Kept
<1>1. UNCHANGED <<job, dispatch, inline>>
  BY DEF Leadership, Boot, RenewTick, AcquireGranted, AcquireDenied, AcquireReturns
<1>2. TakeLease(p) \/ UNCHANGED lease
  BY DEF Leadership, Boot, RenewTick, AcquireGranted, AcquireDenied, AcquireReturns
<1>3. LeaseOwned'
  BY <1>2 DEF IInv, LeaseOwned, TakeLease
<1>4. CalmJobs
  BY <1>1, CalmStutter DEF IInv
<1>5. QED
  BY <1>1, <1>3, <1>4, CalmKept

(* claimNext on a row nobody on this pod is working on. *)
LEMMA ClaimKept ==
  ASSUME IInv, TypeOK', NEW p \in Pods, NEW t \in JobTypes, NEW j \in Jobs,
         ClaimWon(p, t, j) \/ ClaimAnswerLost(p, t, j)
  PROVE  Kept
<1> DEFINE row == Claimed(job[j], p, loop[p][t].epoch)
           new == [job |-> j, epoch |-> loop[p][t].epoch, attempts |-> job[j].attempts + 1,
                   cancelSeen |-> FALSE, lost |-> FALSE]
<1>1. /\ job[j] \in JobRow /\ job[j].status = "pending" /\ job[j].attempts \in Nat
      /\ job'[j] = row /\ \A k \in Jobs \ {j} : job'[k] = job[k]
  BY DEF ClaimWon, ClaimAnswerLost, ClaimRow, SetRow, IInv, TypeOK, JobRow
<1>2. row.status = "running" /\ row.claimedBy = p /\ row.attempts = job[j].attempts + 1
  BY <1>1 DEF Claimed, JobRow
<1>3. /\ new.job = j /\ new.attempts = job[j].attempts + 1
  OBVIOUS
<1>4. \A q \in Pods : /\ dispatch'[q] = dispatch[q] \cup {new} \/ dispatch'[q] = dispatch[q]
                      /\ q # p => dispatch'[q] = dispatch[q]
  BY DEF ClaimWon, ClaimAnswerLost, IInv, TypeOK
<1>5. UNCHANGED <<lease, inline>> /\ TenantEligible(p, j)
  BY DEF ClaimWon, ClaimAnswerLost
<1> HIDE DEF row, new
<1>6. RowsOwned' /\ Settled
  BY <1>1, <1>2 DEF IInv, RowsOwned, Settled, Terminal
<1>7. InlineOwned' /\ LeaseOwned'
  BY <1>1, <1>5 DEF IInv, InlineOwned, LeaseOwned
<1>8. FiniteDispatch'
  <2>1. ASSUME NEW q \in Pods
        PROVE  IsFiniteSet(dispatch'[q])
    <3>1. IsFiniteSet(dispatch[q])
      BY DEF IInv, FiniteDispatch
    <3>2. IsFiniteSet(dispatch[q] \cup {new})
      BY <3>1, FS_AddElement
    <3>3. QED
      BY <1>4, <3>1, <3>2
  <2>2. QED
    BY <2>1 DEF FiniteDispatch
<1>9. ASSUME TenantMax = 1, LatestClaim
      PROVE  LatestClaim'
  <2> DEFINE same == {d \in dispatch[p] : TypeOf[d.job] = TypeOf[j] /\ TenantOf[d.job] = TenantOf[j]}
  <2>1. IsFiniteSet(same)
    BY FS_Subset DEF IInv, FiniteDispatch
  <2>2. Cardinality(same) < 1
    BY <1>5, <1>9 DEF TenantEligible
  <2> HIDE DEF same
  <2>3. same = {}
    BY <2>1, <2>2, FS_CardinalityType, FS_EmptySet
  <2>4. \A d \in dispatch[p] : d.job # j
    BY <2>3 DEF same
  <2>5. ASSUME NEW q \in Pods, NEW d \in dispatch'[q],
               job'[d.job].status = "running", job'[d.job].claimedBy = q
        PROVE  d.attempts = job'[d.job].attempts
    <3>1. CASE d = new /\ q = p
      BY <1>1, <1>2, <1>3, <3>1
    <3>2. CASE d \in dispatch[q]
      <4>1. d.job \in Jobs
        BY <3>2 DEF IInv, TypeOK, DispatchType
      <4>2. d.job # j
        BY <1>1, <1>2, <2>4, <2>5, <3>2
      <4>3. job'[d.job] = job[d.job]
        BY <1>1, <4>1, <4>2
      <4>4. QED
        BY <1>9, <2>5, <3>2, <4>3 DEF LatestClaim
    <3>3. QED
      BY <1>4, <3>1, <3>2
  <2>6. QED
    BY <2>5 DEF LatestClaim
<1>10. QED
  BY <1>6, <1>7, <1>8, <1>9 DEF Kept, IInv

LEMMA PollKept ==
  ASSUME IInv, TypeOK', NEW p \in Pods, NEW t \in JobTypes, Poll(p, t)
  PROVE  Kept
<1>1. CASE \E j \in Jobs : ClaimWon(p, t, j) \/ ClaimAnswerLost(p, t, j)
  BY <1>1, ClaimKept
<1>2. CASE \/ LoopBreaks(p, t) \/ ConfirmHeld(p, t) \/ ConfirmNotHeld(p, t) \/ ConfirmDenied(p, t)
           \/ BeginClaim(p, t) \/ ClaimMissed(p, t)
  <2>1. UNCHANGED <<lease, job, dispatch, inline>>
    BY <1>2 DEF LoopBreaks, ConfirmHeld, ConfirmNotHeld, ConfirmDenied, BeginClaim, ClaimMissed
  <2>2. CalmJobs /\ LeaseOwned'
    BY <2>1, CalmStutter DEF IInv, LeaseOwned
  <2>3. QED
    BY <2>1, <2>2, CalmKept
<1>3. QED
  BY <1>1, <1>2 DEF Poll

LEMMA HandleKept ==
  ASSUME IInv, TypeOK', NEW p \in Pods, Handle(p)
  PROVE  Kept
<1>1. PICK d \in dispatch[p] : \/ Renew(p, d)
                               \/ \E ok \in BOOLEAN : HandlerEnds(p, d, ok)
                               \/ TerminalWriteFails(p, d)
  BY DEF Handle
<1>2. d \in DispatchType /\ d.job \in Jobs
  BY <1>1 DEF IInv, TypeOK, DispatchType
<1>3. UNCHANGED <<lease, inline>> /\ LeaseOwned'
  BY <1>1 DEF Renew, HandlerEnds, TerminalWriteFails, IInv, LeaseOwned
<1>4. CASE Renew(p, d)
  <2>1. CalmJobs
    BY <1>2, <1>4, CalmClaimStatements DEF Renew, IInv
  <2>2. PICK n : /\ n.job = d.job /\ n.attempts = d.attempts
                 /\ dispatch' = [dispatch EXCEPT ![p] = (@ \ {d}) \cup {n}]
    <3>1. /\ [d EXCEPT !.lost = TRUE].job = d.job
          /\ [d EXCEPT !.lost = TRUE].attempts = d.attempts
      BY <1>2 DEF DispatchType
    <3>2. /\ [d EXCEPT !.cancelSeen = @ \/ job[d.job].cancelReq].job = d.job
          /\ [d EXCEPT !.cancelSeen = @ \/ job[d.job].cancelReq].attempts = d.attempts
      BY <1>2 DEF DispatchType
    <3>3. QED
      BY <1>4, <3>1, <3>2 DEF Renew
  <2>3. \A q \in Pods : /\ q # p => dispatch'[q] = dispatch[q]
                        /\ q = p => dispatch'[q] = (dispatch[q] \ {d}) \cup {n}
    BY <2>2 DEF IInv, TypeOK
  <2>4. SameDispatches
    BY <1>1, <2>2, <2>3 DEF SameDispatches
  <2>5. FiniteDispatch'
    <3>1. \A q \in Pods : IsFiniteSet(dispatch[q])
      BY DEF IInv, FiniteDispatch
    <3>2. IsFiniteSet(dispatch[p] \ {d})
      BY <3>1, FS_Subset
    <3>3. IsFiniteSet((dispatch[p] \ {d}) \cup {n})
      BY <3>2, FS_AddElement
    <3>4. QED
      BY <2>3, <3>1, <3>3 DEF FiniteDispatch
  <2>6. RowsOwned' /\ Settled /\ (LatestClaim => LatestClaim')
    BY <2>1, <2>4, CalmKeepsClaims DEF IInv, CalmJobs
  <2>7. InlineOwned'
    BY <1>3, <2>1 DEF IInv, InlineOwned, CalmJobs, StaysInline
  <2>8. QED
    BY <1>3, <2>5, <2>6, <2>7 DEF Kept, IInv
<1>5. ASSUME \E ok \in BOOLEAN : HandlerEnds(p, d, ok) \/ TerminalWriteFails(p, d)
      PROVE  Kept
  <2>1. CalmJobs
    BY <1>2, <1>5, CalmTerminalWrite, CalmStutter DEF HandlerEnds, TerminalWriteFails, IInv
  <2>2. \A q \in Pods : dispatch'[q] \subseteq dispatch[q]
    BY <1>5 DEF HandlerEnds, TerminalWriteFails, IInv, TypeOK
  <2>3. QED
    BY <1>3, <2>1, <2>2, CalmKept
<1>6. QED
  BY <1>1, <1>4, <1>5

LEMMA StopKept ==
  ASSUME IInv, TypeOK', NEW p \in Pods, Stop(p)
  PROVE  Kept
<1>1. CASE Shutdown(p) \/ Drained(p) \/ DrainTimeout(p) \/ ReleasesDone(p)
  <2>1. UNCHANGED <<lease, job, dispatch, inline>>
    BY <1>1 DEF Shutdown, Drained, DrainTimeout, ReleasesDone
  <2>2. CalmJobs /\ LeaseOwned'
    BY <2>1, CalmStutter DEF IInv, LeaseOwned
  <2>3. QED
    BY <2>1, <2>2, CalmKept
<1>2. ASSUME NEW c \in toRelease[p], ReleaseClaim(p, c)
      PROVE  Kept
  <2>1. UNCHANGED <<lease, dispatch, inline>>
    BY <1>2 DEF ReleaseClaim
  <2>2. c.job \in Jobs
    BY DEF IInv, TypeOK, ClaimType
  <2>3. CalmJobs /\ LeaseOwned'
    BY <1>2, <2>1, <2>2, CalmClaimStatements, CalmStutter DEF ReleaseClaim, IInv, LeaseOwned
  <2>4. QED
    BY <2>1, <2>3, CalmKept
<1>3. CASE ReleaseLease(p)
  <2>1. UNCHANGED <<job, dispatch, inline>>
    BY <1>3 DEF ReleaseLease
  <2>2. LeaseOwned'
    BY <1>3 DEF ReleaseLease, DeleteLease, NoRow, IInv, LeaseOwned
  <2>3. QED
    BY <2>1, <2>2, CalmStutter, CalmKept DEF IInv
<1>4. CASE Exit(p) \/ Crash(p)
  <2>1. Dies(p)
    BY <1>4 DEF Exit, Crash
  <2>2. UNCHANGED <<lease, job>> /\ (\A q \in Pods : dispatch'[q] \subseteq dispatch[q])
        /\ (\A k \in Jobs : inline'[k] \in {NoPod, inline[k]})
    BY <2>1 DEF Dies, IInv, TypeOK
  <2>3. CalmJobs /\ LeaseOwned'
    BY <2>2, CalmStutter DEF IInv, LeaseOwned
  <2>4. QED
    BY <2>2, <2>3, CalmKept
<1>5. QED
  BY <1>1, <1>2, <1>3, <1>4 DEF Stop

LEMMA InlineKept ==
  ASSUME IInv, TypeOK', NEW p \in Pods, NEW j \in Jobs, Inline(p, j)
  PROVE  Kept
<1>0. UNCHANGED <<lease, dispatch>> /\ LeaseOwned' /\ FiniteDispatch'
  BY DEF Inline, RequestCancel, CancelWriteFails, HintEvicted, StartInline, FinishInline,
         IInv, LeaseOwned, FiniteDispatch
<1>1. CASE RequestCancel(p, j) \/ CancelWriteFails(p, j) \/ HintEvicted(p, j)
  <2>1. UNCHANGED inline
    BY <1>1 DEF RequestCancel, CancelWriteFails, HintEvicted
  <2>2. CalmJobs
    BY <1>1, CalmEnvironment, CalmStutter DEF RequestCancel, CancelWriteFails, HintEvicted, IInv
  <2>3. QED
    BY <1>0, <2>1, <2>2, CalmKept
<1>s. SameDispatches
  BY <1>0 DEF SameDispatches
<1>2. CASE StartInline(p, j)
  <2>1. CalmJobs
    BY <1>2, CalmEnvironment DEF StartInline, IInv
  <2>2. RowsOwned' /\ Settled /\ (LatestClaim => LatestClaim')
    BY <1>s, <2>1, CalmKeepsClaims DEF IInv, CalmJobs
  <2>3. job'[j].status = "running" /\ job'[j].claimedBy = NoPod /\ job'[j].leaseUntil = "none"
    BY <1>2 DEF StartInline, StartInlineRow, SetRow, AbsentRow, IInv, TypeOK
  <2>4. \A k \in Jobs \ {j} : inline'[k] = inline[k]
    BY <1>2 DEF StartInline, IInv, TypeOK
  <2>5. InlineOwned'
    BY <2>1, <2>3, <2>4 DEF IInv, InlineOwned, CalmJobs, StaysInline
  <2>6. QED
    BY <1>0, <2>2, <2>5 DEF Kept, IInv
<1>3. ASSUME NEW s \in Terminal, FinishInline(p, j, s)
      PROVE  Kept
  <2>1. /\ \A k \in Jobs : Calm(job[k], job'[k])
        /\ \A k \in Jobs \ {j} : job'[k] = job[k]
    BY <1>3, CalmFinishInline DEF FinishInline, IInv
  <2>2. RowsOwned' /\ Settled /\ (LatestClaim => LatestClaim')
    BY <1>s, <2>1, CalmKeepsClaims DEF IInv
  <2>3. inline'[j] = NoPod /\ \A k \in Jobs \ {j} : inline'[k] = inline[k]
    BY <1>3 DEF FinishInline, IInv, TypeOK
  <2>4. InlineOwned'
    BY <2>1, <2>3 DEF IInv, InlineOwned
  <2>5. QED
    BY <1>0, <2>2, <2>4 DEF Kept, IInv
<1>4. QED
  BY <1>1, <1>2, <1>3 DEF Inline

LEMMA EnvironmentKept ==
  ASSUME IInv, TypeOK', Environment
  PROVE  Kept
<1>1. UNCHANGED <<dispatch, inline>>
  BY DEF Environment, LeaseExpires, ClaimExpires, BackoffOver, Submit, Reap, podVars
<1>2. LeaseOwned'
  BY DEF Environment, LeaseExpires, LeaseLapses, ClaimExpires, BackoffOver, Submit, Reap,
         IInv, LeaseOwned, TypeOK, LeaseType
<1>3. CalmJobs
  BY CalmEnvironment, CalmReap, CalmStutter
  DEF Environment, LeaseExpires, ClaimExpires, BackoffOver, Submit, Reap, IInv
<1>4. QED
  BY <1>1, <1>2, <1>3, CalmKept

LEMMA NextKept ==
  ASSUME IInv, [Next]_vars
  PROVE  Kept
<1>1. TypeOK'
  <2>1. CASE Next
    BY <2>1, LeadershipType, PollType, HandleType, StopType, InlineType, EnvironmentType DEF Next, IInv
  <2>2. CASE UNCHANGED vars
    BY <2>2 DEF vars, podVars, IInv, TypeOK
  <2>3. QED
    BY <2>1, <2>2
<1>2. CASE Next
  BY <1>1, <1>2, LeadershipKept, PollKept, HandleKept, StopKept, InlineKept, EnvironmentKept DEF Next
<1>3. CASE UNCHANGED vars
  <2>1. UNCHANGED <<lease, job, dispatch, inline>>
    BY <1>3 DEF vars, podVars
  <2>2. CalmJobs /\ LeaseOwned'
    BY <2>1, CalmStutter DEF IInv, LeaseOwned
  <2>3. QED
    BY <1>1, <2>1, <2>2, CalmKept
<1>4. QED
  BY <1>2, <1>3

LEMMA InitIInv == Init => IInv /\ LatestClaim
<1> SUFFICES ASSUME Init PROVE IInv /\ LatestClaim
  OBVIOUS
<1>1. TypeOK
  BY InitType
<1>2. RowsOwned /\ InlineOwned /\ LeaseOwned
  BY DEF Init, JobInit, AbsentRow, RowsOwned, InlineOwned, LeaseOwned, NoRow
<1>3. FiniteDispatch /\ LatestClaim
  BY FS_EmptySet DEF Init, FiniteDispatch, LatestClaim
<1>4. QED
  BY <1>1, <1>2, <1>3 DEF IInv

THEOREM Inductive == Spec => []IInv
<1>1. IInv /\ [Next]_vars => IInv'
  BY NextKept DEF Kept
<1>2. QED
  BY <1>1, InitIInv, PTL DEF Spec

(* With one dispatch per tenant (the default), ownerGuard names a claim       *)
(* exactly: of all dispatches, on all pods, only the one that made the row's  *)
(* latest claim can write to it, for any number of pods, crashes and epochs.  *)
THEOREM GuardNamesClaimCorrect == TenantMax = 1 => (Spec => []GuardNamesClaim)
<1> SUFFICES ASSUME TenantMax = 1 PROVE Spec => []GuardNamesClaim
  OBVIOUS
<1>1. IInv /\ LatestClaim /\ [Next]_vars => (IInv /\ LatestClaim)'
  BY NextKept DEF Kept
<1>2. IInv /\ LatestClaim => GuardNamesClaim
  BY DEF LatestClaim, GuardNamesClaim, OwnerGuard
<1>3. QED
  BY <1>1, <1>2, InitIInv, PTL DEF Spec

(* No reaper, worker or cancel takes the row of an inline run from under it. *)
THEOREM InlineUndisturbedCorrect == Spec => []InlineUndisturbed
<1>1. IInv => InlineUndisturbed
  BY DEF IInv, InlineOwned, InlineUndisturbed
<1>2. QED
  BY <1>1, Inductive, PTL

(* Whatever is still in flight, a settled row is never written again. *)
THEOREM TerminalIsFinalCorrect == Spec => TerminalIsFinal
<1>1. IInv /\ [Next]_vars => [\A j \in Jobs : job[j].status \in Terminal => job'[j].status = job[j].status]_vars
  BY NextKept DEF Kept, Settled
<1>2. QED
  BY <1>1, Inductive, PTL DEF Spec, TerminalIsFinal

(* A live lease leaves its holder's hands only through the holder's release. *)
THEOREM LiveLeaseNotStolenCorrect == Spec => LiveLeaseNotStolen
<1>1. ASSUME IInv, Next, lease.live, lease'.holder # lease.holder
      PROVE  phase[lease.holder] = "exiting"
  <2>1. lease.holder \in Pods /\ lease.holder # NoPod
    BY <1>1, LeaseAssumption DEF IInv, LeaseOwned
  <2>2. ASSUME NEW p \in Pods, TakeLease(p)
        PROVE  FALSE
    BY <1>1, <2>1, <2>2 DEF TakeLease, Takeable
  <2>3. ASSUME NEW p \in Pods, Leadership(p)
        PROVE  FALSE
    BY <1>1, <2>2, <2>3 DEF Leadership, Boot, RenewTick, AcquireGranted, AcquireDenied, AcquireReturns
  <2>4. ASSUME NEW p \in Pods, Handle(p) \/ (\E t \in JobTypes : Poll(p, t)) \/ (\E j \in Jobs : Inline(p, j))
        PROVE  FALSE
    BY <1>1, <2>4 DEF Handle, Renew, HandlerEnds, TerminalWriteFails, Poll, LoopBreaks, ConfirmHeld,
       ConfirmNotHeld, ConfirmDenied, BeginClaim, ClaimMissed, ClaimWon, ClaimAnswerLost, Inline,
       RequestCancel, CancelWriteFails, HintEvicted, StartInline, FinishInline
  <2>5. ASSUME Environment
        PROVE  FALSE
    BY <1>1, <2>5 DEF Environment, LeaseExpires, LeaseLapses, ClaimExpires, BackoffOver, Submit, Reap,
       IInv, TypeOK, LeaseType
  <2>6. ASSUME NEW p \in Pods, Stop(p)
        PROVE  phase[lease.holder] = "exiting"
    BY <1>1, <2>6 DEF Stop, Shutdown, Drained, DrainTimeout, ReleasesDone, ReleaseClaim, ReleaseLease,
       DeleteLease, Exit, Crash, Dies
  <2>7. QED
    BY <1>1, <2>3, <2>4, <2>5, <2>6 DEF Next
<1>2. IInv /\ [Next]_vars => [lease.live /\ lease'.holder # lease.holder => phase[lease.holder] = "exiting"]_vars
  BY <1>1
<1>3. QED
  BY <1>2, Inductive, PTL DEF Spec, LiveLeaseNotStolen

-----------------------------------------------------------------------------
(***************************************************************************)
(* ImplementsLedger.  The ledger numbers the claims of a row by its        *)
(* attempts and keeps the set of numbers still at work.  That a handler's  *)
(* end takes exactly its own number out of that set needs the numbers of   *)
(* the dispatches of a row to be distinct, over all pods, and none to be   *)
(* ahead of the row; that it decides the row under the latest number is    *)
(* LatestClaim, and is where the tenant cap of one comes in.               *)
(***************************************************************************)
Numbered ==
  /\ \A p \in Pods : \A d \in dispatch[p] : 1 <= d.attempts /\ d.attempts <= job[d.job].attempts
  /\ \A p, q \in Pods : \A d \in dispatch[p], e \in dispatch[q] :
       d.job = e.job /\ d.attempts = e.attempts => p = q /\ d = e

AbsentUnclaimed == \A j \in Jobs : job[j].status = "absent" => job[j].attempts = 0

LedgerInv == Numbered /\ AbsentUnclaimed

(* A row that keeps its number of claims, and is left alone or taken back. *)
Ends(r, s) ==
  /\ s.attempts = r.attempts
  /\ \/ s.status = r.status
     \/ r.status = "running" /\ s.status \in {"pending"} \cup Terminal

(* The kinds of step the ledger tells apart. *)
RowsEnd == \A k \in Jobs : Ends(job[k], job'[k])

OthersSame(j) == \A k \in Jobs \ {j} : job'[k] = job[k]

Renewed ==
  \E p \in Pods : \E d \in dispatch[p], n \in DispatchType :
    /\ n.job = d.job /\ n.attempts = d.attempts
    /\ dispatch' = [dispatch EXCEPT ![p] = (@ \ {d}) \cup {n}]

TakesBack == RowsEnd /\ (UNCHANGED dispatch \/ Renewed)

Vanishes == UNCHANGED job /\ \A q \in Pods : dispatch'[q] \subseteq dispatch[q]

Offers(j) ==
  /\ job[j].status = "absent" /\ job'[j].attempts = 0
  /\ job'[j].status = "pending" \/ (j \in InlineJobs /\ job'[j].status = "running")
  /\ OthersSame(j) /\ UNCHANGED dispatch

Withdraws(j) ==
  /\ job[j].status = "pending" /\ job'[j].status = "cancelled" /\ job'[j].attempts = job[j].attempts
  /\ OthersSame(j) /\ UNCHANGED dispatch

Takes(p, j) ==
  /\ job[j].status = "pending" /\ job'[j].status = "running" /\ job'[j].attempts = job[j].attempts + 1
  /\ OthersSame(j)
  /\ \/ UNCHANGED dispatch
     \/ \E n \in DispatchType : /\ n.job = j /\ n.attempts = job[j].attempts + 1
                                /\ dispatch' = [dispatch EXCEPT ![p] = @ \cup {n}]

Decides(p, d) ==
  /\ job[d.job].status = "running" /\ job[d.job].claimedBy = p
  /\ job'[d.job].status \in {"pending"} \cup Terminal /\ job'[d.job].attempts = job[d.job].attempts
  /\ OthersSame(d.job)
  /\ dispatch' = [dispatch EXCEPT ![p] = @ \ {d}]

Kinds ==
  \/ TakesBack \/ Vanishes
  \/ \E j \in Jobs : Offers(j) \/ Withdraws(j) \/ (\E p \in Pods : Takes(p, j))
  \/ \E p \in Pods : \E d \in dispatch[p] : Decides(p, d)

LEMMA RowsEndStutter ==
  ASSUME UNCHANGED job
  PROVE  RowsEnd
BY DEF RowsEnd, Ends

LEMMA SetRowEnds ==
  ASSUME TypeOK, NEW j \in Jobs, NEW row, SetRow(j, row), Ends(job[j], row)
  PROVE  RowsEnd
<1>1. job'[j] = row /\ \A k \in Jobs \ {j} : job'[k] = job[k]
  BY DEF SetRow, TypeOK
<1>2. QED
  BY <1>1 DEF RowsEnd, Ends

(* A renew, a release and a claim that lapses. *)
LEMMA ClaimStatementEnds ==
  ASSUME TypeOK, NEW p, NEW e, NEW j \in Jobs,
         RenewRow(p, e, j) \/ ReleaseRow(p, e, j) \/ ClaimLapses(j) \/ BackoffElapses(j)
  PROVE  RowsEnd
<1> DEFINE u    == Unclaimed(job[j])
           live == [job[j] EXCEPT !.leaseUntil = "live"]
           past == [job[j] EXCEPT !.leaseUntil = "lapsed"]
           seen == [job[j] EXCEPT !.visible = TRUE]
<1>1. job[j] \in JobRow
  BY DEF TypeOK
<1>2. u \in JobRow /\ u.attempts = job[j].attempts
  <2>1. u \in JobRow
    BY <1>1, RowType
  <2>2. u.attempts = job[j].attempts
    BY <1>1 DEF Unclaimed, JobRow
  <2> QED BY <2>1, <2>2
<1>3. /\ live.attempts = job[j].attempts /\ live.status = job[j].status
      /\ past.attempts = job[j].attempts /\ past.status = job[j].status
      /\ seen.attempts = job[j].attempts /\ seen.status = job[j].status
  BY <1>1 DEF JobRow
<1> HIDE DEF u, live, past, seen
<1> DEFINE back == [u EXCEPT !.status = "pending", !.visible = TRUE, !.error = "PodShutdown"]
<1>4. back.attempts = job[j].attempts /\ back.status = "pending"
  BY <1>2 DEF JobRow
<1> HIDE DEF back
<1>5. CASE ClaimLapses(j) \/ BackoffElapses(j)
  BY <1>3, <1>5, SetRowEnds DEF ClaimLapses, BackoffElapses, Ends, past, seen
<1>6. CASE RenewRow(p, e, j)
  BY <1>3, <1>6, SetRowEnds, RowsEndStutter DEF RenewRow, OwnedUpdate, Ends, live
<1>7. CASE ReleaseRow(p, e, j)
  BY <1>4, <1>7, SetRowEnds, RowsEndStutter DEF ReleaseRow, OwnedUpdate, OwnerGuard, Ends, back, u
<1> QED BY <1>5, <1>6, <1>7

LEMMA ReapEnds ==
  ASSUME TypeOK, NEW c, ReapZombies(c)
  PROVE  RowsEnd
<1> SUFFICES ASSUME NEW k \in Jobs PROVE Ends(job[k], job'[k])
  BY DEF RowsEnd
<1>1. job[k] \in JobRow
  BY DEF TypeOK
<1>2. CASE TenantOf[k] = c /\ Zombie(k)
  <2>1. job'[k] = Reaped(job[k])
    BY <1>2 DEF ReapZombies
  <2>2. Reaped(job[k]).attempts = job[k].attempts /\ Reaped(job[k]).status \in {"pending", "failed"}
    BY <1>1 DEF Reaped, JobRow
  <2> QED BY <1>2, <2>1, <2>2 DEF Ends, Zombie, Terminal
<1>3. CASE ~(TenantOf[k] = c /\ Zombie(k))
  BY <1>3 DEF ReapZombies, Ends
<1> QED BY <1>2, <1>3

LEMMA FinishInlineEnds ==
  ASSUME TypeOK, NEW j \in Jobs, NEW s \in Terminal, FinishInlineRow(j, s)
  PROVE  RowsEnd
<1>1. CASE job[j].status = "running" /\ job[j].claimedBy = NoPod
  <2>1. PICK x \in Errors : SetRow(j, [job[j] EXCEPT !.status = s, !.error = x])
    BY <1>1 DEF FinishInlineRow, Errors
  <2> DEFINE row == [job[j] EXCEPT !.status = s, !.error = x]
  <2>2. row.status = s /\ row.attempts = job[j].attempts
    BY DEF TypeOK, JobRow
  <2> HIDE DEF row
  <2> QED BY <1>1, <2>1, <2>2, SetRowEnds DEF Ends, row
<1>2. CASE ~(job[j].status = "running" /\ job[j].claimedBy = NoPod)
  BY <1>2, RowsEndStutter DEF FinishInlineRow
<1> QED BY <1>1, <1>2

(* What a terminal write does: nothing, or the owner's decision. *)
LEMMA TerminalWriteDecides ==
  ASSUME TypeOK, NEW p \in Pods, NEW d \in DispatchType, NEW ok \in BOOLEAN, TerminalWrite(p, d, ok)
  PROVE  \/ UNCHANGED job
         \/ /\ OwnerGuard(p, d.epoch, d.job)
            /\ job'[d.job].status \in {"pending"} \cup Terminal
            /\ job'[d.job].attempts = job[d.job].attempts
            /\ OthersSame(d.job)
<1> DEFINE r == Unclaimed(job[d.job])
<1>1. d.job \in Jobs /\ job[d.job] \in JobRow
  BY DEF DispatchType, TypeOK
<1>2. r \in JobRow /\ r.attempts = job[d.job].attempts
  <2>1. r \in JobRow
    BY <1>1, RowType
  <2>2. r.attempts = job[d.job].attempts
    BY <1>1 DEF Unclaimed, JobRow
  <2> QED BY <2>1, <2>2
<1> HIDE DEF r
<1> DEFINE done  == [r EXCEPT !.status = "succeeded"]
           canc  == [r EXCEPT !.status = "cancelled"]
           again == [r EXCEPT !.status = "pending", !.visible = FALSE, !.error = "HandlerError"]
           dead  == [r EXCEPT !.status = "failed", !.error = "HandlerError"]
<1>3. /\ done.status = "succeeded" /\ done.attempts = r.attempts
      /\ canc.status = "cancelled" /\ canc.attempts = r.attempts
      /\ again.status = "pending" /\ again.attempts = r.attempts
      /\ dead.status = "failed" /\ dead.attempts = r.attempts
  BY <1>2 DEF JobRow
<1> HIDE DEF done, canc, again, dead
<1>4. ASSUME NEW row, OwnedUpdate(p, d.epoch, d.job, row), row \in {done, canc, again, dead}
      PROVE  \/ UNCHANGED job
             \/ /\ OwnerGuard(p, d.epoch, d.job)
                /\ job'[d.job].status \in {"pending"} \cup Terminal
                /\ job'[d.job].attempts = job[d.job].attempts
                /\ OthersSame(d.job)
  <2>1. CASE OwnerGuard(p, d.epoch, d.job)
    <3>1. job'[d.job] = row /\ OthersSame(d.job)
      BY <1>1, <1>4, <2>1 DEF OwnedUpdate, SetRow, TypeOK, OthersSame
    <3>2. row.status \in {"pending"} \cup Terminal /\ row.attempts = job[d.job].attempts
      BY <1>2, <1>3, <1>4 DEF Terminal
    <3> QED BY <2>1, <3>1, <3>2
  <2>2. CASE ~OwnerGuard(p, d.epoch, d.job)
    BY <1>4, <2>2 DEF OwnedUpdate
  <2> QED BY <2>1, <2>2
<1> QED BY <1>4 DEF TerminalWrite, Cancelled, Complete, Fail, done, canc, again, dead, r

(* Every step is of one of the kinds. *)
LEMMA PollKinds ==
  ASSUME IInv, NEW p \in Pods, NEW t \in JobTypes, Poll(p, t)
  PROVE  Kinds
<1>1. ASSUME NEW j \in Jobs, ClaimWon(p, t, j) \/ ClaimAnswerLost(p, t, j)
      PROVE  Takes(p, j)
  <2> DEFINE row == Claimed(job[j], p, loop[p][t].epoch)
             new == [job |-> j, epoch |-> loop[p][t].epoch, attempts |-> job[j].attempts + 1,
                     cancelSeen |-> FALSE, lost |-> FALSE]
  <2>1. /\ job[j] \in JobRow /\ job[j].status = "pending" /\ job[j].attempts \in Nat
        /\ job'[j] = row /\ OthersSame(j)
    BY <1>1 DEF ClaimWon, ClaimAnswerLost, ClaimRow, SetRow, IInv, TypeOK, JobRow, OthersSame
  <2>2. row.status = "running" /\ row.attempts = job[j].attempts + 1
    BY <2>1 DEF Claimed, JobRow
  <2>3. loop[p][t].epoch \in Epochs
    BY DEF IInv, TypeOK, LoopType
  <2>4. new \in DispatchType /\ new.job = j /\ new.attempts = job[j].attempts + 1
    BY <2>1, <2>3 DEF DispatchType
  <2>5. UNCHANGED dispatch \/ dispatch' = [dispatch EXCEPT ![p] = @ \cup {new}]
    BY <1>1 DEF ClaimWon, ClaimAnswerLost
  <2> HIDE DEF row, new
  <2> QED BY <2>1, <2>2, <2>4, <2>5 DEF Takes
<1>2. CASE \/ LoopBreaks(p, t) \/ ConfirmHeld(p, t) \/ ConfirmNotHeld(p, t) \/ ConfirmDenied(p, t)
           \/ BeginClaim(p, t) \/ ClaimMissed(p, t)
  <2>1. UNCHANGED <<job, dispatch>>
    BY <1>2 DEF LoopBreaks, ConfirmHeld, ConfirmNotHeld, ConfirmDenied, BeginClaim, ClaimMissed
  <2> QED BY <2>1, RowsEndStutter DEF Kinds, TakesBack
<1> QED BY <1>1, <1>2 DEF Poll, Kinds

LEMMA HandleKinds ==
  ASSUME IInv, NEW p \in Pods, Handle(p)
  PROVE  Kinds
<1>1. PICK d \in dispatch[p] : \/ Renew(p, d)
                               \/ \E ok \in BOOLEAN : HandlerEnds(p, d, ok)
                               \/ TerminalWriteFails(p, d)
  BY DEF Handle
<1>2. d \in DispatchType /\ d.job \in Jobs
  BY <1>1 DEF IInv, TypeOK, DispatchType
<1>3. CASE Renew(p, d)
  <2>1. RowsEnd
    BY <1>2, <1>3, ClaimStatementEnds DEF Renew, IInv
  <2> DEFINE a == [d EXCEPT !.lost = TRUE]
             b == [d EXCEPT !.cancelSeen = @ \/ job[d.job].cancelReq]
  <2>2. a \in DispatchType /\ a.job = d.job /\ a.attempts = d.attempts
    BY <1>2 DEF DispatchType
  <2>3. b.job = d.job /\ b.attempts = d.attempts
    BY <1>2 DEF DispatchType
  <2>4. b \in DispatchType
    <3>1. ASSUME NEW x \in BOOLEAN
          PROVE  [d EXCEPT !.cancelSeen = x] \in DispatchType
      BY <1>2 DEF DispatchType
    <3>2. (d.cancelSeen \/ job[d.job].cancelReq) \in BOOLEAN
      OBVIOUS
    <3> QED BY <3>1, <3>2
  <2>5. \/ dispatch' = [dispatch EXCEPT ![p] = (@ \ {d}) \cup {a}]
        \/ dispatch' = [dispatch EXCEPT ![p] = (@ \ {d}) \cup {b}]
    BY <1>3 DEF Renew
  <2> HIDE DEF a, b
  <2>6. Renewed
    BY <1>1, <2>2, <2>3, <2>4, <2>5 DEF Renewed
  <2> QED BY <2>1, <2>6 DEF Kinds, TakesBack
<1>4. ASSUME dispatch' = [dispatch EXCEPT ![p] = @ \ {d}], UNCHANGED job
      PROVE  Kinds
  BY <1>4 DEF Kinds, Vanishes, IInv, TypeOK
<1>5. ASSUME NEW ok \in BOOLEAN, HandlerEnds(p, d, ok)
      PROVE  Kinds
  <2>1. dispatch' = [dispatch EXCEPT ![p] = @ \ {d}] /\ TerminalWrite(p, d, ok)
    BY <1>5 DEF HandlerEnds
  <2>2. CASE UNCHANGED job
    BY <1>4, <2>1, <2>2
  <2>3. CASE ~UNCHANGED job
    <3>1. Decides(p, d)
      BY <1>2, <2>1, <2>3, TerminalWriteDecides DEF IInv, Decides, OwnerGuard
    <3> QED BY <1>1, <3>1 DEF Kinds
  <2> QED BY <2>2, <2>3
<1>6. CASE TerminalWriteFails(p, d)
  BY <1>4, <1>6 DEF TerminalWriteFails
<1> QED BY <1>1, <1>3, <1>5, <1>6

LEMMA StopKinds ==
  ASSUME IInv, NEW p \in Pods, Stop(p)
  PROVE  Kinds
<1>1. CASE Shutdown(p) \/ Drained(p) \/ DrainTimeout(p) \/ ReleasesDone(p) \/ ReleaseLease(p)
  <2>1. UNCHANGED <<job, dispatch>>
    BY <1>1 DEF Shutdown, Drained, DrainTimeout, ReleasesDone, ReleaseLease
  <2> QED BY <2>1, RowsEndStutter DEF Kinds, TakesBack
<1>2. ASSUME NEW c \in toRelease[p], ReleaseClaim(p, c)
      PROVE  Kinds
  <2>1. c.job \in Jobs /\ UNCHANGED dispatch
    BY <1>2 DEF IInv, TypeOK, ClaimType, ReleaseClaim
  <2>2. RowsEnd
    BY <1>2, <2>1, ClaimStatementEnds, RowsEndStutter DEF ReleaseClaim, IInv
  <2> QED BY <2>1, <2>2 DEF Kinds, TakesBack
<1>3. CASE Exit(p) \/ Crash(p)
  BY <1>3 DEF Exit, Crash, Dies, Kinds, Vanishes, IInv, TypeOK
<1> QED BY <1>1, <1>2, <1>3 DEF Stop

LEMMA InlineKinds ==
  ASSUME IInv, NEW p \in Pods, NEW j \in Jobs, Inline(p, j)
  PROVE  Kinds
<1>0. UNCHANGED dispatch /\ job[j] \in JobRow
  BY DEF Inline, RequestCancel, CancelWriteFails, HintEvicted, StartInline, FinishInline, IInv, TypeOK
<1>1. CASE CancelWriteFails(p, j) \/ HintEvicted(p, j)
  BY <1>0, <1>1, RowsEndStutter DEF CancelWriteFails, HintEvicted, Kinds, TakesBack
<1>2. CASE RequestCancel(p, j)
  <2> DEFINE c == [job[j] EXCEPT !.cancelReq = TRUE, !.status = "cancelled",
                                 !.claimedBy = NoPod, !.leaseUntil = "none"]
             f == [job[j] EXCEPT !.cancelReq = TRUE]
  <2>1. c.status = "cancelled" /\ c.attempts = job[j].attempts
    BY <1>0 DEF JobRow
  <2>2. f.status = job[j].status /\ f.attempts = job[j].attempts
    BY <1>0 DEF JobRow
  <2> HIDE DEF c, f
  <2>3. CASE job[j].status = "pending"
    <3>1. SetRow(j, c)
      BY <1>2, <2>3 DEF RequestCancel, FlagCancel, c
    <3>2. job'[j] = c /\ OthersSame(j)
      BY <3>1 DEF SetRow, IInv, TypeOK, OthersSame
    <3>3. Withdraws(j)
      BY <1>0, <2>1, <2>3, <3>2 DEF Withdraws
    <3> QED BY <3>3 DEF Kinds
  <2>4. CASE job[j].status # "pending"
    <3>1. SetRow(j, f)
      BY <1>2, <2>4 DEF RequestCancel, FlagCancel, f
    <3>2. RowsEnd
      BY <2>2, <3>1, SetRowEnds DEF Ends, IInv
    <3> QED BY <1>0, <3>2 DEF Kinds, TakesBack
  <2> QED BY <2>3, <2>4
<1>3. CASE StartInline(p, j)
  <2> DEFINE row == [AbsentRow EXCEPT !.status = "running", !.visible = TRUE]
  <2>1. row.status = "running" /\ row.attempts = 0
    BY DEF AbsentRow
  <2> HIDE DEF row
  <2>2. job[j].status = "absent" /\ job'[j] = row /\ OthersSame(j) /\ j \in InlineJobs
    BY <1>3 DEF StartInline, StartInlineRow, SetRow, IInv, TypeOK, OthersSame, row
  <2>3. Offers(j)
    BY <1>0, <2>1, <2>2 DEF Offers
  <2> QED BY <2>3 DEF Kinds
<1>4. ASSUME NEW s \in Terminal, FinishInline(p, j, s)
      PROVE  Kinds
  BY <1>0, <1>4, FinishInlineEnds DEF FinishInline, IInv, Kinds, TakesBack
<1> QED BY <1>1, <1>2, <1>3, <1>4 DEF Inline

LEMMA EnvironmentKinds ==
  ASSUME IInv, Environment
  PROVE  Kinds
<1>0. UNCHANGED dispatch
  BY DEF Environment, LeaseExpires, ClaimExpires, BackoffOver, Submit, Reap, podVars
<1>1. CASE LeaseExpires
  BY <1>0, <1>1, RowsEndStutter DEF LeaseExpires, Kinds, TakesBack
<1>2. ASSUME NEW j \in Jobs, ClaimExpires(j) \/ BackoffOver(j)
      PROVE  Kinds
  BY <1>0, <1>2, ClaimStatementEnds DEF ClaimExpires, BackoffOver, IInv, Kinds, TakesBack
<1>3. ASSUME NEW j \in Jobs, NEW v \in BOOLEAN, Submit(j, v)
      PROVE  Kinds
  <2> DEFINE row == [AbsentRow EXCEPT !.status = "pending", !.visible = v]
  <2>1. row.status = "pending" /\ row.attempts = 0
    BY DEF AbsentRow
  <2> HIDE DEF row
  <2>2. job[j].status = "absent" /\ job'[j] = row /\ OthersSame(j)
    BY <1>3 DEF Submit, Enqueue, SetRow, IInv, TypeOK, OthersSame, row
  <2>3. Offers(j)
    BY <1>0, <2>1, <2>2 DEF Offers
  <2> QED BY <2>3 DEF Kinds
<1>4. ASSUME NEW c, Reap(c)
      PROVE  Kinds
  BY <1>0, <1>4, ReapEnds DEF Reap, IInv, Kinds, TakesBack
<1> QED BY <1>1, <1>2, <1>3, <1>4 DEF Environment

LEMMA NextKinds ==
  ASSUME IInv, [Next]_vars
  PROVE  Kinds
<1>1. ASSUME NEW p \in Pods, Leadership(p)
      PROVE  Kinds
  <2>1. UNCHANGED <<job, dispatch>>
    BY <1>1 DEF Leadership, Boot, RenewTick, AcquireGranted, AcquireDenied, AcquireReturns
  <2> QED BY <2>1, RowsEndStutter DEF Kinds, TakesBack
<1>2. CASE UNCHANGED vars
  BY <1>2, RowsEndStutter DEF vars, podVars, Kinds, TakesBack
<1> QED BY <1>1, <1>2, PollKinds, HandleKinds, StopKinds, InlineKinds, EnvironmentKinds DEF Next

(* The numbering survives every kind of step. *)
LEMMA FewerNumbered ==
  ASSUME TypeOK, TypeOK', Numbered,
         \A q \in Pods : dispatch'[q] \subseteq dispatch[q],
         \A k \in Jobs : job'[k].attempts >= job[k].attempts
  PROVE  Numbered'
<1>1. ASSUME NEW q \in Pods, NEW d \in dispatch'[q]
      PROVE  1 <= d.attempts /\ d.attempts <= job'[d.job].attempts
  <2>1. d \in dispatch[q]
    OBVIOUS
  <2>2. d.job \in Jobs /\ d.attempts \in Nat
    BY <2>1 DEF TypeOK, DispatchType
  <2>3. job[d.job].attempts \in Nat /\ job'[d.job].attempts \in Nat
    BY <2>2 DEF TypeOK, JobRow
  <2>4. 1 <= d.attempts /\ d.attempts <= job[d.job].attempts /\ job'[d.job].attempts >= job[d.job].attempts
    BY <2>1, <2>2 DEF Numbered
  <2> QED BY <2>2, <2>3, <2>4
<1> QED BY <1>1 DEF Numbered

LEMMA KindsNumbered ==
  ASSUME IInv, TypeOK', LedgerInv, Kinds
  PROVE  LedgerInv'
<1>0. TypeOK /\ \A k \in Jobs : job[k].attempts \in Nat /\ job'[k].attempts \in Nat
  BY DEF IInv, TypeOK, JobRow
<1>1. CASE TakesBack
  <2>1. AbsentUnclaimed'
    BY <1>1 DEF LedgerInv, AbsentUnclaimed, TakesBack, RowsEnd, Ends, Terminal
  <2>2. \A k \in Jobs : job'[k].attempts = job[k].attempts
    BY <1>1 DEF TakesBack, RowsEnd, Ends
  <2>3. CASE UNCHANGED dispatch
    BY <1>0, <2>1, <2>2, <2>3, FewerNumbered DEF LedgerInv
  <2>4. CASE Renewed
    <3>0. PICK p \in Pods : \E d \in dispatch[p], n \in DispatchType :
            /\ n.job = d.job /\ n.attempts = d.attempts
            /\ dispatch' = [dispatch EXCEPT ![p] = (@ \ {d}) \cup {n}]
      BY <2>4 DEF Renewed
    <3>1. PICK d \in dispatch[p], n \in DispatchType :
            /\ n.job = d.job /\ n.attempts = d.attempts
            /\ dispatch' = [dispatch EXCEPT ![p] = (@ \ {d}) \cup {n}]
      BY <3>0
    <3>2. \A q \in Pods : /\ q # p => dispatch'[q] = dispatch[q]
                          /\ q = p => dispatch'[q] = (dispatch[q] \ {d}) \cup {n}
      BY <1>0, <3>1 DEF TypeOK
    <3>3. ASSUME NEW q \in Pods, NEW x \in dispatch'[q]
          PROVE  1 <= x.attempts /\ x.attempts <= job'[x.job].attempts
      <4>1. PICK y \in dispatch[q] : y.job = x.job /\ y.attempts = x.attempts
        BY <3>1, <3>2
      <4>2. y.job \in Jobs
        BY <1>0 DEF TypeOK, DispatchType
      <4> QED BY <2>2, <4>1, <4>2 DEF LedgerInv, Numbered
    <3>4. ASSUME NEW q \in Pods, NEW u \in Pods, NEW x \in dispatch'[q], NEW y \in dispatch'[u],
                 x.job = y.job, x.attempts = y.attempts
          PROVE  q = u /\ x = y
      <4>1. x \in dispatch[q] \ {d} \/ (x = n /\ q = p) \/ (q # p /\ x \in dispatch[q])
        BY <3>2
      <4>2. y \in dispatch[u] \ {d} \/ (y = n /\ u = p) \/ (u # p /\ y \in dispatch[u])
        BY <3>2
      <4>3. \A a, b \in Pods : \A v \in dispatch[a], w \in dispatch[b] :
              v.job = w.job /\ v.attempts = w.attempts => a = b /\ v = w
        BY DEF LedgerInv, Numbered
      <4> QED BY <3>1, <3>4, <4>1, <4>2, <4>3
    <3> QED BY <2>1, <3>3, <3>4 DEF LedgerInv, Numbered
  <2> QED BY <1>1, <2>3, <2>4 DEF TakesBack
<1>2. CASE Vanishes
  BY <1>0, <1>2, FewerNumbered DEF LedgerInv, AbsentUnclaimed, Vanishes
<1>3. ASSUME NEW j \in Jobs, Offers(j) \/ Withdraws(j)
      PROVE  LedgerInv'
  <2>1. \A k \in Jobs : job'[k].attempts = job[k].attempts
    BY <1>3 DEF Offers, Withdraws, OthersSame, LedgerInv, AbsentUnclaimed
  <2>2. AbsentUnclaimed'
    BY <1>3 DEF Offers, Withdraws, OthersSame, LedgerInv, AbsentUnclaimed
  <2>3. UNCHANGED dispatch
    BY <1>3 DEF Offers, Withdraws
  <2> QED BY <1>0, <2>1, <2>2, <2>3, FewerNumbered DEF LedgerInv
<1>4. ASSUME NEW j \in Jobs, NEW p \in Pods, Takes(p, j)
      PROVE  LedgerInv'
  <2>1. /\ job'[j].attempts = job[j].attempts + 1
        /\ \A k \in Jobs \ {j} : job'[k] = job[k]
    BY <1>4 DEF Takes, OthersSame
  <2>2. AbsentUnclaimed'
    BY <1>4 DEF Takes, OthersSame, LedgerInv, AbsentUnclaimed
  <2>3. \A k \in Jobs : job'[k].attempts >= job[k].attempts
    BY <1>0, <2>1
  <2>4. CASE UNCHANGED dispatch
    BY <1>0, <2>2, <2>3, <2>4, FewerNumbered DEF LedgerInv
  <2>5. ASSUME NEW n \in DispatchType, n.job = j, n.attempts = job[j].attempts + 1,
               dispatch' = [dispatch EXCEPT ![p] = @ \cup {n}]
        PROVE  Numbered'
    <3>1. \A q \in Pods : /\ q # p => dispatch'[q] = dispatch[q]
                          /\ q = p => dispatch'[q] = dispatch[q] \cup {n}
      BY <1>0, <2>5 DEF TypeOK
    <3>2. ASSUME NEW q \in Pods, NEW x \in dispatch[q]
          PROVE  /\ x.job \in Jobs /\ x.attempts \in Nat
                 /\ 1 <= x.attempts /\ x.attempts <= job[x.job].attempts
      BY <1>0 DEF TypeOK, DispatchType, LedgerInv, Numbered
    <3>3. \A q \in Pods : \A x \in dispatch[q] : x.job = j => x.attempts # n.attempts
      BY <1>0, <2>5, <3>2
    <3>4. ASSUME NEW q \in Pods, NEW x \in dispatch'[q]
          PROVE  1 <= x.attempts /\ x.attempts <= job'[x.job].attempts
      <4>1. CASE x = n
        BY <1>0, <2>1, <2>5, <4>1
      <4>2. CASE x \in dispatch[q]
        <5>1. job[x.job].attempts \in Nat /\ job'[x.job].attempts \in Nat
              /\ job'[x.job].attempts >= job[x.job].attempts
          BY <1>0, <2>3, <3>2, <4>2
        <5> QED BY <3>2, <4>2, <5>1
      <4> QED BY <3>1, <4>1, <4>2
    <3>5. ASSUME NEW q \in Pods, NEW u \in Pods, NEW x \in dispatch'[q], NEW y \in dispatch'[u],
                 x.job = y.job, x.attempts = y.attempts
          PROVE  q = u /\ x = y
      <4>1. \A a, b \in Pods : \A v \in dispatch[a], w \in dispatch[b] :
              v.job = w.job /\ v.attempts = w.attempts => a = b /\ v = w
        BY DEF LedgerInv, Numbered
      <4> QED BY <2>5, <3>1, <3>3, <3>5, <4>1
    <3> QED BY <3>4, <3>5 DEF Numbered
  <2> QED BY <1>4, <2>2, <2>4, <2>5 DEF Takes, LedgerInv
<1>5. ASSUME NEW p \in Pods, NEW d \in dispatch[p], Decides(p, d)
      PROVE  LedgerInv'
  <2>1. d.job \in Jobs
    BY <1>0 DEF TypeOK, DispatchType
  <2>2. \A k \in Jobs : job'[k].attempts = job[k].attempts
    BY <1>5 DEF Decides, OthersSame
  <2>3. AbsentUnclaimed'
    BY <1>5, <2>1 DEF Decides, OthersSame, LedgerInv, AbsentUnclaimed, Terminal
  <2>4. \A q \in Pods : dispatch'[q] \subseteq dispatch[q]
    BY <1>0, <1>5 DEF Decides, TypeOK
  <2> QED BY <1>0, <2>2, <2>3, <2>4, FewerNumbered DEF LedgerInv
<1> QED BY <1>1, <1>2, <1>3, <1>4, <1>5 DEF Kinds

(* What the ledger sees of a row. *)
LEMMA StateOf ==
  ASSUME TypeOK, NEW j \in Jobs
  PROVE  /\ LedgerState(j) \in {"absent", "queued", "held", "settled"}
         /\ LedgerState(j) = "absent" <=> job[j].status = "absent"
         /\ LedgerState(j) = "queued" <=> job[j].status = "pending"
         /\ LedgerState(j) = "held" <=> job[j].status = "running"
         /\ LedgerState(j) = "settled" <=> job[j].status \in Terminal
<1>1. job[j].status \in Statuses
  BY DEF TypeOK, JobRow
<1> QED BY <1>1 DEF LedgerState, Statuses, Terminal

LEMMA StateOfNext ==
  ASSUME TypeOK', NEW j \in Jobs
  PROVE  /\ LedgerState(j)' \in {"absent", "queued", "held", "settled"}
         /\ LedgerState(j)' = "absent" <=> job'[j].status = "absent"
         /\ LedgerState(j)' = "queued" <=> job'[j].status = "pending"
         /\ LedgerState(j)' = "held" <=> job'[j].status = "running"
         /\ LedgerState(j)' = "settled" <=> job'[j].status \in Terminal
<1>1. job'[j].status \in Statuses
  BY DEF TypeOK, JobRow
<1> QED BY <1>1 DEF LedgerState, Statuses, Terminal

(* Rows left alone or taken back, the same claims at work: a TakeBack. *)
LEMMA TakeBackStep ==
  ASSUME TypeOK, TypeOK',
         \A k \in Queued : Ends(job[k], job'[k]) /\ Workers(k)' = Workers(k)
  PROVE  Ledger!TakeBack
<1>1. ASSUME NEW k \in Queued
      PROVE  /\ LedgerState(k)' = LedgerState(k) \/ (LedgerState(k) = "held" /\ LedgerState(k)' \in {"queued", "settled"})
             /\ LedgerState(k)' \in {"absent", "queued", "held", "settled"}
             /\ job'[k].attempts = job[k].attempts
  <2>1. k \in Jobs
    BY DEF Queued
  <2> QED BY <2>1, StateOf, StateOfNext DEF Ends
<1>2. UNCHANGED [j \in Queued |-> job[j].attempts]
  BY <1>1
<1>3. UNCHANGED [j \in Queued |-> Workers(j)]
  OBVIOUS
<1>4. [j \in Queued |-> LedgerState(j)]' \in [Queued -> {"absent", "queued", "held", "settled"}]
  BY <1>1
<1> QED BY <1>1, <1>2, <1>3, <1>4 DEF Ledger!TakeBack

LEMMA VanishStep ==
  ASSUME UNCHANGED job, \A k \in Queued : Workers(k)' \subseteq Workers(k)
  PROVE  Ledger!Vanish
BY DEF Ledger!Vanish, LedgerState

(* A number is at work exactly when some dispatch carries it. *)
LEMMA WorkersOf ==
  ASSUME TypeOK, Numbered, NEW j \in Jobs, NEW n
  PROVE  n \in Workers(j) <=> \E p \in Pods : \E d \in dispatch[p] : d.job = j /\ d.attempts = n
<1>1. ASSUME NEW p \in Pods, NEW d \in dispatch[p], d.job = j
      PROVE  d.attempts \in 1..job[j].attempts
  <2>1. d.attempts \in Nat /\ job[j].attempts \in Nat
    BY DEF TypeOK, DispatchType, JobRow
  <2> QED BY <1>1, <2>1 DEF Numbered
<1> QED BY <1>1 DEF Workers

LEMMA WorkersOfNext ==
  ASSUME TypeOK', Numbered', NEW j \in Jobs, NEW n
  PROVE  n \in Workers(j)' <=> \E p \in Pods : \E d \in dispatch'[p] : d.job = j /\ d.attempts = n
<1>1. ASSUME NEW p \in Pods, NEW d \in dispatch'[p], d.job = j
      PROVE  d.attempts \in 1..job'[j].attempts
  <2>1. d.attempts \in Nat /\ job'[j].attempts \in Nat
    BY DEF TypeOK, DispatchType, JobRow
  <2> QED BY <1>1, <2>1 DEF Numbered
<1> QED BY <1>1 DEF Workers

LEMMA TakesBackMaps ==
  ASSUME TypeOK, TypeOK', Numbered, Numbered', TakesBack
  PROVE  Ledger!TakeBack
<1>1. ASSUME NEW k \in Jobs
      PROVE  Workers(k)' = Workers(k)
  <2>1. CASE UNCHANGED dispatch
    BY <2>1, WorkersOf, WorkersOfNext
  <2>2. CASE Renewed
    <3>0. PICK p \in Pods : \E d \in dispatch[p], n \in DispatchType :
            /\ n.job = d.job /\ n.attempts = d.attempts
            /\ dispatch' = [dispatch EXCEPT ![p] = (@ \ {d}) \cup {n}]
      BY <2>2 DEF Renewed
    <3>1. PICK d \in dispatch[p], n \in DispatchType :
            /\ n.job = d.job /\ n.attempts = d.attempts
            /\ dispatch' = [dispatch EXCEPT ![p] = (@ \ {d}) \cup {n}]
      BY <3>0
    <3>2. \A q \in Pods : /\ q # p => dispatch'[q] = dispatch[q]
                          /\ q = p => dispatch'[q] = (dispatch[q] \ {d}) \cup {n}
      BY <3>1 DEF TypeOK
    <3>3. \A q \in Pods : \A x \in dispatch'[q] : \E y \in dispatch[q] : y.job = x.job /\ y.attempts = x.attempts
      BY <3>1, <3>2
    <3>4. \A q \in Pods : \A y \in dispatch[q] : \E x \in dispatch'[q] : y.job = x.job /\ y.attempts = x.attempts
      BY <3>1, <3>2
    <3>5. ASSUME NEW m PROVE m \in Workers(k)' <=> m \in Workers(k)
      <4>1. m \in Workers(k) <=> \E q \in Pods : \E x \in dispatch[q] : x.job = k /\ x.attempts = m
        BY WorkersOf
      <4>2. m \in Workers(k)' <=> \E q \in Pods : \E x \in dispatch'[q] : x.job = k /\ x.attempts = m
        BY WorkersOfNext
      <4> QED BY <3>3, <3>4, <4>1, <4>2
    <3> QED BY <3>5
  <2> QED BY <2>1, <2>2 DEF TakesBack
<1> QED BY <1>1, TakeBackStep DEF TakesBack, RowsEnd, Queued

LEMMA VanishesMaps ==
  ASSUME TypeOK, TypeOK', Numbered, Numbered', Vanishes
  PROVE  Ledger!Vanish
<1>1. ASSUME NEW k \in Jobs, NEW m \in Workers(k)'
      PROVE  m \in Workers(k)
  BY WorkersOf, WorkersOfNext DEF Vanishes
<1> QED BY <1>1, VanishStep DEF Vanishes, Queued

(* A row offered or cancelled while it waits. *)
LEMMA WaitingMaps ==
  ASSUME TypeOK, TypeOK', LedgerInv, LedgerInv', NEW j \in Jobs, Offers(j) \/ Withdraws(j)
  PROVE  Ledger!LedgerNext
<1>1. /\ \A k \in Jobs : job'[k].attempts = job[k].attempts
      /\ \A k \in Jobs \ {j} : job'[k] = job[k]
      /\ UNCHANGED dispatch
  BY DEF Offers, Withdraws, OthersSame, LedgerInv, AbsentUnclaimed
<1>2. \A k \in Jobs : Workers(k)' = Workers(k)
  BY <1>1 DEF Workers
<1>3. CASE j \notin Queued
  <2>1. \A k \in Queued : Ends(job[k], job'[k])
    BY <1>1, <1>3 DEF Ends, Queued
  <2> QED BY <1>2, <2>1, TakeBackStep DEF Ledger!LedgerNext, Queued
<1>4. CASE j \in Queued
  <2>1. /\ UNCHANGED [k \in Queued |-> job[k].attempts]
        /\ UNCHANGED [k \in Queued |-> Workers(k)]
    BY <1>1, <1>2 DEF Queued
  <2>2. \A k \in Queued \ {j} : LedgerState(k)' = LedgerState(k)
    BY <1>1, StateOf, StateOfNext DEF Queued
  <2>3. CASE Offers(j)
    <3>1. LedgerState(j) = "absent" /\ LedgerState(j)' = "queued"
      BY <1>4, <2>3, StateOf, StateOfNext DEF Offers, Queued
    <3>2. Ledger!Offer(j)
      BY <1>4, <2>1, <2>2, <3>1 DEF Ledger!Offer
    <3> QED BY <1>4, <3>2 DEF Ledger!LedgerNext
  <2>4. CASE Withdraws(j)
    <3>1. LedgerState(j) = "queued" /\ LedgerState(j)' = "settled"
      BY <1>4, <2>4, StateOf, StateOfNext DEF Withdraws, Queued, Terminal
    <3>2. Ledger!Withdraw(j)
      BY <1>4, <2>1, <2>2, <3>1 DEF Ledger!Withdraw
    <3> QED BY <1>4, <3>2 DEF Ledger!LedgerNext
  <2> QED BY <2>3, <2>4
<1> QED BY <1>3, <1>4

LEMMA TakesMaps ==
  ASSUME TypeOK, TypeOK', LedgerInv, LedgerInv', NEW p \in Pods, NEW j \in Jobs, Takes(p, j)
  PROVE  Ledger!LedgerNext
<1>1. /\ job'[j].attempts = job[j].attempts + 1 /\ job[j].attempts \in Nat
      /\ \A k \in Jobs \ {j} : job'[k] = job[k]
  BY DEF Takes, OthersSame, TypeOK, JobRow
<1>2. \/ UNCHANGED dispatch
      \/ \E n \in DispatchType :
           /\ n.job = j /\ n.attempts = job[j].attempts + 1
           /\ \A q \in Pods : /\ q # p => dispatch'[q] = dispatch[q]
                              /\ q = p => dispatch'[q] = dispatch[q] \cup {n}
  BY DEF Takes, TypeOK
<1>3. ASSUME NEW k \in Jobs, k # j PROVE Workers(k)' = Workers(k)
  <2>1. ASSUME NEW m PROVE m \in Workers(k)' <=> m \in Workers(k)
    <3>1. m \in Workers(k) <=> \E q \in Pods : \E x \in dispatch[q] : x.job = k /\ x.attempts = m
      BY WorkersOf DEF LedgerInv
    <3>2. m \in Workers(k)' <=> \E q \in Pods : \E x \in dispatch'[q] : x.job = k /\ x.attempts = m
      BY WorkersOfNext DEF LedgerInv
    <3> QED BY <1>2, <1>3, <3>1, <3>2
  <2> QED BY <2>1
<1>4. Workers(j)' = Workers(j) \/ Workers(j)' = Workers(j) \cup {job[j].attempts + 1}
  <2>1. \A m : m \in Workers(j) <=> \E q \in Pods : \E x \in dispatch[q] : x.job = j /\ x.attempts = m
    BY WorkersOf DEF LedgerInv
  <2>2. \A m : m \in Workers(j)' <=> \E q \in Pods : \E x \in dispatch'[q] : x.job = j /\ x.attempts = m
    BY WorkersOfNext DEF LedgerInv
  <2>3. CASE UNCHANGED dispatch
    <3>1. \A m : m \in Workers(j)' <=> m \in Workers(j)
      BY <2>1, <2>2, <2>3
    <3> QED BY <3>1
  <2>4. ASSUME NEW n \in DispatchType, n.job = j, n.attempts = job[j].attempts + 1,
               \A q \in Pods : /\ q # p => dispatch'[q] = dispatch[q]
                               /\ q = p => dispatch'[q] = dispatch[q] \cup {n}
        PROVE  Workers(j)' = Workers(j) \cup {job[j].attempts + 1}
    <3>1. \A m : m \in Workers(j)' <=> m \in Workers(j) \/ m = n.attempts
      BY <2>1, <2>2, <2>4
    <3> QED BY <2>4, <3>1
  <2> QED BY <1>2, <2>3, <2>4
<1>5. CASE j \notin Queued
  <2>1. \A k \in Queued : k \in Jobs /\ k # j
    BY <1>5 DEF Queued
  <2>2. \A k \in Queued : Ends(job[k], job'[k]) /\ Workers(k)' = Workers(k)
    BY <1>1, <1>3, <2>1 DEF Ends
  <2> QED BY <2>2, TakeBackStep DEF Ledger!LedgerNext
<1>6. CASE j \in Queued
  <2>1. \A k \in Queued \ {j} : /\ LedgerState(k)' = LedgerState(k)
                                /\ job'[k].attempts = job[k].attempts
                                /\ Workers(k)' = Workers(k)
    BY <1>1, <1>3, StateOf, StateOfNext DEF Queued
  <2>2. LedgerState(j) = "queued" /\ LedgerState(j)' = "held"
    BY StateOf, StateOfNext DEF Takes
  <2>3. \/ UNCHANGED [k \in Queued |-> Workers(k)]
        \/ [k \in Queued |-> Workers(k)]' =
             [[k \in Queued |-> Workers(k)] EXCEPT ![j] = @ \cup {job[j].attempts + 1}]
    BY <1>4, <1>6, <2>1
  <2>4. [k \in Queued |-> job[k].attempts]' = [[k \in Queued |-> job[k].attempts] EXCEPT ![j] = @ + 1]
    BY <1>1, <1>6, <2>1
  <2>5. [k \in Queued |-> LedgerState(k)]' = [[k \in Queued |-> LedgerState(k)] EXCEPT ![j] = "held"]
    BY <1>6, <2>1, <2>2
  <2>6. Ledger!Take(j)
    BY <1>6, <2>2, <2>3, <2>4, <2>5 DEF Ledger!Take
  <2> QED BY <1>6, <2>6 DEF Ledger!LedgerNext
<1> QED BY <1>5, <1>6

(* The end of a handler whose guard held: it had the latest number. *)
LEMMA DecidesMaps ==
  ASSUME TypeOK, TypeOK', LatestClaim, LedgerInv, LedgerInv',
         NEW p \in Pods, NEW d \in dispatch[p], Decides(p, d)
  PROVE  Ledger!LedgerNext
<1> DEFINE j == d.job
<1>1. /\ j \in Jobs /\ d.attempts = job[j].attempts
      /\ job'[j].attempts = job[j].attempts
      /\ \A k \in Jobs \ {j} : job'[k] = job[k]
  BY DEF Decides, OthersSame, TypeOK, DispatchType, LatestClaim
<1>2. \A q \in Pods : /\ q # p => dispatch'[q] = dispatch[q]
                      /\ q = p => dispatch'[q] = dispatch[q] \ {d}
  BY DEF Decides, TypeOK
<1>3. \A q \in Pods : \A x \in dispatch[q] : x.job = j /\ x.attempts = d.attempts => q = p /\ x = d
  BY DEF LedgerInv, Numbered
<1>4. ASSUME NEW k \in Jobs, NEW m
      PROVE  /\ m \in Workers(k) <=> \E q \in Pods : \E x \in dispatch[q] : x.job = k /\ x.attempts = m
             /\ m \in Workers(k)' <=> \E q \in Pods : \E x \in dispatch'[q] : x.job = k /\ x.attempts = m
  BY WorkersOf, WorkersOfNext DEF LedgerInv
<1> HIDE DEF j
<1>5. ASSUME NEW k \in Jobs, k # j PROVE Workers(k)' = Workers(k)
  <2>1. ASSUME NEW m PROVE m \in Workers(k)' <=> m \in Workers(k)
    BY <1>2, <1>4, <1>5 DEF j
  <2> QED BY <2>1
<1>6. Workers(j)' = Workers(j) \ {d.attempts} /\ d.attempts \in Workers(j)
  <2>1. ASSUME NEW m PROVE m \in Workers(j)' <=> m \in Workers(j) /\ m # d.attempts
    BY <1>1, <1>2, <1>3, <1>4
  <2>2. d.attempts \in Workers(j)
    BY <1>1, <1>4 DEF j
  <2> QED BY <2>1, <2>2
<1>7. CASE j \notin Queued
  <2>1. \A k \in Queued : k \in Jobs /\ k # j
    BY <1>7 DEF Queued
  <2>2. \A k \in Queued : Ends(job[k], job'[k]) /\ Workers(k)' = Workers(k)
    BY <1>1, <1>5, <2>1 DEF Ends
  <2> QED BY <2>2, TakeBackStep DEF Ledger!LedgerNext
<1>8. CASE j \in Queued
  <2>1. \A k \in Queued \ {j} : /\ LedgerState(k)' = LedgerState(k)
                                /\ job'[k].attempts = job[k].attempts
                                /\ Workers(k)' = Workers(k)
    BY <1>1, <1>5, StateOf, StateOfNext DEF Queued
  <2>2. LedgerState(j) = "held" /\ LedgerState(j)' \in {"queued", "settled"}
    BY <1>1, StateOf, StateOfNext DEF Decides, j
  <2>3. [k \in Queued |-> Workers(k)]' = [[k \in Queued |-> Workers(k)] EXCEPT ![j] = @ \ {d.attempts}]
    BY <1>6, <1>8, <2>1
  <2>4. UNCHANGED [k \in Queued |-> job[k].attempts]
    BY <1>1, <1>8, <2>1
  <2>5. \E s \in {"queued", "settled"} :
          [k \in Queued |-> LedgerState(k)]' = [[k \in Queued |-> LedgerState(k)] EXCEPT ![j] = s]
    BY <1>8, <2>1, <2>2
  <2>6. Ledger!Decide(j, d.attempts)
    BY <1>1, <1>6, <1>8, <2>2, <2>3, <2>4, <2>5 DEF Ledger!Decide
  <2> QED BY <1>6, <1>8, <2>6 DEF Ledger!LedgerNext
<1> QED BY <1>7, <1>8

LEMMA LedgerStep ==
  ASSUME IInv, IInv', LatestClaim, LedgerInv, LedgerInv', Kinds
  PROVE  Ledger!LedgerNext
<1>0. TypeOK /\ TypeOK' /\ Numbered /\ Numbered'
  BY DEF IInv, LedgerInv
<1>1. CASE TakesBack
  BY <1>0, <1>1, TakesBackMaps DEF Ledger!LedgerNext
<1>2. CASE Vanishes
  BY <1>0, <1>2, VanishesMaps DEF Ledger!LedgerNext
<1> QED BY <1>0, <1>1, <1>2, WaitingMaps, TakesMaps, DecidesMaps DEF Kinds

LEMMA LedgerStart ==
  ASSUME Init
  PROVE  LedgerInv /\ Ledger!LedgerInit
<1>1. LedgerInv
  BY DEF Init, JobInit, AbsentRow, LedgerInv, Numbered, AbsentUnclaimed
<1>2. \A j \in Queued : job[j] = AbsentRow
  BY DEF Init, JobInit, Queued
<1>3. \A j \in Queued : LedgerState(j) = "absent" /\ job[j].attempts = 0 /\ Workers(j) = {}
  BY <1>2 DEF LedgerState, AbsentRow, Workers, Init
<1> QED BY <1>1, <1>3 DEF Ledger!LedgerInit

(* The queue implements the ledger of claims, for any number of pods, jobs,   *)
(* crashes, shutdowns and epochs, with one dispatch per tenant (the default): *)
(* a row is decided only by the worker of its latest claim, although the      *)
(* guard of its write never compares the number (job-claim.service.ts,        *)
(* ownerGuard).                                                               *)
THEOREM ImplementsLedgerCorrect == TenantMax = 1 => (Spec => ImplementsLedger)
<1> SUFFICES ASSUME TenantMax = 1 PROVE Spec => ImplementsLedger
  OBVIOUS
<1> DEFINE Inv == IInv /\ LatestClaim /\ LedgerInv
<1>1. Init => Inv /\ Ledger!LedgerInit
  BY InitIInv, LedgerStart
<1>2. Inv /\ [Next]_vars => Inv' /\ [Ledger!LedgerNext]_(Ledger!ledger)
  <2> SUFFICES ASSUME Inv, [Next]_vars PROVE Inv' /\ Ledger!LedgerNext
    OBVIOUS
  <2>1. IInv' /\ LatestClaim'
    BY NextKept DEF Kept
  <2>2. Kinds
    BY NextKinds
  <2>3. LedgerInv'
    BY <2>1, <2>2, KindsNumbered DEF IInv
  <2> QED BY <2>1, <2>2, <2>3, LedgerStep
<1> QED BY <1>1, <1>2, PTL DEF Spec, ImplementsLedger, Ledger!LedgerSpec
=============================================================================
