-------------------------- MODULE WorkerCapsProofs --------------------------
(***************************************************************************)
(* CapsRespected for any number of pods, job types and jobs, and any caps. *)
(* The caps are tested before a claim is sent and the dispatch is added    *)
(* after it is answered; the invariant says what a claim in flight stands  *)
(* for: a reserved place in the count of its job type and, through         *)
(* GlobalInFlight, in that of the process.  The last part bounds the       *)
(* attempts of a row (AttemptsBounded).                                    *)
(***************************************************************************)
EXTENDS WorkerLoopProofs

(* The loops of p that hold a reserved slot. *)
Reserved(p) == {t \in JobTypes : loop[p][t].st = "claiming"}

GlobalCap(p) ==
  GlobalMax > 0 => Cardinality(dispatch[p]) + Cardinality(Reserved(p)) <= GlobalMax

TypeCap(p, t) ==
  /\ Cardinality(Busy(p, t)) <= MaxConcurrent
  /\ t \in Reserved(p) => Cardinality(Busy(p, t)) < MaxConcurrent

CapInv(p) == GlobalCap(p) /\ \A t \in JobTypes : TypeCap(p, t)

(* A step takes nothing new on pod p: no count grows, no slot is reserved. *)
Relaxes(p) ==
  /\ Cardinality(dispatch'[p]) <= Cardinality(dispatch[p])
  /\ \A t \in JobTypes : Cardinality(Busy(p, t)') <= Cardinality(Busy(p, t))
  /\ Reserved(p)' \subseteq Reserved(p)

LEMMA FiniteCounts ==
  ASSUME IsFiniteSet(JobTypes), FiniteDispatch, NEW p \in Pods
  PROVE  /\ IsFiniteSet(dispatch[p]) /\ Cardinality(dispatch[p]) \in Nat
         /\ IsFiniteSet(Reserved(p)) /\ Cardinality(Reserved(p)) \in Nat
         /\ \A t \in JobTypes : IsFiniteSet(Busy(p, t)) /\ Cardinality(Busy(p, t)) \in Nat
<1>1. IsFiniteSet(dispatch[p]) /\ Reserved(p) \in SUBSET JobTypes
  BY DEF FiniteDispatch, Reserved
<1>2. \A t \in JobTypes : Busy(p, t) \in SUBSET dispatch[p]
  BY DEF Busy
<1> QED BY <1>1, <1>2, FS_Subset, FS_CardinalityType

LEMMA FiniteCountsPrime ==
  ASSUME IsFiniteSet(JobTypes), FiniteDispatch', NEW p \in Pods
  PROVE  /\ IsFiniteSet(dispatch'[p]) /\ Cardinality(dispatch'[p]) \in Nat
         /\ IsFiniteSet(Reserved(p)') /\ Cardinality(Reserved(p)') \in Nat
         /\ \A t \in JobTypes : IsFiniteSet(Busy(p, t)') /\ Cardinality(Busy(p, t)') \in Nat
<1>1. IsFiniteSet(dispatch'[p]) /\ Reserved(p)' \in SUBSET JobTypes
  BY DEF FiniteDispatch, Reserved
<1>2. \A t \in JobTypes : Busy(p, t)' \in SUBSET dispatch'[p]
  BY DEF Busy
<1> QED BY <1>1, <1>2, FS_Subset, FS_CardinalityType

LEMMA RelaxKeeps ==
  ASSUME IsFiniteSet(JobTypes), FiniteDispatch, FiniteDispatch', NEW p \in Pods, CapInv(p), Relaxes(p)
  PROVE  CapInv(p)'
<1>1. Cardinality(Reserved(p)') <= Cardinality(Reserved(p))
  BY FiniteCounts, FS_Subset DEF Relaxes
<1>2. GlobalCap(p)'
  <2> DEFINE n == Cardinality(dispatch[p])
             m == Cardinality(dispatch'[p])
             k == Cardinality(Reserved(p))
             l == Cardinality(Reserved(p)')
  <2>1. n \in Nat /\ m \in Nat /\ k \in Nat /\ l \in Nat /\ m <= n /\ l <= k /\ GlobalMax \in Nat
    BY <1>1, FiniteCounts, FiniteCountsPrime, LoopAssumption DEF Relaxes
  <2>2. GlobalMax > 0 => n + k <= GlobalMax
    BY DEF CapInv, GlobalCap
  <2> HIDE DEF n, m, k, l
  <2>3. GlobalMax > 0 => m + l <= GlobalMax
    BY <2>1, <2>2
  <2> QED BY <2>3 DEF GlobalCap, m, l
<1>3. ASSUME NEW t \in JobTypes PROVE TypeCap(p, t)'
  <2> DEFINE n == Cardinality(Busy(p, t))
             m == Cardinality(Busy(p, t)')
  <2>1. n \in Nat /\ m \in Nat /\ m <= n /\ MaxConcurrent \in Nat
    BY FiniteCounts, FiniteCountsPrime, LoopAssumption DEF Relaxes
  <2>2. n <= MaxConcurrent /\ (t \in Reserved(p) => n < MaxConcurrent)
    BY DEF CapInv, TypeCap
  <2>3. t \in Reserved(p)' => t \in Reserved(p)
    BY DEF Relaxes
  <2> HIDE DEF n, m
  <2>4. m <= MaxConcurrent /\ (t \in Reserved(p)' => m < MaxConcurrent)
    BY <2>1, <2>2, <2>3
  <2> QED BY <2>4 DEF TypeCap, m
<1> QED BY <1>2, <1>3 DEF CapInv

(* A pod that only gives dispatches up, or none, and reserves nothing. *)
LEMMA FewerRelaxes ==
  ASSUME IsFiniteSet(JobTypes), FiniteDispatch, NEW p \in Pods,
         dispatch'[p] \subseteq dispatch[p], Reserved(p)' \subseteq Reserved(p)
  PROVE  Relaxes(p)
<1>1. \A t \in JobTypes : Busy(p, t)' \in SUBSET Busy(p, t)
  BY DEF Busy
<1> QED BY <1>1, FiniteCounts, FS_Subset DEF Relaxes

(* A renew replaces a dispatch by one of the same job. *)
LEMMA RenewRelaxes ==
  ASSUME IsFiniteSet(JobTypes), FiniteDispatch, NEW p \in Pods, NEW d \in dispatch[p], NEW e,
         e.job = d.job, dispatch'[p] = (dispatch[p] \ {d}) \cup {e}, loop' = loop
  PROVE  Relaxes(p)
<1>1. ASSUME NEW S, IsFiniteSet(S), d \in S
      PROVE  Cardinality((S \ {d}) \cup {e}) <= Cardinality(S)
  <2>1. IsFiniteSet(S \ {d}) /\ Cardinality(S \ {d}) = Cardinality(S) - 1 /\ Cardinality(S) \in Nat
    BY <1>1, FS_RemoveElement, FS_CardinalityType
  <2>2. \/ Cardinality((S \ {d}) \cup {e}) = Cardinality(S \ {d})
        \/ Cardinality((S \ {d}) \cup {e}) = Cardinality(S \ {d}) + 1
    BY <2>1, FS_AddElement
  <2> QED BY <2>1, <2>2
<1>2. Cardinality(dispatch'[p]) <= Cardinality(dispatch[p])
  BY <1>1, FiniteCounts
<1>3. ASSUME NEW t \in JobTypes PROVE Cardinality(Busy(p, t)') <= Cardinality(Busy(p, t))
  <2>0. IsFiniteSet(Busy(p, t)) /\ Cardinality(Busy(p, t)) \in Nat
    BY FiniteCounts
  <2>1. CASE TypeOf[d.job] = t
    <3>1. d \in Busy(p, t) /\ Busy(p, t)' = (Busy(p, t) \ {d}) \cup {e}
      BY <2>1 DEF Busy
    <3> QED BY <1>1, <2>0, <3>1
  <2>2. CASE TypeOf[d.job] # t
    <3>1. Busy(p, t)' = Busy(p, t)
      BY <2>2 DEF Busy
    <3> QED BY <2>0, <3>1
  <2> QED BY <2>1, <2>2
<1> QED BY <1>2, <1>3 DEF Relaxes, Reserved

-----------------------------------------------------------------------------
(* The slot is reserved: the caps were not reached. *)
LEMMA BeginKeeps ==
  ASSUME IsFiniteSet(JobTypes), IInv, IInv', NEW p \in Pods, NEW t \in JobTypes, BeginClaim(p, t),
         CapInv(p)
  PROVE  CapInv(p)'
<1>0. loop \in [Pods -> [JobTypes -> LoopType]] /\ FiniteDispatch /\ FiniteDispatch'
  BY DEF IInv, TypeOK
<1>1. CASE Saturated(p, t) \/ Aborted(p) \/ ~isLeader[p]
  <2>1. Reserved(p)' \subseteq Reserved(p) /\ dispatch'[p] = dispatch[p]
    BY <1>0, <1>1 DEF BeginClaim, SetLoop, LoopAt, Reserved
  <2> QED BY <1>0, <2>1, FewerRelaxes, RelaxKeeps
<1>2. CASE ~(Saturated(p, t) \/ Aborted(p) \/ ~isLeader[p])
  <2>1. Reserved(p)' = Reserved(p) \cup {t} /\ t \notin Reserved(p) /\ dispatch' = dispatch
    BY <1>0, <1>2 DEF BeginClaim, SetLoop, Reserved
  <2>2. Cardinality(Reserved(p)') = Cardinality(Reserved(p)) + 1
    BY <1>0, <2>1, FS_AddElement, FiniteCounts
  <2>3. \A u \in JobTypes : Busy(p, u)' = Busy(p, u)
    BY <2>1 DEF Busy
  <2>4. /\ ~(Cardinality(Busy(p, t)) >= MaxConcurrent)
        /\ GlobalMax > 0 => ~(Cardinality(dispatch[p]) + Cardinality(Reserved(p)) >= GlobalMax)
    BY <1>2 DEF Saturated, GlobalInFlight, Reserved
  <2>5. GlobalCap(p)'
    <3> DEFINE n == Cardinality(dispatch[p])
               k == Cardinality(Reserved(p))
    <3>1. n \in Nat /\ k \in Nat /\ GlobalMax \in Nat
      BY <1>0, FiniteCounts, LoopAssumption
    <3>2. GlobalMax > 0 => ~(n + k >= GlobalMax)
      BY <2>4
    <3> HIDE DEF n, k
    <3>3. GlobalMax > 0 => n + (k + 1) <= GlobalMax
      BY <3>1, <3>2
    <3> QED BY <2>1, <2>2, <3>3 DEF GlobalCap, n, k
  <2>6. ASSUME NEW u \in JobTypes PROVE TypeCap(p, u)'
    <3>1. Cardinality(Busy(p, t)) < MaxConcurrent
      BY <1>0, <2>4, FiniteCounts, LoopAssumption
    <3>2. TypeCap(p, u)
      BY DEF CapInv
    <3> QED BY <2>1, <2>3, <3>1, <3>2 DEF TypeCap
  <2> QED BY <2>5, <2>6 DEF CapInv
<1> QED BY <1>1, <1>2

(* The claim is won: its reservation becomes its dispatch. *)
LEMMA WonKeeps ==
  ASSUME IsFiniteSet(JobTypes), IInv, IInv', NEW p \in Pods, NEW t \in JobTypes, NEW j \in Jobs,
         ClaimWon(p, t, j), CapInv(p)
  PROVE  CapInv(p)'
<1>0. /\ loop \in [Pods -> [JobTypes -> LoopType]] /\ FiniteDispatch /\ FiniteDispatch'
      /\ dispatch \in [Pods -> SUBSET DispatchType]
  BY DEF IInv, TypeOK
<1> DEFINE d == [job |-> j, epoch |-> loop[p][t].epoch, attempts |-> job[j].attempts + 1,
                 cancelSeen |-> FALSE, lost |-> FALSE]
<1>1. dispatch'[p] = dispatch[p] \cup {d} /\ d.job = j /\ TypeOf[j] = t
  BY <1>0 DEF ClaimWon
<1> HIDE DEF d
<1>2. t \in Reserved(p) /\ Reserved(p)' = Reserved(p) \ {t}
  BY <1>0 DEF ClaimWon, SetLoop, LoopAt, Reserved
<1>3. \/ Cardinality(dispatch'[p]) = Cardinality(dispatch[p])
      \/ Cardinality(dispatch'[p]) = Cardinality(dispatch[p]) + 1
  BY <1>0, <1>1, FS_AddElement, FiniteCounts
<1>4. Cardinality(Reserved(p)') = Cardinality(Reserved(p)) - 1
  BY <1>0, <1>2, FS_RemoveElement, FiniteCounts
<1>5. GlobalCap(p)'
  <2> DEFINE n == Cardinality(dispatch[p])
             m == Cardinality(dispatch'[p])
             k == Cardinality(Reserved(p))
  <2>1. n \in Nat /\ m \in Nat /\ k \in Nat /\ GlobalMax \in Nat /\ (m = n \/ m = n + 1)
    BY <1>0, <1>3, FiniteCounts, FiniteCountsPrime, LoopAssumption
  <2>2. GlobalMax > 0 => n + k <= GlobalMax
    BY DEF CapInv, GlobalCap
  <2> HIDE DEF n, m, k
  <2>3. GlobalMax > 0 => m + (k - 1) <= GlobalMax
    BY <2>1, <2>2
  <2> QED BY <1>4, <2>3 DEF GlobalCap, m, k
<1>6. ASSUME NEW u \in JobTypes PROVE TypeCap(p, u)'
  <2>1. TypeCap(p, u) /\ Cardinality(Busy(p, u)) \in Nat /\ MaxConcurrent \in Nat
        /\ IsFiniteSet(Busy(p, u))
    BY <1>0, FiniteCounts, LoopAssumption DEF CapInv
  <2>2. CASE u = t
    <3>1. Busy(p, t)' = Busy(p, t) \cup {d} /\ t \notin Reserved(p)'
      BY <1>1, <1>2 DEF Busy
    <3>2. \/ Cardinality(Busy(p, t)') = Cardinality(Busy(p, t))
          \/ Cardinality(Busy(p, t)') = Cardinality(Busy(p, t)) + 1
      BY <2>1, <2>2, <3>1, FS_AddElement
    <3>3. Cardinality(Busy(p, t)) < MaxConcurrent
      BY <1>2, <2>1, <2>2 DEF TypeCap
    <3> QED BY <2>1, <2>2, <3>1, <3>2, <3>3 DEF TypeCap
  <2>3. CASE u # t
    <3>1. Busy(p, u)' = Busy(p, u) /\ (u \in Reserved(p)' => u \in Reserved(p))
      BY <1>1, <1>2, <2>3 DEF Busy
    <3> QED BY <2>1, <3>1 DEF TypeCap
  <2> QED BY <2>2, <2>3
<1> QED BY <1>5, <1>6 DEF CapInv

-----------------------------------------------------------------------------
(* The other steps of the loops, of the dispatches and of the processes. *)
LEMMA PollCaps ==
  ASSUME IsFiniteSet(JobTypes), IInv, IInv', NEW p \in Pods, NEW t \in JobTypes, Poll(p, t),
         NEW q \in Pods, CapInv(q)
  PROVE  CapInv(q)'
<1>0. /\ loop \in [Pods -> [JobTypes -> LoopType]] /\ FiniteDispatch /\ FiniteDispatch'
      /\ dispatch \in [Pods -> SUBSET DispatchType]
  BY DEF IInv, TypeOK
<1>1. CASE q # p
  <2>1. loop'[q] = loop[q] /\ dispatch'[q] = dispatch[q]
    BY <1>0, <1>1 DEF Poll, LoopBreaks, ConfirmHeld, ConfirmNotHeld, ConfirmDenied, BeginClaim,
       ClaimMissed, ClaimWon, ClaimAnswerLost, SetLoop
  <2>2. Reserved(q)' = Reserved(q)
    BY <2>1 DEF Reserved
  <2> QED BY <1>0, <2>1, <2>2, FewerRelaxes, RelaxKeeps
<1>2. CASE q = p /\ BeginClaim(p, t)
  BY <1>2, BeginKeeps
<1>3. ASSUME NEW j \in Jobs, q = p, ClaimWon(p, t, j) PROVE CapInv(q)'
  BY <1>3, WonKeeps
<1>4. CASE q = p /\ \/ LoopBreaks(p, t) \/ ConfirmHeld(p, t) \/ ConfirmNotHeld(p, t)
                    \/ ConfirmDenied(p, t) \/ (\E j \in Jobs : ClaimAnswerLost(p, t, j))
  <2>1. Reserved(p)' \subseteq Reserved(p) /\ dispatch'[p] = dispatch[p]
    BY <1>0, <1>4 DEF LoopBreaks, ConfirmHeld, ConfirmNotHeld, ConfirmDenied, ClaimAnswerLost,
       SetLoop, LoopAt, OffLoop, Reserved
  <2> QED BY <1>0, <1>4, <2>1, FewerRelaxes, RelaxKeeps
<1>5. CASE q = p /\ ClaimMissed(p, t)
  <2>1. t \in Reserved(p)
    BY <1>5 DEF ClaimMissed, Reserved
  <2>2. \A u \in JobTypes \ {t} : loop'[p][u] = loop[p][u]
    BY <1>0, <1>5 DEF ClaimMissed, SetLoop
  <2>3. Reserved(p)' \subseteq Reserved(p) /\ dispatch'[p] = dispatch[p]
    BY <1>5, <2>1, <2>2 DEF ClaimMissed, Reserved
  <2> QED BY <1>0, <1>5, <2>3, FewerRelaxes, RelaxKeeps
<1> QED BY <1>1, <1>2, <1>3, <1>4, <1>5 DEF Poll

LEMMA OtherCaps ==
  ASSUME IsFiniteSet(JobTypes), IInv, IInv', NEW q \in Pods, CapInv(q),
         \/ \E p \in Pods : Leadership(p) \/ Handle(p) \/ Stop(p)
         \/ \E p \in Pods, j \in Jobs : Inline(p, j)
         \/ Environment \/ UNCHANGED vars
  PROVE  CapInv(q)'
<1>0. /\ loop \in [Pods -> [JobTypes -> LoopType]] /\ FiniteDispatch /\ FiniteDispatch'
      /\ dispatch \in [Pods -> SUBSET DispatchType]
  BY DEF IInv, TypeOK
<1>a. ASSUME UNCHANGED <<loop, dispatch>> PROVE CapInv(q)'
  BY <1>0, <1>a, FewerRelaxes, RelaxKeeps DEF Reserved
<1>b. ASSUME dispatch'[q] \subseteq dispatch[q],
             loop' = loop \/ \A t \in JobTypes : loop'[q][t].st # "claiming"
      PROVE  CapInv(q)'
  BY <1>0, <1>b, FewerRelaxes, RelaxKeeps DEF Reserved
<1>1. ASSUME NEW p \in Pods, Leadership(p) PROVE CapInv(q)'
  <2>1. CASE AcquireReturns(p)
    <3>1. dispatch' = dispatch
      BY <1>0, <2>1 DEF AcquireReturns
    <3>2. loop' = loop \/ loop' = [loop EXCEPT ![p] = [t \in JobTypes |-> LoopAt("top")]]
      BY <2>1 DEF AcquireReturns
    <3>3. Reserved(q)' \subseteq Reserved(q)
      BY <1>0, <3>2 DEF Reserved, LoopAt
    <3> QED BY <1>0, <3>1, <3>3, FewerRelaxes, RelaxKeeps
  <2>2. CASE ~AcquireReturns(p)
    BY <1>1, <1>a, <2>2 DEF Leadership, Boot, RenewTick, AcquireGranted, AcquireDenied
  <2> QED BY <2>1, <2>2
<1>2. ASSUME NEW p \in Pods, Handle(p) PROVE CapInv(q)'
  <2>0. loop' = loop
    BY <1>2 DEF Handle, Renew, HandlerEnds, TerminalWriteFails
  <2>1. PICK d \in dispatch[p] :
          Renew(p, d) \/ (\E ok \in BOOLEAN : HandlerEnds(p, d, ok)) \/ TerminalWriteFails(p, d)
    BY <1>2 DEF Handle
  <2>2. CASE Renew(p, d) /\ q = p
    <3> DEFINE e == IF OwnerGuard(p, d.epoch, d.job)
                    THEN [d EXCEPT !.cancelSeen = @ \/ job[d.job].cancelReq]
                    ELSE [d EXCEPT !.lost = TRUE]
    <3>1. dispatch'[p] = (dispatch[p] \ {d}) \cup {e}
      BY <1>0, <2>2 DEF Renew
    <3>2. e.job = d.job
      BY <1>0 DEF DispatchType
    <3> HIDE DEF e
    <3>3. Relaxes(p)
      BY <1>0, <2>0, <3>1, <3>2, RenewRelaxes
    <3> QED BY <1>0, <2>2, <3>3, RelaxKeeps
  <2>3. CASE ~(Renew(p, d) /\ q = p)
    <3>1. dispatch'[q] \subseteq dispatch[q]
      BY <1>0, <2>1, <2>3 DEF Renew, HandlerEnds, TerminalWriteFails
    <3> QED BY <1>b, <2>0, <3>1
  <2> QED BY <2>2, <2>3
<1>3. ASSUME NEW p \in Pods, Stop(p) PROVE CapInv(q)'
  <2>1. CASE Exit(p) \/ Crash(p)
    <3>1. dispatch'[q] \subseteq dispatch[q] /\ Reserved(q)' \subseteq Reserved(q)
      BY <1>0, <2>1 DEF Exit, Crash, Dies, OffLoop, Reserved
    <3> QED BY <1>0, <3>1, FewerRelaxes, RelaxKeeps
  <2>2. CASE ~(Exit(p) \/ Crash(p))
    BY <1>3, <1>a, <2>2 DEF Stop, Shutdown, Drained, DrainTimeout, ReleasesDone, ReleaseClaim,
       ReleaseLease
  <2> QED BY <2>1, <2>2
<1>4. ASSUME NEW p \in Pods, NEW j \in Jobs, Inline(p, j) PROVE CapInv(q)'
  BY <1>4, <1>a DEF Inline, RequestCancel, CancelWriteFails, HintEvicted, StartInline, FinishInline
<1>5. CASE Environment \/ UNCHANGED vars
  BY <1>5, <1>a DEF Environment, LeaseExpires, ClaimExpires, BackoffOver, Submit, Reap, vars, podVars
<1> QED BY <1>1, <1>2, <1>3, <1>4, <1>5

AllCaps == \A p \in Pods : CapInv(p)

(* The caps of the poll loops (WORKER_LOOP_MAX_CONCURRENT for a job type,  *)
(* WORKER_LOOP_GLOBAL_MAX_CONCURRENT for the process) hold in every pod,   *)
(* claims in flight included, whatever is dispatched, renewed, drained,    *)
(* crashed or elected: the counters of runLoopConcurrent never over-admit. *)
THEOREM CapsRespectedCorrect == IsFiniteSet(JobTypes) => (Spec => []CapsRespected)
<1> SUFFICES ASSUME IsFiniteSet(JobTypes) PROVE Spec => []CapsRespected
  OBVIOUS
<1>1. Init => AllCaps
  <2> SUFFICES ASSUME Init, NEW p \in Pods PROVE CapInv(p)
    BY DEF AllCaps
  <2>1. dispatch[p] = {} /\ Reserved(p) = {} /\ \A t \in JobTypes : Busy(p, t) = {}
    BY DEF Init, OffLoop, Reserved, Busy
  <2>2. Cardinality(dispatch[p]) = 0 /\ Cardinality(Reserved(p)) = 0
        /\ \A t \in JobTypes : Cardinality(Busy(p, t)) = 0
    BY <2>1, FS_EmptySet
  <2> QED BY <2>1, <2>2, LoopAssumption DEF CapInv, GlobalCap, TypeCap
<1>2. IInv /\ IInv' /\ AllCaps /\ [Next]_vars => AllCaps'
  BY PollCaps, OtherCaps DEF AllCaps, Next
<1>3. IInv /\ AllCaps => CapsRespected
  BY DEF AllCaps, CapInv, GlobalCap, TypeCap, CapsRespected, GlobalInFlight, Reserved
<1> QED BY <1>1, <1>2, <1>3, Inductive, PTL DEF Spec

-----------------------------------------------------------------------------
(***************************************************************************)
(* AttemptsBounded.  Only a shutdown's release puts a row back whatever    *)
(* its attempts; the bound needs that a pod releases a row once in its     *)
(* life.  HandedBack(j) are the pods that are past releasing j: it only    *)
(* grows, a release adds its pod to it, and the row is never more than     *)
(* its size past the limit.                                                *)
(***************************************************************************)
HandedBack(j) ==
  {p \in Pods : /\ phase[p] \notin {"new", "up", "draining"}
                /\ \A c \in toRelease[p] : c.job # j}

OneDispatch == \A p \in Pods : \A d, e \in dispatch[p] : d.job = e.job => d = e

OneRelease == \A p \in Pods : \A c, e \in toRelease[p] : c.job = e.job => c = e

RowBound(j) ==
  /\ job[j].attempts <= AttemptLimit + Cardinality(HandedBack(j))
  /\ job[j].status = "pending" /\ job[j].attempts >= AttemptLimit =>
       /\ job[j].attempts < AttemptLimit + Cardinality(HandedBack(j))
       /\ job[j].error = "PodShutdown"

BoundInv == OneDispatch /\ OneRelease /\ \A j \in Jobs : RowBound(j)

(* A row not taken and not released: requeued below the limit or not at all. *)
Quiet(r, s) ==
  /\ s.attempts = r.attempts
  /\ s.status = "pending" => (r.status = "pending" /\ s.error = r.error) \/ s.attempts < AttemptLimit

QuietRows == \A k \in Jobs : Quiet(job[k], job'[k])

LEMMA LimitFacts ==
  /\ AttemptLimit \in Nat /\ 0 < AttemptLimit
  /\ RegMax \in Nat /\ RegMax <= AttemptLimit
  /\ ReapMax \in Nat /\ ReapMax <= AttemptLimit
BY JobAssumption DEF AttemptLimit

LEMMA HandedBackFinite ==
  ASSUME IsFiniteSet(Pods), NEW j
  PROVE  /\ IsFiniteSet(HandedBack(j)) /\ Cardinality(HandedBack(j)) \in Nat
         /\ IsFiniteSet(HandedBack(j)') /\ Cardinality(HandedBack(j)') \in Nat
<1>1. HandedBack(j) \in SUBSET Pods /\ HandedBack(j)' \in SUBSET Pods
  BY DEF HandedBack
<1> QED BY <1>1, FS_Subset, FS_CardinalityType

(* The three things a step may do to a row. *)
LEMMA QuietBound ==
  ASSUME IsFiniteSet(Pods), TypeOK, NEW j \in Jobs, RowBound(j), Quiet(job[j], job'[j]),
         HandedBack(j) \subseteq HandedBack(j)'
  PROVE  RowBound(j)'
<1>1. Cardinality(HandedBack(j)) <= Cardinality(HandedBack(j)')
  BY HandedBackFinite, FS_Subset
<1> DEFINE m == Cardinality(HandedBack(j))
           n == Cardinality(HandedBack(j)')
<1>2. m \in Nat /\ n \in Nat /\ m <= n /\ job[j].attempts \in Nat /\ AttemptLimit \in Nat
  BY <1>1, HandedBackFinite, LimitFacts DEF TypeOK, JobRow
<1>3. /\ job[j].attempts <= AttemptLimit + m
      /\ job[j].status = "pending" /\ job[j].attempts >= AttemptLimit =>
           job[j].attempts < AttemptLimit + m /\ job[j].error = "PodShutdown"
  BY DEF RowBound
<1> HIDE DEF m, n
<1>4. /\ job'[j].attempts <= AttemptLimit + n
      /\ job'[j].status = "pending" /\ job'[j].attempts >= AttemptLimit =>
           job'[j].attempts < AttemptLimit + n /\ job'[j].error = "PodShutdown"
  BY <1>2, <1>3 DEF Quiet
<1>5. AttemptLimit' = AttemptLimit
  BY DEF AttemptLimit
<1> QED BY <1>4, <1>5 DEF RowBound, n

LEMMA TakenBound ==
  ASSUME IsFiniteSet(Pods), TypeOK, NEW j \in Jobs, RowBound(j),
         job[j].status = "pending", job'[j].status = "running", job'[j].attempts = job[j].attempts + 1,
         HandedBack(j)' = HandedBack(j)
  PROVE  RowBound(j)'
<1> DEFINE m == Cardinality(HandedBack(j))
<1>1. m \in Nat /\ job[j].attempts \in Nat /\ AttemptLimit \in Nat
  BY HandedBackFinite, LimitFacts DEF TypeOK, JobRow
<1>2. job[j].attempts >= AttemptLimit => job[j].attempts < AttemptLimit + m
  BY DEF RowBound
<1>3. m = Cardinality(HandedBack(j)')
  OBVIOUS
<1> HIDE DEF m
<1>4. job'[j].attempts <= AttemptLimit + m
  BY <1>1, <1>2
<1>5. AttemptLimit' = AttemptLimit
  BY DEF AttemptLimit
<1> QED BY <1>3, <1>4, <1>5 DEF RowBound

LEMMA ReleasedBound ==
  ASSUME IsFiniteSet(Pods), TypeOK, NEW j \in Jobs, RowBound(j), NEW p,
         job'[j].attempts = job[j].attempts, job'[j].error = "PodShutdown",
         p \notin HandedBack(j), HandedBack(j)' = HandedBack(j) \cup {p}
  PROVE  RowBound(j)'
<1> DEFINE m == Cardinality(HandedBack(j))
           n == Cardinality(HandedBack(j)')
<1>1. n = m + 1
  BY HandedBackFinite, FS_AddElement
<1>2. m \in Nat /\ job[j].attempts \in Nat /\ AttemptLimit \in Nat
  BY HandedBackFinite, LimitFacts DEF TypeOK, JobRow
<1>3. job[j].attempts <= AttemptLimit + m
  BY DEF RowBound
<1> HIDE DEF m, n
<1>4. job'[j].attempts <= AttemptLimit + n /\ job'[j].attempts < AttemptLimit + n
  BY <1>1, <1>2, <1>3
<1>5. AttemptLimit' = AttemptLimit
  BY DEF AttemptLimit
<1> QED BY <1>4, <1>5 DEF RowBound, n

(* The statements that are quiet. *)
LEMMA QuietStutter ==
  ASSUME UNCHANGED job
  PROVE  QuietRows
BY DEF QuietRows, Quiet

LEMMA QuietSetRow ==
  ASSUME TypeOK, NEW j \in Jobs, NEW row, SetRow(j, row), Quiet(job[j], row)
  PROVE  QuietRows
<1>1. job'[j] = row /\ \A k \in Jobs \ {j} : job'[k] = job[k]
  BY DEF SetRow, TypeOK
<1> QED BY <1>1 DEF QuietRows, Quiet

LEMMA QuietTerminalWrite ==
  ASSUME TypeOK, LatestClaim, NEW p \in Pods, NEW d \in dispatch[p], NEW ok \in BOOLEAN,
         TerminalWrite(p, d, ok)
  PROVE  QuietRows
<1> DEFINE r == Unclaimed(job[d.job])
<1>1. d.job \in Jobs /\ job[d.job] \in JobRow /\ d.attempts \in Nat
  BY DEF DispatchType, TypeOK
<1>2. r \in JobRow /\ r.attempts = job[d.job].attempts
  <2>1. r \in JobRow
    BY <1>1, RowType
  <2>2. r.attempts = job[d.job].attempts
    BY <1>1 DEF Unclaimed, JobRow
  <2> QED BY <2>1, <2>2
<1> HIDE DEF r
<1> DEFINE done  == [r EXCEPT !.status = "succeeded"]
           canc  == [r EXCEPT !.status = "cancelled"]
           again == [r EXCEPT !.status = "pending", !.visible = FALSE, !.error = "HandlerError"]
           dead  == [r EXCEPT !.status = "failed", !.error = "HandlerError"]
<1>3. /\ done.status = "succeeded" /\ done.attempts = r.attempts
      /\ canc.status = "cancelled" /\ canc.attempts = r.attempts
      /\ again.status = "pending" /\ again.attempts = r.attempts
      /\ dead.status = "failed" /\ dead.attempts = r.attempts
  BY <1>2 DEF JobRow
<1> HIDE DEF done, canc, again, dead
<1>4. CASE OwnerGuard(p, d.epoch, d.job)
  <2>1. d.attempts = job[d.job].attempts
    BY <1>4 DEF OwnerGuard, LatestClaim
  <2>2. Quiet(job[d.job], done) /\ Quiet(job[d.job], canc) /\ Quiet(job[d.job], dead)
    BY <1>2, <1>3 DEF Quiet
  <2>3. d.attempts < RegMax => Quiet(job[d.job], again)
    BY <1>1, <1>2, <1>3, <2>1, LimitFacts DEF Quiet
  <2> QED BY <1>1, <1>4, <2>2, <2>3, QuietSetRow, QuietStutter
          DEF TerminalWrite, Cancelled, Complete, Fail, OwnedUpdate, done, canc, again, dead, r
<1>5. CASE ~OwnerGuard(p, d.epoch, d.job)
  BY <1>5, QuietStutter DEF TerminalWrite, Cancelled, Complete, Fail, OwnedUpdate
<1> QED BY <1>4, <1>5

LEMMA QuietReap ==
  ASSUME TypeOK, NEW c, ReapZombies(c)
  PROVE  QuietRows
<1> SUFFICES ASSUME NEW k \in Jobs PROVE Quiet(job[k], job'[k])
  BY DEF QuietRows
<1>1. job[k] \in JobRow /\ job[k].attempts \in Nat
  BY DEF TypeOK, JobRow
<1>2. CASE TenantOf[k] = c /\ Zombie(k)
  <2>1. job'[k] = Reaped(job[k])
    BY <1>2 DEF ReapZombies
  <2>2. /\ Reaped(job[k]).attempts = job[k].attempts
        /\ Reaped(job[k]).status = "pending" => job[k].attempts < ReapMax
    BY <1>1 DEF Reaped, JobRow
  <2> QED BY <1>1, <2>1, <2>2, LimitFacts DEF Quiet
<1>3. CASE ~(TenantOf[k] = c /\ Zombie(k))
  BY <1>3 DEF ReapZombies, Quiet
<1> QED BY <1>2, <1>3

(* The clock, a renew, a producer, an operator and an inline run. *)
LEMMA QuietStatements ==
  ASSUME TypeOK, AbsentUnclaimed, NEW j \in Jobs,
         \/ \E p, e : RenewRow(p, e, j)
         \/ ClaimLapses(j) \/ BackoffElapses(j) \/ FlagCancel(j) \/ StartInlineRow(j)
         \/ \E v \in BOOLEAN : Enqueue(j, v)
         \/ \E s \in Terminal : FinishInlineRow(j, s)
  PROVE  QuietRows
<1>0. job[j] \in JobRow
  BY DEF TypeOK
<1>1. ASSUME NEW p, NEW e, RenewRow(p, e, j)
      PROVE  QuietRows
  <2> DEFINE row == [job[j] EXCEPT !.leaseUntil = "live"]
  <2>1. row.attempts = job[j].attempts /\ row.status = job[j].status
    BY <1>0 DEF JobRow
  <2> HIDE DEF row
  <2> QED BY <1>1, <2>1, QuietSetRow, QuietStutter DEF RenewRow, OwnedUpdate, OwnerGuard, Quiet, row
<1>2. CASE ClaimLapses(j)
  <2> DEFINE row == [job[j] EXCEPT !.leaseUntil = "lapsed"]
  <2>1. row.attempts = job[j].attempts /\ row.status = job[j].status
    BY <1>0 DEF JobRow
  <2> HIDE DEF row
  <2> QED BY <1>2, <2>1, QuietSetRow DEF ClaimLapses, Quiet, row
<1>3. CASE BackoffElapses(j)
  <2> DEFINE row == [job[j] EXCEPT !.visible = TRUE]
  <2>1. row.attempts = job[j].attempts /\ row.status = job[j].status /\ row.error = job[j].error
    BY <1>0 DEF JobRow
  <2> HIDE DEF row
  <2> QED BY <1>3, <2>1, QuietSetRow DEF BackoffElapses, Quiet, row
<1>4. CASE FlagCancel(j)
  <2> DEFINE c == [job[j] EXCEPT !.cancelReq = TRUE, !.status = "cancelled",
                                 !.claimedBy = NoPod, !.leaseUntil = "none"]
             f == [job[j] EXCEPT !.cancelReq = TRUE]
  <2>1. c.status = "cancelled" /\ c.attempts = job[j].attempts
    BY <1>0 DEF JobRow
  <2>2. f.status = job[j].status /\ f.attempts = job[j].attempts
    BY <1>0 DEF JobRow
  <2> HIDE DEF c, f
  <2>3. SetRow(j, c) \/ (job[j].status # "pending" /\ SetRow(j, f))
    BY <1>4 DEF FlagCancel, c, f
  <2> QED BY <2>1, <2>2, <2>3, QuietSetRow DEF Quiet
<1>5. CASE StartInlineRow(j)
  <2> DEFINE row == [AbsentRow EXCEPT !.status = "running", !.visible = TRUE]
  <2>1. row.status = "running" /\ row.attempts = 0
    BY DEF AbsentRow
  <2> HIDE DEF row
  <2> QED BY <1>5, <2>1, QuietSetRow DEF StartInlineRow, AbsentUnclaimed, Quiet, row
<1>6. ASSUME NEW v \in BOOLEAN, Enqueue(j, v)
      PROVE  QuietRows
  <2> DEFINE row == [AbsentRow EXCEPT !.status = "pending", !.visible = v]
  <2>1. row.status = "pending" /\ row.attempts = 0
    BY DEF AbsentRow
  <2> HIDE DEF row
  <2> QED BY <1>6, <2>1, QuietSetRow, LimitFacts DEF Enqueue, AbsentUnclaimed, Quiet, row
<1>7. ASSUME NEW s \in Terminal, FinishInlineRow(j, s)
      PROVE  QuietRows
  <2>1. CASE job[j].status = "running" /\ job[j].claimedBy = NoPod
    <3>1. PICK x \in Errors : SetRow(j, [job[j] EXCEPT !.status = s, !.error = x])
      BY <1>7, <2>1 DEF FinishInlineRow, Errors
    <3> DEFINE row == [job[j] EXCEPT !.status = s, !.error = x]
    <3>2. row.status = s /\ row.attempts = job[j].attempts
      BY <1>0 DEF JobRow
    <3> HIDE DEF row
    <3> QED BY <3>1, <3>2, QuietSetRow DEF Quiet, Terminal, row
  <2>2. CASE ~(job[j].status = "running" /\ job[j].claimedBy = NoPod)
    BY <1>7, <2>2, QuietStutter DEF FinishInlineRow
  <2> QED BY <2>1, <2>2
<1> QED BY <1>1, <1>2, <1>3, <1>4, <1>5, <1>6, <1>7

MovesOn == \A k \in Jobs : HandedBack(k) \subseteq HandedBack(k)'

LEMMA QuietKept ==
  ASSUME IsFiniteSet(Pods), IInv, BoundInv, QuietRows, MovesOn, OneDispatch', OneRelease'
  PROVE  BoundInv'
<1>1. \A k \in Jobs : RowBound(k)'
  BY QuietBound DEF IInv, BoundInv, QuietRows, MovesOn
<1> QED BY <1>1 DEF BoundInv

(* The processes' bookkeeping stays as it is. *)
LEMMA StillKept ==
  ASSUME IsFiniteSet(Pods), IInv, BoundInv, QuietRows, UNCHANGED <<phase, dispatch, toRelease>>
  PROVE  BoundInv'
<1>1. MovesOn /\ OneDispatch' /\ OneRelease'
  BY DEF MovesOn, HandedBack, BoundInv, OneDispatch, OneRelease
<1> QED BY <1>1, QuietKept

LEMMA LeadershipBound ==
  ASSUME IsFiniteSet(Pods), IInv, BoundInv, NEW p \in Pods, Leadership(p)
  PROVE  BoundInv'
<1>1. UNCHANGED <<job, dispatch, toRelease>>
  BY DEF Leadership, Boot, RenewTick, AcquireGranted, AcquireDenied, AcquireReturns
<1>2. \A q \in Pods : phase[q] \notin {"new", "up", "draining"} => phase'[q] = phase[q]
  BY DEF Leadership, Boot, RenewTick, AcquireGranted, AcquireDenied, AcquireReturns, IInv, TypeOK
<1>3. MovesOn /\ OneDispatch' /\ OneRelease'
  BY <1>1, <1>2 DEF MovesOn, HandedBack, BoundInv, OneDispatch, OneRelease
<1> QED BY <1>1, <1>3, QuietStutter, QuietKept

LEMMA ClaimBound ==
  ASSUME IsFiniteSet(Pods), TenantMax = 1, IInv, BoundInv, NEW p \in Pods, NEW t \in JobTypes,
         NEW j \in Jobs, ClaimWon(p, t, j) \/ ClaimAnswerLost(p, t, j)
  PROVE  BoundInv'
<1> DEFINE row == Claimed(job[j], p, loop[p][t].epoch)
           new == [job |-> j, epoch |-> loop[p][t].epoch, attempts |-> job[j].attempts + 1,
                   cancelSeen |-> FALSE, lost |-> FALSE]
           same == {d \in dispatch[p] : TypeOf[d.job] = TypeOf[j] /\ TenantOf[d.job] = TenantOf[j]}
<1>1. /\ job[j] \in JobRow /\ job[j].status = "pending" /\ job[j].attempts \in Nat
      /\ job'[j] = row /\ \A k \in Jobs \ {j} : job'[k] = job[k]
  BY DEF ClaimWon, ClaimAnswerLost, ClaimRow, SetRow, IInv, TypeOK, JobRow
<1>2. row.status = "running" /\ row.attempts = job[j].attempts + 1
  BY <1>1 DEF Claimed, JobRow
<1>3. \A q \in Pods : /\ dispatch'[q] = dispatch[q] \cup {new} \/ dispatch'[q] = dispatch[q]
                      /\ q # p => dispatch'[q] = dispatch[q]
  BY DEF ClaimWon, ClaimAnswerLost, IInv, TypeOK
<1>4. new.job = j
  OBVIOUS
<1>5. UNCHANGED <<phase, toRelease>> /\ TenantEligible(p, j)
  BY DEF ClaimWon, ClaimAnswerLost
<1> HIDE DEF row, new
<1>6. IsFiniteSet(same)
  BY FS_Subset DEF IInv, FiniteDispatch
<1>7. Cardinality(same) < 1
  BY <1>5 DEF TenantEligible
<1> HIDE DEF same
<1>8. same = {}
  BY <1>6, <1>7, FS_CardinalityType, FS_EmptySet
<1>9. \A d \in dispatch[p] : d.job # j
  BY <1>8 DEF same
<1>10. OneDispatch'
  BY <1>3, <1>4, <1>9 DEF BoundInv, OneDispatch
<1>11. OneRelease' /\ \A k \in Jobs : HandedBack(k)' = HandedBack(k)
  BY <1>5 DEF BoundInv, OneRelease, HandedBack
<1>12. RowBound(j)'
  BY <1>1, <1>2, <1>11, TakenBound DEF BoundInv, IInv
<1>13. ASSUME NEW k \in Jobs, k # j PROVE RowBound(k)'
  <2>1. Quiet(job[k], job'[k])
    BY <1>1, <1>13 DEF Quiet
  <2> QED BY <1>11, <2>1, QuietBound DEF BoundInv, IInv
<1> QED BY <1>10, <1>11, <1>12, <1>13 DEF BoundInv

LEMMA PollBound ==
  ASSUME IsFiniteSet(Pods), TenantMax = 1, IInv, BoundInv, NEW p \in Pods, NEW t \in JobTypes, Poll(p, t)
  PROVE  BoundInv'
<1>1. CASE \E j \in Jobs : ClaimWon(p, t, j) \/ ClaimAnswerLost(p, t, j)
  BY <1>1, ClaimBound
<1>2. CASE \/ LoopBreaks(p, t) \/ ConfirmHeld(p, t) \/ ConfirmNotHeld(p, t) \/ ConfirmDenied(p, t)
           \/ BeginClaim(p, t) \/ ClaimMissed(p, t)
  <2>1. UNCHANGED <<job, phase, dispatch, toRelease>>
    BY <1>2 DEF LoopBreaks, ConfirmHeld, ConfirmNotHeld, ConfirmDenied, BeginClaim, ClaimMissed
  <2> QED BY <2>1, QuietStutter, StillKept
<1> QED BY <1>1, <1>2 DEF Poll

LEMMA HandleBound ==
  ASSUME IsFiniteSet(Pods), IInv, LatestClaim, AbsentUnclaimed, BoundInv, NEW p \in Pods, Handle(p)
  PROVE  BoundInv'
<1>1. PICK d \in dispatch[p] : \/ Renew(p, d)
                               \/ \E ok \in BOOLEAN : HandlerEnds(p, d, ok)
                               \/ TerminalWriteFails(p, d)
  BY DEF Handle
<1>2. d \in DispatchType /\ d.job \in Jobs
  BY <1>1 DEF IInv, TypeOK, DispatchType
<1>3. UNCHANGED <<phase, toRelease>>
  BY <1>1 DEF Renew, HandlerEnds, TerminalWriteFails
<1>4. MovesOn /\ OneRelease'
  BY <1>3 DEF MovesOn, HandedBack, BoundInv, OneRelease
<1>5. CASE Renew(p, d)
  <2>1. QuietRows
    BY <1>2, <1>5, QuietStatements DEF Renew, IInv
  <2>2. PICK n : /\ n.job = d.job
                 /\ dispatch' = [dispatch EXCEPT ![p] = (@ \ {d}) \cup {n}]
    <3>1. [d EXCEPT !.lost = TRUE].job = d.job
      BY <1>2 DEF DispatchType
    <3>2. [d EXCEPT !.cancelSeen = @ \/ job[d.job].cancelReq].job = d.job
      BY <1>2 DEF DispatchType
    <3> QED BY <1>5, <3>1, <3>2 DEF Renew
  <2>3. \A q \in Pods : /\ q # p => dispatch'[q] = dispatch[q]
                        /\ q = p => dispatch'[q] = (dispatch[q] \ {d}) \cup {n}
    BY <2>2 DEF IInv, TypeOK
  <2>4. OneDispatch'
    BY <1>1, <2>2, <2>3 DEF BoundInv, OneDispatch
  <2> QED BY <1>4, <2>1, <2>4, QuietKept
<1>6. ASSUME \E ok \in BOOLEAN : HandlerEnds(p, d, ok) \/ TerminalWriteFails(p, d)
      PROVE  BoundInv'
  <2>1. QuietRows
    BY <1>6, QuietTerminalWrite, QuietStutter DEF HandlerEnds, TerminalWriteFails, IInv
  <2>2. \A q \in Pods : dispatch'[q] \subseteq dispatch[q]
    BY <1>6 DEF HandlerEnds, TerminalWriteFails, IInv, TypeOK
  <2>3. OneDispatch'
    BY <2>2 DEF BoundInv, OneDispatch
  <2> QED BY <1>4, <2>1, <2>3, QuietKept
<1> QED BY <1>1, <1>5, <1>6

(* A pod hands one claim back: it is then past releasing that job. *)
LEMMA ReleaseBound ==
  ASSUME IsFiniteSet(Pods), IInv, BoundInv, NEW p \in Pods, NEW c \in toRelease[p], ReleaseClaim(p, c)
  PROVE  BoundInv'
<1> DEFINE j == c.job
<1>1. j \in Jobs /\ job[j] \in JobRow
  BY DEF IInv, TypeOK, ClaimType
<1>2. /\ phase[p] = "releasing" /\ UNCHANGED <<phase, dispatch>>
      /\ \A q \in Pods : /\ q # p => toRelease'[q] = toRelease[q]
                         /\ q = p => toRelease'[q] = toRelease[q] \ {c}
  BY DEF ReleaseClaim, IInv, TypeOK
<1>3. OneDispatch' /\ OneRelease'
  BY <1>2 DEF BoundInv, OneDispatch, OneRelease
<1>4. MovesOn
  BY <1>2 DEF MovesOn, HandedBack
<1>5. CASE UNCHANGED job
  BY <1>3, <1>4, <1>5, QuietStutter, QuietKept
<1>6. CASE OwnerGuard(p, c.epoch, j) /\ ReleaseRow(p, c.epoch, j)
  <2> DEFINE u == Unclaimed(job[j])
  <2>1. u \in JobRow
    BY <1>1, RowType
  <2>2. u.attempts = job[j].attempts
    BY <1>1 DEF Unclaimed, JobRow
  <2> HIDE DEF u
  <2> DEFINE back == [u EXCEPT !.status = "pending", !.visible = TRUE, !.error = "PodShutdown"]
  <2>3. back.attempts = job[j].attempts /\ back.error = "PodShutdown"
    BY <2>1, <2>2 DEF JobRow
  <2>4. SetRow(j, back)
    BY <1>6 DEF ReleaseRow, OwnedUpdate, u
  <2> HIDE DEF back
  <2>5. job'[j] = back /\ \A k \in Jobs \ {j} : job'[k] = job[k]
    BY <1>1, <2>4 DEF SetRow, IInv, TypeOK
  <2>6. p \notin HandedBack(j)
    BY DEF HandedBack
  <2>7. \A e \in toRelease'[p] : e.job # j
    BY <1>2 DEF BoundInv, OneRelease
  <2>8. HandedBack(j)' = HandedBack(j) \cup {p}
    BY <1>2, <2>7 DEF HandedBack
  <2>9. RowBound(j)'
    BY <1>1, <2>3, <2>5, <2>6, <2>8, ReleasedBound DEF BoundInv, IInv
  <2>10. ASSUME NEW k \in Jobs, k # j PROVE RowBound(k)'
    <3>1. Quiet(job[k], job'[k])
      BY <2>5, <2>10 DEF Quiet
    <3> QED BY <1>4, <3>1, QuietBound DEF BoundInv, IInv, MovesOn
  <2> QED BY <1>3, <2>9, <2>10 DEF BoundInv
<1> QED BY <1>5, <1>6 DEF ReleaseClaim, ReleaseRow, OwnedUpdate

LEMMA StopBound ==
  ASSUME IsFiniteSet(Pods), IInv, BoundInv, NEW p \in Pods, Stop(p)
  PROVE  BoundInv'
<1>1. CASE Shutdown(p) \/ Drained(p) \/ ReleasesDone(p) \/ ReleaseLease(p)
  <2>1. UNCHANGED <<job, dispatch, toRelease>>
    BY <1>1 DEF Shutdown, Drained, ReleasesDone, ReleaseLease
  <2>2. \A q \in Pods : phase[q] \notin {"new", "up", "draining"} => phase'[q] \notin {"new", "up", "draining"}
    BY <1>1 DEF Shutdown, Drained, ReleasesDone, ReleaseLease, IInv, TypeOK
  <2>3. MovesOn /\ OneDispatch' /\ OneRelease'
    BY <2>1, <2>2 DEF MovesOn, HandedBack, BoundInv, OneDispatch, OneRelease
  <2> QED BY <2>1, <2>3, QuietStutter, QuietKept
<1>2. CASE DrainTimeout(p)
  <2>1. UNCHANGED <<job, dispatch>> /\ phase[p] = "draining"
    BY <1>2 DEF DrainTimeout
  <2>2. \A q \in Pods : /\ q # p => toRelease'[q] = toRelease[q] /\ phase'[q] = phase[q]
                        /\ q = p => toRelease'[q] = {[job |-> d.job, epoch |-> d.epoch] : d \in dispatch[p]}
    BY <1>2 DEF DrainTimeout, IInv, TypeOK
  <2>3. OneRelease'
    BY <2>2 DEF BoundInv, OneDispatch, OneRelease
  <2>4. MovesOn /\ OneDispatch'
    BY <2>1, <2>2 DEF MovesOn, HandedBack, BoundInv, OneDispatch
  <2> QED BY <2>1, <2>3, <2>4, QuietStutter, QuietKept
<1>3. CASE Exit(p) \/ Crash(p)
  <2>1. /\ UNCHANGED job
        /\ \A q \in Pods : /\ q # p => phase'[q] = phase[q]
                           /\ q = p => phase'[q] = "dead"
                           /\ toRelease'[q] \subseteq toRelease[q]
                           /\ dispatch'[q] \subseteq dispatch[q]
    BY <1>3 DEF Exit, Crash, Dies, IInv, TypeOK
  <2>2. MovesOn /\ OneDispatch' /\ OneRelease'
    BY <2>1 DEF MovesOn, HandedBack, BoundInv, OneDispatch, OneRelease
  <2> QED BY <2>1, <2>2, QuietStutter, QuietKept
<1> QED BY <1>1, <1>2, <1>3, ReleaseBound DEF Stop

LEMMA OutsideBound ==
  ASSUME IsFiniteSet(Pods), IInv, AbsentUnclaimed, BoundInv,
         (\E p \in Pods, j \in Jobs : Inline(p, j)) \/ Environment
  PROVE  BoundInv'
<1>1. UNCHANGED <<phase, dispatch, toRelease>>
  BY DEF Inline, RequestCancel, CancelWriteFails, HintEvicted, StartInline, FinishInline,
         Environment, LeaseExpires, ClaimExpires, BackoffOver, Submit, Reap, podVars
<1>2. ASSUME NEW p \in Pods, NEW j \in Jobs, Inline(p, j) PROVE QuietRows
  BY <1>2, QuietStatements, QuietStutter
  DEF Inline, RequestCancel, CancelWriteFails, HintEvicted, StartInline, FinishInline, IInv
<1>3. ASSUME Environment PROVE QuietRows
  BY <1>3, QuietStatements, QuietStutter, QuietReap
  DEF Environment, LeaseExpires, ClaimExpires, BackoffOver, Submit, Reap, IInv
<1> QED BY <1>1, <1>2, <1>3, StillKept

LEMMA BoundGives ==
  ASSUME IsFiniteSet(Pods), TypeOK, BoundInv
  PROVE  AttemptsBounded
<1> DEFINE left == {p \in Pods : phase[p] \notin {"new", "up"}}
<1>1. ASSUME NEW j \in Jobs
      PROVE  /\ job[j].attempts <= AttemptLimit + Cardinality(left)
             /\ job[j].status = "pending" /\ job[j].attempts >= AttemptLimit => job[j].error = "PodShutdown"
  <2>1. HandedBack(j) \subseteq left /\ left \in SUBSET Pods
    BY DEF HandedBack
  <2>2. IsFiniteSet(left) /\ Cardinality(left) \in Nat
    BY <2>1, FS_Subset, FS_CardinalityType
  <2>3. Cardinality(HandedBack(j)) <= Cardinality(left)
    BY <2>1, <2>2, FS_Subset
  <2>4. RowBound(j)
    BY DEF BoundInv
  <2> DEFINE m == Cardinality(HandedBack(j))
             n == Cardinality(left)
  <2>5. m \in Nat /\ n \in Nat /\ m <= n /\ job[j].attempts \in Nat /\ AttemptLimit \in Nat
    BY <2>2, <2>3, HandedBackFinite, LimitFacts DEF TypeOK, JobRow
  <2>6. job[j].attempts <= AttemptLimit + m
    BY <2>4 DEF RowBound
  <2> HIDE DEF m, n
  <2>7. job[j].attempts <= AttemptLimit + n
    BY <2>5, <2>6
  <2> QED BY <2>4, <2>7 DEF RowBound, n
<1> QED BY <1>1 DEF AttemptsBounded

(* Retries are bounded for any finite number of pods and any limits, with one *)
(* dispatch per tenant (the default): fail and the reaper requeue below their *)
(* own limits, and a shutdown's release, which counts nothing, happens once   *)
(* per pod and job (worker-loop.service.ts, releaseActiveClaims).             *)
THEOREM AttemptsBoundedCorrect ==
  ASSUME IsFiniteSet(Pods), TenantMax = 1
  PROVE  Spec => []AttemptsBounded
<1> DEFINE Inv == IInv /\ LatestClaim /\ LedgerInv /\ BoundInv
<1>1. Init => Inv
  <2> SUFFICES ASSUME Init PROVE Inv
    OBVIOUS
  <2>1. IInv /\ LatestClaim /\ LedgerInv
    BY InitIInv, LedgerStart
  <2>2. OneDispatch /\ OneRelease
    BY DEF Init, OneDispatch, OneRelease
  <2>3. ASSUME NEW j \in Jobs PROVE RowBound(j)
    <3>1. job[j].attempts = 0 /\ job[j].status = "absent"
      BY DEF Init, JobInit, AbsentRow
    <3> QED BY <3>1, HandedBackFinite, LimitFacts DEF RowBound
  <2> QED BY <2>1, <2>2, <2>3 DEF BoundInv
<1>2. Inv /\ [Next]_vars => Inv'
  <2> SUFFICES ASSUME Inv, [Next]_vars PROVE Inv'
    OBVIOUS
  <2>1. IInv' /\ LatestClaim'
    BY NextKept DEF Kept
  <2>2. LedgerInv'
    BY <2>1, NextKinds, KindsNumbered DEF IInv
  <2>3. AbsentUnclaimed
    BY DEF LedgerInv
  <2>4. CASE UNCHANGED vars
    <3>1. UNCHANGED <<job, phase, dispatch, toRelease>>
      BY <2>4 DEF vars, podVars
    <3>2. BoundInv'
      BY <3>1, QuietStutter, StillKept
    <3> QED BY <2>1, <2>2, <3>2
  <2>5. CASE Next
    <3>1. BoundInv'
      BY <2>3, <2>5, LeadershipBound, PollBound, HandleBound, StopBound, OutsideBound DEF Next
    <3> QED BY <2>1, <2>2, <3>1
  <2> QED BY <2>4, <2>5
<1>3. Inv => AttemptsBounded
  BY BoundGives DEF IInv
<1> QED BY <1>1, <1>2, <1>3, PTL DEF Spec
=============================================================================
