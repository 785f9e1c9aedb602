-------------------------- MODULE DocumentsProofs ---------------------------
(***************************************************************************)
(* Type correctness for any workers, and, where no reindex job reads a     *)
(* pack that an index job reads too, SucceededIsWhole: for any number of   *)
(* packs, chunks, attempts, crashes, remote indexers, pods and commits.    *)
(* The invariant says what a worker has staged at each point of its run    *)
(* (Staged) and that a run its worker is busy with has not succeeded       *)
(* (BusyIsOpen), so that no drop can hit a run that did.  DecidedByOne is  *)
(* the last part: each process's mutex (Held), what the store holds of a   *)
(* run before its worker stages it again (ClearInv), and that what a       *)
(* commit has loaded is decided by nobody of its process (Fresh).          *)
(***************************************************************************)
EXTENDS Documents, TLAPS

Statuses == {"none"} \cup Open \cup Terminal
RunRec == [status : Statuses, stale : BOOLEAN, token : Pollers \cup {NoPoller}]
WorkRec == [job : {"none", "queued", "running", "done"}, attempts : 0 .. MaxAttempts,
            pc : {"idle", "drop", "swap", "stage", "close", "commit"}, seen : Statuses,
            left : SUBSET Chunks, end : {"skipped"} \cup Terminal]
CommitRec == [pc : {"idle", "count", "lock", "mark"}, pod : Pods, batch : SUBSET CandType]
PollRec == [pc : {"idle", "held", "drop", "insert", "close"}, row : Remote]
FanRec == [specs : Seq(InProcess), row : BOOLEAN, external : SUBSET Remote]
ReaderRec == [source : {"server", "harness"}, asked : BOOLEAN]
JobStates == {"none", "queued", "running", "done"}
Locks == [Pods -> Committers \cup {NoCommitter}]

(* What is true of a worker at any time: a job to be handed out has        *)
(* attempts left, passes do not count theirs, a worker that closes a run   *)
(* knows how it ended, and a job that is not running has no worker.        *)
Sane(w, x) ==
  /\ x \in WorkRec
  /\ x.job \in {"none", "queued"} => x.attempts < MaxAttempts
  /\ w = General => x.attempts = 0
  /\ x.pc = "close" => x.end # "skipped"
  /\ x.pc # "idle" => x.job = "running"

WorkSane == \A w \in Workers : Sane(w, index[w])

(* The type invariant, with the names above. *)
LEMMA TypeParts ==
  TypeOK <=> /\ fan \in FanRec /\ run \in [Rows -> RunRec] /\ cand \subseteq CandType
             /\ reader \in ReaderRec
             /\ index \in [Workers -> WorkRec] /\ cjob \in [Keys -> JobStates]
             /\ commit \in [Committers -> CommitRec] /\ lock \in Locks
             /\ poll \in [Pollers -> PollRec]
             /\ faults \in 0 .. MaxFaults /\ claims \in 0 .. MaxClaims
  BY Zenon DEF TypeOK, FanRec, ReaderRec, RunRec, Statuses, WorkRec, CommitRec, PollRec,
               JobStates, Locks

LEMMA TypePartsPrime ==
  TypeOK' <=> /\ fan' \in FanRec /\ run' \in [Rows -> RunRec] /\ cand' \subseteq CandType
              /\ reader' \in ReaderRec
              /\ index' \in [Workers -> WorkRec] /\ cjob' \in [Keys -> JobStates]
              /\ commit' \in [Committers -> CommitRec] /\ lock' \in Locks
              /\ poll' \in [Pollers -> PollRec]
              /\ faults' \in 0 .. MaxFaults /\ claims' \in 0 .. MaxClaims
  BY Zenon DEF TypeOK, FanRec, ReaderRec, RunRec, Statuses, WorkRec, CommitRec, PollRec,
               JobStates, Locks

(* Who commits, and where the workers' rows are. *)
LEMMA Places ==
  /\ \A w \in Workers : PackOf[w] \in Rows /\ PackOf[w] \in InProcess
  /\ \A r \in InProcess : r \in Workers /\ r \in Rows
  /\ \A w \in Workers \ Packs : w \in Committers /\ ServedBy(w) \subseteq Pods
  /\ General \in Workers /\ General \in InProcess /\ General \in Rows /\ General \in Committers
  /\ PackOf[General] = General /\ General \notin Packs
  /\ \A q \in Pollers : q \in Committers
  /\ \A k \in Keys : k \in Committers
  /\ \A r \in Packs : r \in Keys
  BY DocumentsAssumption
  DEF Workers, Rows, InProcess, Packs, Committers, Keys, General, ServedBy

-----------------------------------------------------------------------------
(* The statements of the store keep the types. *)
LEMMA StoreTyped ==
  ASSUME TypeOK
  PROVE  /\ \A r \in Rows, s \in Statuses : SetStatus(r, s) => run' \in [Rows -> RunRec]
         /\ \A r \in Rows, ks \in SUBSET (Chunks \cup {WholeDocument}) :
              InsertBatch(r, ks) => cand' \subseteq CandType
         /\ \A r \in Rows : DropRunCandidates(r) => /\ cand' \subseteq CandType
                                                    /\ commit' \in [Committers -> CommitRec]
         /\ Fault => faults' \in 0 .. MaxFaults /\ claims' \in 0 .. MaxClaims
<1>0. /\ run \in [Rows -> RunRec] /\ cand \subseteq CandType
      /\ commit \in [Committers -> CommitRec] /\ faults \in 0 .. MaxFaults
      /\ claims \in 0 .. MaxClaims
  BY TypeParts
<1>1. ASSUME NEW r \in Rows, NEW s \in Statuses, SetStatus(r, s) PROVE run' \in [Rows -> RunRec]
  BY <1>0, <1>1 DEF SetStatus, RunRec
<1>2. ASSUME NEW r \in Rows, NEW ks \in SUBSET (Chunks \cup {WholeDocument}), InsertBatch(r, ks)
      PROVE  cand' \subseteq CandType
  <2>1. \A k \in ks : [row |-> r, chunk |-> k, decided |-> NoPod] \in CandType
    BY DEF CandType
  <2> QED BY <1>0, <1>2, <2>1 DEF InsertBatch
<1>3. ASSUME NEW r \in Rows, DropRunCandidates(r)
      PROVE  cand' \subseteq CandType /\ commit' \in [Committers -> CommitRec]
  <2>1. cand' \subseteq CandType
    BY <1>0, <1>3 DEF DropRunCandidates
  <2>2. commit' \in [Committers -> CommitRec]
    <3>1. ASSUME NEW c \in Committers
          PROVE  [commit[c] EXCEPT !.batch = {x \in commit[c].batch : x.row # r}] \in CommitRec
      <4>1. commit[c] \in CommitRec
        BY <1>0
      <4>2. {x \in commit[c].batch : x.row # r} \in SUBSET CandType
        BY <4>1 DEF CommitRec
      <4> QED BY <4>1, <4>2 DEF CommitRec
    <3> QED BY <1>3, <3>1 DEF DropRunCandidates
  <2> QED BY <2>1, <2>2
<1>4. ASSUME Fault PROVE faults' \in 0 .. MaxFaults /\ claims' \in 0 .. MaxClaims
  BY <1>0, <1>4, DocumentsAssumption DEF Fault
<1> QED BY <1>1, <1>2, <1>3, <1>4

(* The end and the start of a commit keep the types. *)
LEMMA CommitTyped ==
  ASSUME TypeOK
  PROVE  /\ \A c \in Committers, s \in JobStates :
              CommitEnds(c, s) => /\ commit' \in [Committers -> CommitRec]
                                  /\ cjob' \in [Keys -> JobStates] /\ lock' \in Locks
         /\ \A c \in Committers, p \in Pods :
              CommitHere(c, p) => commit' \in [Committers -> CommitRec]
         /\ \A k \in Keys : EnqueueCommit(k) => cjob' \in [Keys -> JobStates]
<1>0. /\ commit \in [Committers -> CommitRec] /\ cjob \in [Keys -> JobStates] /\ lock \in Locks
  BY TypeParts
<1>1. ASSUME NEW c \in Committers, NEW s \in JobStates, CommitEnds(c, s)
      PROVE  /\ commit' \in [Committers -> CommitRec] /\ cjob' \in [Keys -> JobStates]
             /\ lock' \in Locks
  <2>1. NoCommit \in CommitRec
    BY DocumentsAssumption DEF NoCommit, CommitRec
  <2>2. commit' \in [Committers -> CommitRec]
    BY <1>0, <1>1, <2>1 DEF CommitEnds
  <2>3. cjob' \in [Keys -> JobStates]
    BY <1>0, <1>1 DEF CommitEnds
  <2>4. lock' \in Locks
    BY <1>0, <1>1 DEF CommitEnds, Locks
  <2> QED BY <2>2, <2>3, <2>4
<1>2. ASSUME NEW c \in Committers, NEW p \in Pods, CommitHere(c, p)
      PROVE  commit' \in [Committers -> CommitRec]
  <2>1. commit[c] \in CommitRec
    BY <1>0
  <2>2. [commit[c] EXCEPT !.pc = "count", !.pod = p] \in CommitRec
    BY <2>1 DEF CommitRec
  <2>3. commit' = [commit EXCEPT ![c] = [commit[c] EXCEPT !.pc = "count", !.pod = p]]
    BY <1>0, <1>2 DEF CommitHere
  <2> QED BY <1>0, <2>2, <2>3
<1>3. ASSUME NEW k \in Keys, EnqueueCommit(k) PROVE cjob' \in [Keys -> JobStates]
  BY <1>0, <1>3 DEF EnqueueCommit, JobStates
<1> QED BY <1>1, <1>2, <1>3

-----------------------------------------------------------------------------
(* A step of worker w gives its row of `index' the value x. *)
Works(w, x) == index' = [index EXCEPT ![w] = x]

LEMMA WorksSane ==
  ASSUME TypeOK, WorkSane, NEW w \in Workers, NEW x, Works(w, x), Sane(w, x)
  PROVE  index' \in [Workers -> WorkRec] /\ WorkSane'
<1>1. index \in [Workers -> WorkRec]
  BY TypeParts
<1>2. index'[w] = x /\ \A v \in Workers \ {w} : index'[v] = index[v]
  BY <1>1 DEF Works
<1>3. index' \in [Workers -> WorkRec]
  BY <1>1 DEF Works, Sane
<1>4. ASSUME NEW v \in Workers PROVE Sane(v, index'[v])
  BY <1>2 DEF WorkSane
<1> QED BY <1>3, <1>4 DEF WorkSane

(* Each step of a worker keeps its job sane. *)
LEMMA WorkStepSane ==
  ASSUME TypeOK, WorkSane, NEW w \in Workers, IndexStep(w)
  PROVE  index' \in [Workers -> WorkRec] /\ WorkSane'
<1> DEFINE i == index[w]
<1>0. i \in WorkRec /\ index \in [Workers -> WorkRec] /\ PackOf[w] \in Rows
  BY TypeParts, Places
<1>1. /\ i.job = "queued" => i.attempts < MaxAttempts
      /\ w = General => i.attempts = 0
      /\ i.pc = "close" => i.end # "skipped"
      /\ i.pc # "idle" => i.job = "running"
  BY DEF WorkSane, Sane
<1> SUFFICES \E x : Works(w, x) /\ Sane(w, x)
  BY WorksSane
<1>4. CASE IndexObserve(w)
  <2> DEFINE r == PackOf[w]
             new == run[r].status = "none"
             x == [i EXCEPT !.job = "running", !.attempts = IF w = General THEN i.attempts ELSE i.attempts + 1,
                     !.pc = IF new THEN "stage" ELSE IF Reopenable(r) THEN "drop" ELSE "commit",
                     !.seen = IF Reopenable(r) THEN run[r].status ELSE "none",
                     !.left = IF new THEN Chunks ELSE {}]
  <2>1. Works(w, x)
    BY <1>0, <1>4 DEF IndexObserve, Works
  <2>2. (IF w = General THEN i.attempts ELSE i.attempts + 1) \in 0 .. MaxAttempts
    BY <1>0, <1>1, <1>4, DocumentsAssumption DEF IndexObserve, WorkRec
  <2>3. run[r].status \in Statuses
    BY <1>0, TypeParts DEF RunRec
  <2>4. Sane(w, x)
    BY <1>0, <1>1, <2>2, <2>3 DEF Sane, WorkRec, Statuses
  <2> QED BY <2>1, <2>4
<1>5. CASE IndexDrop(w)
  <2>1. Works(w, [i EXCEPT !.pc = "swap", !.end = "skipped"])
    BY <1>0, <1>5 DEF IndexDrop, SetWork, Works
  <2>2. Sane(w, [i EXCEPT !.pc = "swap", !.end = "skipped"])
    BY <1>0, <1>1, <1>5 DEF IndexDrop, Sane, WorkRec
  <2> QED BY <2>1, <2>2
<1>6. CASE IndexSwap(w)
  <2> DEFINE x == [i EXCEPT !.pc = "stage", !.left = Chunks, !.seen = "none"]
             y == [i EXCEPT !.pc = "commit", !.seen = "none"]
  <2>1. Works(w, x) \/ Works(w, y)
    BY <1>0, <1>6 DEF IndexSwap, Works
  <2>2. Sane(w, x) /\ Sane(w, y)
    BY <1>0, <1>1, <1>6 DEF IndexSwap, Sane, WorkRec, Statuses
  <2> QED BY <2>1, <2>2
<1>7. CASE IndexStage(w)
  <2> PICK k \in i.left :
        index' = [index EXCEPT ![w].left = @ \ {k},
                               ![w].pc = IF i.left = {k} THEN "close" ELSE "stage",
                               ![w].end = IF i.left = {k} THEN "succeeded" ELSE @]
    BY <1>7 DEF IndexStage
  <2> DEFINE x == [i EXCEPT !.left = i.left \ {k},
                            !.pc = IF i.left = {k} THEN "close" ELSE "stage",
                            !.end = IF i.left = {k} THEN "succeeded" ELSE i.end]
  <2>1. Works(w, x)
    BY <1>0 DEF Works
  <2>2. Sane(w, x)
    BY <1>0, <1>1, <1>7 DEF IndexStage, Sane, WorkRec, Terminal
  <2> QED BY <2>1, <2>2
<1>8. CASE IndexStageFails(w)
  <2> DEFINE x == [i EXCEPT !.pc = "close", !.end = "failed", !.left = {}]
  <2>1. Works(w, x)
    BY <1>0, <1>8 DEF IndexStageFails, Works
  <2>2. Sane(w, x)
    BY <1>0, <1>1, <1>8 DEF IndexStageFails, Sane, WorkRec, Terminal
  <2> QED BY <2>1, <2>2
<1>9. CASE IndexClose(w) \/ IndexCloseFails(w)
  <2> DEFINE x(e) == [i EXCEPT !.pc = "commit", !.end = e]
  <2>1. Works(w, x(i.end)) \/ Works(w, x("failed"))
    BY <1>0, <1>9 DEF IndexClose, IndexCloseFails, SetWork, Works
  <2>2. Sane(w, x(i.end)) /\ Sane(w, x("failed"))
    BY <1>0, <1>1, <1>9 DEF IndexClose, IndexCloseFails, Sane, WorkRec, Terminal
  <2> QED BY <2>1, <2>2
<1>10. CASE IndexCommit(w)
  <2> DEFINE x == Resting(IF w = General \/ (i.end = "failed" /\ TryAgain(w)) THEN "queued" ELSE "done", i.attempts)
  <2>1. Works(w, x)
    BY <1>0, <1>10 DEF IndexCommit, JobOver, Works
  <2>2. Sane(w, x)
    BY <1>0, <1>1, DocumentsAssumption DEF Resting, TryAgain, Sane, WorkRec, Statuses
  <2> QED BY <2>1, <2>2
<1> QED BY <1>4, <1>5, <1>6, <1>7, <1>8, <1>9, <1>10 DEF IndexStep

-----------------------------------------------------------------------------
(* Every step keeps the types and the jobs sane. *)
LEMMA TypeStep == TypeOK /\ WorkSane /\ [Next]_vars => TypeOK' /\ WorkSane'
<1> SUFFICES ASSUME TypeOK, WorkSane, [Next]_vars PROVE TypeOK' /\ WorkSane'
  OBVIOUS
<1>a. /\ fan \in FanRec /\ run \in [Rows -> RunRec] /\ cand \subseteq CandType
      /\ reader \in ReaderRec
      /\ index \in [Workers -> WorkRec] /\ cjob \in [Keys -> JobStates]
      /\ commit \in [Committers -> CommitRec] /\ lock \in Locks
      /\ poll \in [Pollers -> PollRec]
      /\ faults \in 0 .. MaxFaults /\ claims \in 0 .. MaxClaims
  BY TypeParts
<1>b. UNCHANGED index => WorkSane'
  BY DEF WorkSane
<1>1. CASE FanRow
  <2>1. Head(fan.specs) \in Rows
    BY <1>1, <1>a, Places DEF FanRow, FanRec
  <2>2. run' \in [Rows -> RunRec]
    BY <1>1, <1>a, <2>1, StoreTyped DEF FanRow, EnsureRunPending, Statuses, Open
  <2>3. fan' \in FanRec
    BY <1>1, <1>a DEF FanRow, FanRec
  <2> QED BY <1>1, <1>a, <1>b, <2>2, <2>3, TypePartsPrime DEF FanRow, bounds
<1>2. CASE FanJob
  <2> DEFINE r == Head(fan.specs)
             x == [index[r] EXCEPT !.job = IF index[r].job = "none" THEN "queued" ELSE index[r].job]
  <2>1. r \in Workers /\ Tail(fan.specs) \in Seq(InProcess)
    BY <1>2, <1>a, Places DEF FanJob, FanRec
  <2>2. fan' \in FanRec
    BY <1>2, <1>a, <2>1 DEF FanJob, FanRec
  <2> HIDE DEF r
  <2>3. Works(r, x)
    BY <1>2, <1>a, <2>1 DEF FanJob, Works, r
  <2>4. Sane(r, x)
    BY <2>1 DEF WorkSane, Sane, WorkRec
  <2>5. index' \in [Workers -> WorkRec] /\ WorkSane'
    BY <2>1, <2>3, <2>4, WorksSane
  <2> QED BY <1>2, <1>a, <2>2, <2>5, TypePartsPrime DEF FanJob, bounds
<1>3. CASE PlanExternal \/ FanDies
  <2>1. Unclaimed("pending") \in RunRec
    BY DEF Unclaimed, RunRec, Statuses, Open
  <2>2. run' \in [Rows -> RunRec]
    BY <1>3, <1>a, <2>1 DEF PlanExternal, FanDies
  <2>3. fan' \in FanRec
    <3>1. CASE PlanExternal
      BY <1>a, <3>1 DEF PlanExternal, FanRec
    <3>2. CASE FanDies
      <4>1. <<>> \in Seq(InProcess) /\ {} \in SUBSET Remote
        OBVIOUS
      <4>2. fan' = [specs |-> <<>>, row |-> FALSE, external |-> {}]
        BY <3>2 DEF FanDies
      <4> QED BY <4>1, <4>2 DEF FanRec
    <3> QED BY <1>3, <3>1, <3>2
  <2>4. faults' \in 0 .. MaxFaults /\ claims' \in 0 .. MaxClaims
    BY <1>3, <1>a, StoreTyped DEF PlanExternal, FanDies, bounds
  <2> QED BY <1>3, <1>a, <1>b, <2>2, <2>3, <2>4, TypePartsPrime DEF PlanExternal, FanDies
<1>4. ASSUME NEW w \in Workers, IndexStep(w) PROVE TypeOK' /\ WorkSane'
  <2>0. index' \in [Workers -> WorkRec] /\ WorkSane' /\ PackOf[w] \in Rows
    BY <1>4, WorkStepSane, Places
  <2>1. CASE IndexObserve(w)
    <3>1. run' \in [Rows -> RunRec]
      BY <1>a, <2>0, <2>1, StoreTyped DEF IndexObserve, Statuses, Open
    <3>2. claims' \in 0 .. MaxClaims
      <4>1. CASE w = General /\ Harness
        BY <1>a, <2>1, <4>1, DocumentsAssumption DEF IndexObserve
      <4>2. CASE ~(w = General /\ Harness)
        BY <1>a, <2>1, <4>2 DEF IndexObserve
      <4> QED BY <4>1, <4>2
    <3> QED BY <1>a, <2>0, <2>1, <3>1, <3>2, TypePartsPrime DEF IndexObserve, IndexRest
  <2>2. CASE IndexDrop(w)
    <3>1. cand' \subseteq CandType /\ commit' \in [Committers -> CommitRec]
      BY <2>0, <2>2, StoreTyped DEF IndexDrop
    <3> QED BY <1>a, <2>0, <2>2, <3>1, TypePartsPrime DEF IndexDrop, IndexRest, bounds
  <2>3. CASE IndexSwap(w)
    <3>1. run' \in [Rows -> RunRec]
      BY <1>a, <2>0, <2>3, StoreTyped DEF IndexSwap, Statuses, Open
    <3> QED BY <1>a, <2>0, <2>3, <3>1, TypePartsPrime DEF IndexSwap, IndexRest, bounds
  <2>4. CASE IndexStage(w)
    <3>1. index[w].left \in SUBSET Chunks
      BY <1>a DEF WorkRec
    <3>2. \A k \in index[w].left : {k} \in SUBSET (Chunks \cup {WholeDocument})
      BY <3>1
    <3>3. cand' \subseteq CandType
      BY <2>0, <2>4, <3>2, StoreTyped DEF IndexStage
    <3> QED BY <1>a, <2>0, <2>4, <3>3, TypePartsPrime DEF IndexStage, IndexRest, bounds
  <2>5. CASE IndexStageFails(w)
    <3>1. index[w].left \in SUBSET Chunks
      BY <1>a DEF WorkRec
    <3>2. cand' \subseteq CandType
      BY <2>0, <2>5, <3>1, StoreTyped DEF IndexStageFails
    <3>3. faults' \in 0 .. MaxFaults /\ claims' \in 0 .. MaxClaims
      BY <2>5, StoreTyped DEF IndexStageFails
    <3> QED BY <1>a, <2>0, <2>5, <3>2, <3>3, TypePartsPrime DEF IndexStageFails, IndexRest
  <2>6. CASE IndexClose(w)
    <3>1. index[w].end \in Statuses
      BY <1>a, <2>6 DEF IndexClose, WorkSane, Sane, WorkRec, Statuses, Terminal
    <3>2. run' \in [Rows -> RunRec]
      BY <2>0, <2>6, <3>1, StoreTyped DEF IndexClose, FinalizeRun
    <3> QED BY <1>a, <2>0, <2>6, <3>2, TypePartsPrime DEF IndexClose, IndexRest, bounds
  <2>7. CASE IndexCloseFails(w)
    <3>1. run' \in [Rows -> RunRec]
      BY <1>a, <2>0, <2>7, StoreTyped DEF IndexCloseFails, Statuses, Terminal
    <3>2. faults' \in 0 .. MaxFaults /\ claims' \in 0 .. MaxClaims
      BY <2>7, StoreTyped DEF IndexCloseFails
    <3> QED BY <1>a, <2>0, <2>7, <3>1, <3>2, TypePartsPrime DEF IndexCloseFails, IndexRest
  <2>8. CASE IndexCommit(w)
    <3>1. CASE w \in Packs
      BY <1>a, <2>8, <3>1, Places, CommitTyped, StoreTyped, TypePartsPrime, <2>0
      DEF IndexCommit, IndexRest, bounds
    <3>2. CASE w \notin Packs
      <4>1. commit' \in [Committers -> CommitRec]
        BY <1>a, <2>8, <3>2, Places, CommitTyped DEF IndexCommit
      <4> QED BY <1>a, <2>0, <2>8, <3>2, <4>1, TypePartsPrime DEF IndexCommit, IndexRest, bounds
    <3> QED BY <3>1, <3>2
  <2> QED BY <1>4, <2>1, <2>2, <2>3, <2>4, <2>5, <2>6, <2>7, <2>8 DEF IndexStep
<1>5. ASSUME NEW c \in Committers, CommitStep(c) PROVE TypeOK' /\ WorkSane'
  <2>0. UNCHANGED CommitRest /\ WorkSane'
    BY <1>5, <1>b DEF CommitStep, CommitClaim, CommitDefers, CommitSettled, CommitLock, CommitLoad,
                CommitMark, CommitFails, CommitRest
  <2>a. "done" \in JobStates /\ "queued" \in JobStates
    BY DEF JobStates
  <2>1. CASE CommitClaim(c)
    <3>1. commit' \in [Committers -> CommitRec]
      BY <2>1, CommitTyped, DocumentsAssumption DEF CommitClaim
    <3>2. cjob' \in [Keys -> JobStates]
      BY <1>a, <2>1 DEF CommitClaim, JobStates
    <3> QED BY <1>a, <2>0, <2>1, <3>1, <3>2, TypePartsPrime DEF CommitClaim, CommitRest, bounds
  <2>2. CASE CommitDefers(c)
    BY <1>a, <2>0, <2>a, <2>2, CommitTyped, TypePartsPrime DEF CommitDefers, CommitRest, bounds
  <2>3. CASE CommitSettled(c)
    <3>1. commit' \in [Committers -> CommitRec]
      BY <1>a, <2>3 DEF CommitSettled, CommitRec
    <3> QED BY <1>a, <2>0, <2>3, <3>1, TypePartsPrime DEF CommitSettled, CommitRest, bounds
  <2>4. CASE CommitLock(c)
    <3>1. Pending \in SUBSET CandType
      BY <1>a DEF Pending
    <3>2. CASE Pending = {}
      BY <1>a, <2>0, <2>a, <2>4, <3>2, CommitTyped, TypePartsPrime
      DEF CommitLock, CommitLoad, CommitRest, bounds
    <3>3. CASE Pending # {}
      <4>1. commit' \in [Committers -> CommitRec]
        BY <1>a, <2>4, <3>1, <3>3 DEF CommitLock, CommitLoad, CommitRec
      <4>2. lock' \in Locks
        BY <1>a, <2>4, <3>3 DEF CommitLock, CommitLoad, Locks
      <4> QED BY <1>a, <2>0, <2>4, <3>3, <4>1, <4>2, TypePartsPrime
              DEF CommitLock, CommitLoad, CommitRest, bounds
    <3> QED BY <3>2, <3>3
  <2>6. CASE CommitMark(c)
    <3>1. commit[c].pod \in Pods
      BY <1>a DEF CommitRec
    <3>2. \A x \in CandType : [x EXCEPT !.decided = commit[c].pod] \in CandType
      BY <3>1 DEF CandType
    <3>3. cand' \subseteq CandType
      BY <1>a, <2>6, <3>2 DEF CommitMark
    <3> QED BY <1>a, <2>0, <2>a, <2>6, <3>3, CommitTyped, TypePartsPrime
            DEF CommitMark, CommitRest, bounds
  <2>7. CASE CommitFails(c)
    <3>1. faults' \in 0 .. MaxFaults /\ claims' \in 0 .. MaxClaims
      BY <2>7, StoreTyped DEF CommitFails
    <3> QED BY <1>a, <2>0, <2>a, <2>7, <3>1, CommitTyped, TypePartsPrime DEF CommitFails, CommitRest
  <2> QED BY <1>5, <2>1, <2>2, <2>3, <2>4, <2>6, <2>7 DEF CommitStep
<1>6. ASSUME NEW q \in Pollers, PollStep(q) PROVE TypeOK' /\ WorkSane'
  <2>a. poll[q].row \in Remote /\ poll[q].row \in Rows
    BY <1>a DEF PollRec, Rows
  <2>b. UNCHANGED PollRest
    BY <1>6 DEF PollStep, PollClaim, PollHeartbeat, PollFail, PollSubmit, PollDrop,
                PollInsert, PollError, PollClose
  <2>0. UNCHANGED PollRest /\ WorkSane' /\ poll[q].row \in Remote /\ poll[q].row \in Rows
    BY <1>b, <2>a, <2>b DEF PollRest
  <2>1. ASSUME NEW r \in Remote, PollClaim(q, r) PROVE TypeOK'
    <3>1. run' \in [Rows -> RunRec]
      BY <1>a, <2>1 DEF PollClaim, RunRec, Statuses, Open
    <3>2. poll' \in [Pollers -> PollRec]
      BY <1>a, <2>1 DEF PollClaim, PollRec
    <3>3. claims' \in 0 .. MaxClaims
      BY <1>a, <2>1, DocumentsAssumption DEF PollClaim
    <3> QED BY <1>a, <2>0, <2>1, <3>1, <3>2, <3>3, TypePartsPrime DEF PollClaim, PollRest
  <2>2. CASE PollHeartbeat(q)
    <3>1. run' \in [Rows -> RunRec]
      BY <1>a, <2>2 DEF PollHeartbeat, RunRec
    <3> QED BY <1>a, <2>0, <2>2, <3>1, TypePartsPrime DEF PollHeartbeat, PollRest, bounds
  <2>3. CASE PollFail(q)
    <3>1. run' \in [Rows -> RunRec]
      <4>1. \A s \in {"pending", "failed"} :
              [status |-> s, stale |-> FALSE, token |-> IF s = "pending" THEN NoPoller ELSE q] \in RunRec
        BY DEF RunRec, Statuses, Open, Terminal
      <4> QED BY <1>a, <2>3, <4>1 DEF PollFail
    <3>2. poll' \in [Pollers -> PollRec]
      BY <1>a, <2>3 DEF PollFail, PollRec
    <3> QED BY <1>a, <2>0, <2>3, <3>1, <3>2, TypePartsPrime DEF PollFail, PollRest, bounds
  <2>4. CASE PollSubmit(q)
    <3>1. poll' \in [Pollers -> PollRec]
      BY <1>a, <2>4 DEF PollSubmit, PollRec
    <3> QED BY <1>a, <2>0, <2>4, <3>1, TypePartsPrime DEF PollSubmit, PollRest, bounds
  <2>5. CASE PollDrop(q)
    <3>1. poll' \in [Pollers -> PollRec]
      BY <1>a, <2>5 DEF PollDrop, PollRec
    <3> QED BY <1>a, <2>0, <2>5, <3>1, StoreTyped, TypePartsPrime DEF PollDrop, PollRest, bounds
  <2>6. CASE PollInsert(q)
    <3>1. poll' \in [Pollers -> PollRec]
      BY <1>a, <2>6 DEF PollInsert, PollRec
    <3>2. cand' \subseteq CandType
      BY <2>0, <2>6, StoreTyped DEF PollInsert
    <3> QED BY <1>a, <2>0, <2>6, <3>1, <3>2, TypePartsPrime DEF PollInsert, PollRest, bounds
  <2>7. CASE PollError(q)
    <3>1. poll' \in [Pollers -> PollRec]
      BY <1>a, <2>7 DEF PollError, PollRec
    <3>2. faults' \in 0 .. MaxFaults /\ claims' \in 0 .. MaxClaims
      BY <2>7, StoreTyped DEF PollError
    <3> QED BY <1>a, <2>0, <2>7, <3>1, <3>2, TypePartsPrime DEF PollError, PollRest
  <2>8. CASE PollClose(q)
    <3>1. poll' \in [Pollers -> PollRec]
      BY <1>a, <2>8 DEF PollClose, PollRec
    <3>2. run' \in [Rows -> RunRec]
      BY <2>0, <2>8, StoreTyped DEF PollClose, Statuses, Terminal
    <3>3. commit' \in [Committers -> CommitRec]
      BY <1>a, <2>8, Places, CommitTyped DEF PollClose
    <3> QED BY <1>a, <2>0, <2>8, <3>1, <3>2, <3>3, TypePartsPrime DEF PollClose, PollRest, bounds
  <2> QED BY <1>6, <2>0, <2>1, <2>2, <2>3, <2>4, <2>5, <2>6, <2>7, <2>8 DEF PollStep
<1>7. CASE ReconcileRuns
  <2>1. ASSUME NEW r \in Rows PROVE Reaped(r) \in RunRec
    <3>1. run[r] \in RunRec
      BY <1>a
    <3>2. [run[r] EXCEPT !.status = "failed", !.stale = FALSE] \in RunRec
      BY <3>1 DEF RunRec, Statuses, Terminal
    <3>3. Unclaimed("pending") \in RunRec
      BY DEF Unclaimed, RunRec, Statuses, Open
    <3> QED BY <3>1, <3>2, <3>3 DEF Reaped
  <2>2. run' \in [Rows -> RunRec]
    BY <1>7, <2>1 DEF ReconcileRuns
  <2>3. cjob' \in [Keys -> JobStates]
    BY <1>7, <1>a DEF ReconcileRuns, JobStates
  <2> QED BY <1>7, <1>a, <1>b, <2>2, <2>3, TypePartsPrime DEF ReconcileRuns, bounds
<1>8. ASSUME NEW r \in Rows, GoesStale(r) PROVE TypeOK' /\ WorkSane'
  <2>1. run' \in [Rows -> RunRec]
    BY <1>8, <1>a DEF GoesStale, RunRec
  <2> QED BY <1>8, <1>a, <1>b, <2>1, TypePartsPrime DEF GoesStale, bounds
<1>9. ASSUME NEW p \in Pods, Crash(p) PROVE TypeOK' /\ WorkSane'
  <2>1. faults' \in 0 .. MaxFaults /\ claims' \in 0 .. MaxClaims
    BY <1>9, StoreTyped DEF Crash
  <2>2. cjob' \in [Keys -> JobStates]
    BY <1>9, <1>a DEF Crash, JobStates
  <2>3. NoCommit \in CommitRec
    BY DocumentsAssumption DEF NoCommit, CommitRec
  <2>4. commit' \in [Committers -> CommitRec] /\ lock' \in Locks
    BY <1>9, <1>a, <2>3 DEF Crash, Locks
  <2>5. ASSUME NEW w \in Workers PROVE Sane(w, index'[w])
    <3>1. CASE p # Leader \/ index[w].job # "running"
      BY <1>9, <1>a, <3>1 DEF Crash, WorkSane
    <3>2. CASE p = Leader /\ index[w].job = "running"
      <4>1. index'[w] = Resting(IF TryAgain(w) THEN "queued" ELSE "done", index[w].attempts)
        BY <1>9, <3>2 DEF Crash
      <4>2. index[w].attempts \in 0 .. MaxAttempts /\ (w = General => index[w].attempts = 0)
        BY <1>a DEF WorkRec, WorkSane, Sane
      <4> QED BY <4>1, <4>2 DEF Resting, TryAgain, Sane, WorkRec, Statuses
    <3> QED BY <3>1, <3>2
  <2>6. index' \in [Workers -> WorkRec]
    BY <1>9, <2>5 DEF Crash, Sane
  <2>7. WorkSane'
    BY <2>5 DEF WorkSane
  <2> QED BY <1>9, <1>a, <2>1, <2>2, <2>4, <2>6, <2>7, TypePartsPrime DEF Crash
<1>10. CASE UNCHANGED vars
  BY <1>10, <1>a, <1>b, TypePartsPrime DEF vars
<1>11. CASE GeneralWhole \/ GeneralRaw
  <2> DEFINE x(e) == [index[General] EXCEPT !.pc = "close", !.end = e, !.left = {}]
  <2>1. Works(General, x("succeeded")) \/ Works(General, x("raw"))
    BY <1>11, <1>a, Places DEF GeneralWhole, GeneralRaw, GeneralClose, Works
  <2>2. Sane(General, x("succeeded")) /\ Sane(General, x("raw"))
    <3>1. Sane(General, index[General]) /\ index[General].pc = "stage"
      BY <1>11, Places DEF GeneralWhole, GeneralRaw, Unread, WorkSane
    <3>2. index[General] \in WorkRec /\ index[General].job = "running"
          /\ index[General].attempts = 0
      BY <3>1 DEF Sane
    <3> QED BY <3>2 DEF Sane, WorkRec, Terminal
  <2>3. index' \in [Workers -> WorkRec] /\ WorkSane'
    BY <2>1, <2>2, Places, WorksSane
  <2>4. cand' \subseteq CandType
    BY <1>11, <1>a, Places, StoreTyped DEF GeneralWhole, GeneralRaw
  <2> QED BY <1>11, <1>a, <2>3, <2>4, TypePartsPrime DEF GeneralWhole, GeneralRaw, IndexRest, bounds
<1>12. CASE Promote
  <2>1. run' \in [Rows -> RunRec]
    BY <1>12, <1>a DEF Promote, RunRec, Statuses, Open
  <2>2. reader' \in ReaderRec
    BY <1>12, <1>a DEF Promote, ReaderRec
  <2> QED BY <1>12, <1>a, <1>b, <2>1, <2>2, TypePartsPrime DEF Promote, bounds
<1>13. CASE AgentLeaves
  <2>1. Works(General, Resting("queued", 0))
    BY <1>13 DEF AgentLeaves, Works
  <2>2. Sane(General, Resting("queued", 0))
    BY DocumentsAssumption DEF Resting, Sane, WorkRec, Statuses
  <2>3. index' \in [Workers -> WorkRec] /\ WorkSane'
    BY <2>1, <2>2, Places, WorksSane
  <2> QED BY <1>13, <1>a, <2>3, TypePartsPrime DEF AgentLeaves, IndexRest, bounds
<1> QED
  BY <1>1, <1>2, <1>3, <1>4, <1>5, <1>6, <1>7, <1>8, <1>9, <1>10, <1>11, <1>12, <1>13
  DEF Next, FanOut

LEMMA TypeInit == Init => TypeOK /\ WorkSane
<1> SUFFICES ASSUME Init PROVE TypeOK /\ WorkSane
  OBVIOUS
<1>1. fan \in FanRec /\ reader \in ReaderRec
  <2>1. PICK plan \in Plans :
          fan = [specs |-> plan.specs, row |-> FALSE, external |-> plan.external]
    BY DEF Init
  <2>2. plan.specs \in Seq(InProcess) /\ plan.external \in SUBSET Remote
    BY DocumentsAssumption
  <2>3. reader \in ReaderRec
    BY DEF Init, ReaderRec
  <2> QED BY <2>1, <2>2, <2>3 DEF FanRec
<1>2. Unclaimed("none") \in RunRec
  BY DEF Unclaimed, RunRec, Statuses
<1>3. run \in [Rows -> RunRec]
  BY <1>2 DEF Init
<1>4. ASSUME NEW w \in Workers PROVE Sane(w, index[w])
  BY DocumentsAssumption DEF Init, Resting, Sane, WorkRec, Statuses
<1>5. index \in [Workers -> WorkRec]
  BY <1>4 DEF Init, Sane
<1>6. cjob \in [Keys -> JobStates]
  BY DEF Init, JobStates
<1>7. NoCommit \in CommitRec
  BY DocumentsAssumption DEF NoCommit, CommitRec
<1>8. commit \in [Committers -> CommitRec] /\ lock \in Locks
  BY <1>7 DEF Init, Locks
<1>9. poll \in [Pollers -> PollRec]
  <2>1. Pollers # {} => (CHOOSE r \in Remote : TRUE) \in Remote
    BY DocumentsAssumption
  <2> QED BY <2>1 DEF Init, PollRec
<1>10. faults \in 0 .. MaxFaults /\ claims \in 0 .. MaxClaims
  BY DocumentsAssumption DEF Init
<1>11. TypeOK
  BY <1>1, <1>3, <1>5, <1>6, <1>8, <1>9, <1>10, TypeParts DEF Init
<1>12. WorkSane
  BY <1>4 DEF WorkSane
<1> QED BY <1>11, <1>12

(* Every reachable state of the document pipeline is well typed: no job    *)
(* runs more often than its attempts and no row takes an unknown status,   *)
(* for any packs, reindex jobs, remote indexers and bounds.                *)
THEOREM TypeCorrect == Spec => []TypeOK
<1>1. Spec => [](TypeOK /\ WorkSane)
  BY TypeInit, TypeStep, PTL DEF Spec
<1> QED BY <1>1, PTL

-----------------------------------------------------------------------------
(* A chunk of run r is staged or decided, by itself or with the document. *)
HasChunk(r, k) == \E x \in cand : x.row = r /\ x.chunk \in {k, WholeDocument}

(* What a worker has staged of its pack, at each point of its run. *)
Staged(r) ==
  /\ index[r].pc = "stage" => \A k \in Chunks \ index[r].left : HasChunk(r, k)
  /\ index[r].pc = "close" /\ index[r].end = "succeeded" => \A k \in Chunks : HasChunk(r, k)

(* A run its worker may yet drop or close has not succeeded. *)
BusyIsOpen(r) ==
  index[r].pc \in {"drop", "swap", "stage", "close"} => run[r].status # "succeeded"

Whole(r) == run[r].status = "succeeded" => \A k \in Chunks : HasChunk(r, k)

RowInv(r) == Staged(r) /\ BusyIsOpen(r) /\ Whole(r)

(* A step leaves the row of pack r alone: no candidate of it goes, its run *)
(* does not come to succeed, and its worker rests or has not moved.        *)
KeepsChunks(r) == \A k \in Chunks : HasChunk(r, k) => HasChunk(r, k)'
KeepsRun(r) == run'[r].status = "succeeded" => run[r].status = "succeeded"
KeepsWork(r) ==
  \/ index'[r].pc \in {"idle", "commit"}
  \/ /\ index'[r].pc = index[r].pc /\ index'[r].left = index[r].left
     /\ index'[r].end = index[r].end

LEMMA RowKept ==
  ASSUME NEW r \in InProcess, RowInv(r), KeepsChunks(r), KeepsRun(r), KeepsWork(r)
  PROVE  RowInv(r)'
<1>1. Staged(r)'
  BY DEF RowInv, Staged, KeepsChunks, KeepsWork
<1>2. BusyIsOpen(r)'
  BY DEF RowInv, BusyIsOpen, KeepsRun, KeepsWork
<1>3. Whole(r)'
  BY DEF RowInv, Whole, KeepsChunks, KeepsRun
<1> QED BY <1>1, <1>2, <1>3 DEF RowInv

LEMMA SameCand == cand' = cand => \A r \in InProcess : KeepsChunks(r)
  BY DEF KeepsChunks, HasChunk

LEMMA SameIndex == index' = index => \A r \in InProcess : KeepsWork(r)
  BY DEF KeepsWork

LEMMA SameRun == run' = run => \A r \in InProcess : KeepsRun(r)
  BY DEF KeepsRun

(* An insert removes nothing; a drop removes the rows of its own run. *)
LEMMA InsertKeeps ==
  ASSUME NEW p, NEW ks, InsertBatch(p, ks)
  PROVE  \A r \in InProcess : KeepsChunks(r)
  BY DEF InsertBatch, KeepsChunks, HasChunk

LEMMA DropKeeps ==
  ASSUME NEW p, DropRunCandidates(p)
  PROVE  \A r \in InProcess \ {p} : KeepsChunks(r)
  BY DEF DropRunCandidates, KeepsChunks, HasChunk

(* A status written to one row is not written to another. *)
LEMMA StatusKeeps ==
  ASSUME TypeOK, NEW p \in Rows, NEW s, SetStatus(p, s)
  PROVE  /\ \A r \in InProcess \ {p} : KeepsRun(r)
         /\ run'[p].status = s
         /\ s # "succeeded" => \A r \in InProcess : KeepsRun(r)
<1>1. run \in [Rows -> RunRec] /\ \A r \in InProcess : r \in Rows
  BY TypeParts, Places
<1>2. run'[p].status = s
  BY <1>1 DEF SetStatus, RunRec
<1>3. \A r \in InProcess \ {p} : run'[r] = run[r]
  BY <1>1 DEF SetStatus
<1> QED BY <1>2, <1>3 DEF KeepsRun

-----------------------------------------------------------------------------
(* Where no reindex job reads a pack, a worker is its pack's index job.    *)
LEMMA OwnWorker ==
  ASSUME Reindexers = {}
  PROVE  Workers = InProcess /\ \A w \in Workers : PackOf[w] = w /\ w \in Rows
  BY DocumentsAssumption DEF Workers, Rows

LEMMA RemoteIsNoPack == \A r \in InProcess : r \notin Remote
  BY DocumentsAssumption DEF InProcess, Packs, General

(* A worker's step leaves the other packs' rows alone. *)
LEMMA OtherRows ==
  ASSUME Reindexers = {}, TypeOK, NEW w \in Workers, IndexStep(w), NEW r \in InProcess, r # w
  PROVE  KeepsChunks(r) /\ KeepsRun(r) /\ KeepsWork(r)
<1>0. PackOf[w] = w /\ w \in Rows /\ r \in Workers
  BY OwnWorker
<1>1. KeepsWork(r)
  <2>1. index'[r] = index[r]
    BY <1>0, TypeParts DEF IndexStep, IndexObserve, IndexDrop, IndexSwap, IndexStage, IndexStageFails,
            IndexClose, IndexCloseFails, IndexCommit, SetWork, JobOver
  <2> QED BY <2>1 DEF KeepsWork
<1>2. KeepsChunks(r)
  BY <1>0, SameCand, InsertKeeps, DropKeeps
  DEF IndexStep, IndexObserve, IndexDrop, IndexSwap, IndexStage, IndexStageFails,
      IndexClose, IndexCloseFails, IndexCommit
<1>3. KeepsRun(r)
  BY <1>0, SameRun, StatusKeeps
  DEF IndexStep, IndexObserve, IndexDrop, IndexSwap, IndexStage, IndexStageFails,
      IndexClose, IndexCloseFails, IndexCommit, FinalizeRun
<1> QED BY <1>1, <1>2, <1>3

(* A worker's step keeps what is said of its own pack. *)
LEMMA OwnRow ==
  ASSUME Reindexers = {}, TypeOK, NEW w \in Workers, IndexStep(w), RowInv(w)
  PROVE  RowInv(w)'
<1>0. PackOf[w] = w /\ w \in Rows /\ w \in InProcess
  BY OwnWorker
<1>a. index \in [Workers -> WorkRec] /\ run \in [Rows -> RunRec] /\ index[w] \in WorkRec
  BY TypeParts
<1>1. CASE IndexObserve(w)
  <2>1. CASE run[w].status = "none"
    <3>1. run'[w].status = "running"
      BY <1>0, <1>1, <2>1, StatusKeeps DEF IndexObserve
    <3>2. index'[w].pc = "stage" /\ index'[w].left = Chunks
      BY <1>0, <1>a, <1>1, <2>1 DEF IndexObserve, WorkRec
    <3> QED BY <3>1, <3>2 DEF RowInv, Staged, BusyIsOpen, Whole
  <2>2. CASE run[w].status # "none"
    <3>1. run' = run /\ cand' = cand
      BY <1>0, <1>1, <2>2 DEF IndexObserve
    <3>2. index'[w].pc = IF Reopenable(w) THEN "drop" ELSE "commit"
      BY <1>0, <1>a, <1>1, <2>2 DEF IndexObserve, WorkRec
    <3> QED BY <3>1, <3>2 DEF RowInv, Staged, BusyIsOpen, Whole, HasChunk, Reopenable
  <2> QED BY <2>1, <2>2
<1>2. CASE IndexDrop(w)
  <2>1. index'[w].pc = "swap"
    BY <1>a, <1>2 DEF IndexDrop, SetWork, WorkRec
  <2>2. run' = run /\ run[w].status # "succeeded"
    BY <1>2 DEF IndexDrop, RowInv, BusyIsOpen
  <2> QED BY <2>1, <2>2 DEF RowInv, Staged, BusyIsOpen, Whole
<1>3. CASE IndexSwap(w)
  <2>1. CASE run[w].status = index[w].seen
    <3>1. run'[w].status = "running"
      BY <1>0, <1>3, <2>1, StatusKeeps DEF IndexSwap
    <3>2. index'[w].pc = "stage" /\ index'[w].left = Chunks
      BY <1>0, <1>a, <1>3, <2>1 DEF IndexSwap, WorkRec
    <3> QED BY <3>1, <3>2 DEF RowInv, Staged, BusyIsOpen, Whole
  <2>2. CASE run[w].status # index[w].seen
    <3>1. run' = run /\ cand' = cand
      BY <1>0, <1>3, <2>2 DEF IndexSwap
    <3>2. index'[w].pc = "commit"
      BY <1>0, <1>a, <1>3, <2>2 DEF IndexSwap, WorkRec
    <3> QED BY <1>0, <3>1, <3>2, RowKept, SameCand, SameRun DEF KeepsWork
  <2> QED BY <2>1, <2>2
<1>4. CASE IndexStage(w)
  <2>1. PICK k \in index[w].left :
          /\ InsertBatch(w, {k})
          /\ index' = [index EXCEPT ![w].left = @ \ {k},
                                 ![w].pc = IF index[w].left = {k} THEN "close" ELSE "stage",
                                 ![w].end = IF index[w].left = {k} THEN "succeeded" ELSE @]
    BY <1>0, <1>4 DEF IndexStage
  <2>2. /\ index'[w].left = index[w].left \ {k}
        /\ index'[w].pc = IF index[w].left = {k} THEN "close" ELSE "stage"
    BY <1>a, <2>1 DEF WorkRec
  <2>3. run' = run /\ run[w].status # "succeeded"
    BY <1>4 DEF IndexStage, RowInv, BusyIsOpen
  <2>4. HasChunk(w, k)'
    <3>1. [row |-> w, chunk |-> k, decided |-> NoPod] \in cand'
      BY <2>1 DEF InsertBatch
    <3> QED BY <3>1 DEF HasChunk
  <2>5. \A j \in Chunks \ (index[w].left \ {k}) : HasChunk(w, j)'
    <3>1. \A j \in Chunks \ index[w].left : HasChunk(w, j)
      BY <1>4 DEF IndexStage, RowInv, Staged
    <3>2. KeepsChunks(w)
      BY <1>0, <2>1, InsertKeeps
    <3> QED BY <2>4, <3>1, <3>2 DEF KeepsChunks
  <2>6. Staged(w)'
    BY <2>2, <2>5 DEF Staged
  <2> QED BY <2>3, <2>6 DEF RowInv, BusyIsOpen, Whole
<1>5. CASE IndexStageFails(w)
  <2>1. index'[w].pc = "close" /\ index'[w].end = "failed"
    BY <1>a, <1>5 DEF IndexStageFails, WorkRec
  <2>2. run' = run /\ run[w].status # "succeeded"
    BY <1>5 DEF IndexStageFails, RowInv, BusyIsOpen
  <2> QED BY <2>1, <2>2 DEF RowInv, Staged, BusyIsOpen, Whole
<1>6. CASE IndexClose(w)
  <2>1. index'[w].pc = "commit" /\ cand' = cand
    BY <1>a, <1>6 DEF IndexClose, SetWork, WorkRec
  <2>2. run'[w].status = index[w].end
    BY <1>0, <1>6, StatusKeeps DEF IndexClose, FinalizeRun
  <2>3. Whole(w)'
    BY <1>6, <2>1, <2>2 DEF IndexClose, RowInv, Staged, Whole, HasChunk
  <2> QED BY <2>1, <2>3 DEF RowInv, Staged, BusyIsOpen
<1>7. CASE IndexCloseFails(w)
  <2>1. index'[w].pc = "commit" /\ cand' = cand
    BY <1>a, <1>7 DEF IndexCloseFails, SetWork, WorkRec
  <2>2. KeepsRun(w)
    BY <1>0, <1>7, SameRun, StatusKeeps DEF IndexCloseFails
  <2> QED BY <1>0, <2>1, <2>2, RowKept, SameCand DEF KeepsWork
<1>8. CASE IndexCommit(w)
  <2>1. index'[w].pc = "idle"
    BY <1>a, <1>8 DEF IndexCommit, JobOver, Resting
  <2>2. run' = run /\ cand' = cand
    BY <1>8 DEF IndexCommit
  <2> QED BY <1>0, <2>1, <2>2, RowKept, SameCand, SameRun DEF KeepsWork
<1> QED BY <1>1, <1>2, <1>3, <1>4, <1>5, <1>6, <1>7, <1>8 DEF IndexStep

(* A batch for the whole document has every chunk in it; a run kept raw    *)
(* does not succeed.                                                       *)
LEMMA GeneralRow ==
  ASSUME TypeOK, GeneralWhole \/ GeneralRaw, NEW r \in InProcess, RowInv(r)
  PROVE  RowInv(r)'
<1>a. index \in [Workers -> WorkRec] /\ index[General] \in WorkRec /\ r \in Workers /\ run' = run
  BY TypeParts, Places DEF GeneralWhole, GeneralRaw
<1>b. index[General].pc = "stage"
  BY DEF GeneralWhole, GeneralRaw, Unread
<1>c. KeepsChunks(r)
  BY SameCand, InsertKeeps DEF GeneralWhole, GeneralRaw
<1>1. CASE r # General
  <2>1. index'[r] = index[r]
    BY <1>a, <1>1 DEF GeneralWhole, GeneralRaw, GeneralClose
  <2> QED BY <1>a, <1>c, <2>1, RowKept, SameRun DEF KeepsWork
<1>2. CASE r = General
  <2>1. index'[r].pc = "close" /\ (GeneralRaw => index'[r].end = "raw")
    BY <1>a, <1>2 DEF GeneralWhole, GeneralRaw, GeneralClose, WorkRec
  <2>2. run[r].status # "succeeded"
    BY <1>b, <1>2 DEF RowInv, BusyIsOpen
  <2>3. GeneralWhole => \A k \in Chunks : HasChunk(r, k)'
    <3>1. GeneralWhole => [row |-> r, chunk |-> WholeDocument, decided |-> NoPod] \in cand'
      BY <1>2 DEF GeneralWhole, InsertBatch
    <3> QED BY <3>1 DEF HasChunk
  <2> QED BY <1>a, <2>1, <2>2, <2>3 DEF RowInv, Staged, BusyIsOpen, Whole
<1> QED BY <1>1, <1>2

-----------------------------------------------------------------------------
(* Every step keeps the rows of every pack. *)
LEMMA RowStep ==
  ASSUME Reindexers = {}, TypeOK, WorkSane, [Next]_vars, NEW r \in InProcess, RowInv(r)
  PROVE  RowInv(r)'
<1>0. r \in Workers /\ r \in Rows /\ r \notin Remote
  BY OwnWorker, RemoteIsNoPack DEF Workers, Rows
<1>a. /\ run \in [Rows -> RunRec] /\ index \in [Workers -> WorkRec]
      /\ fan \in FanRec /\ poll \in [Pollers -> PollRec]
  BY TypeParts
<1>1. CASE FanRow
  <2>1. Head(fan.specs) \in Rows
    BY <1>1, <1>a, Places DEF FanRow, FanRec
  <2>2. KeepsRun(r)
    BY <1>1, <2>1, SameRun, StatusKeeps DEF FanRow, EnsureRunPending
  <2> QED BY <1>1, <2>2, RowKept, SameCand, SameIndex DEF FanRow
<1>2. CASE FanJob
  <2>1. /\ index'[r].pc = index[r].pc /\ index'[r].left = index[r].left
        /\ index'[r].end = index[r].end
    <3>1. Head(fan.specs) \in Workers
      BY <1>2, <1>a, Places DEF FanJob, FanRec
    <3> QED BY <1>0, <1>a, <1>2, <3>1 DEF FanJob, WorkRec
  <2> QED BY <1>2, <2>1, RowKept, SameCand, SameRun DEF FanJob, KeepsWork
<1>3. CASE PlanExternal \/ FanDies
  <2>1. run'[r] = run[r]
    BY <1>0, <1>3, <1>a DEF PlanExternal, FanDies, FanRec
  <2> QED BY <1>3, <2>1, RowKept, SameCand, SameIndex DEF PlanExternal, FanDies, KeepsRun
<1>4. ASSUME NEW w \in Workers, IndexStep(w) PROVE RowInv(r)'
  BY <1>4, OwnRow, OtherRows, RowKept
<1>5. ASSUME NEW c \in Committers, CommitStep(c) PROVE RowInv(r)'
  <2>1. run' = run /\ index' = index
    BY <1>5 DEF CommitStep, CommitClaim, CommitDefers, CommitSettled, CommitLock, CommitLoad,
                CommitMark, CommitFails, CommitRest
  <2>2. CASE CommitMark(c)
    <3>1. ASSUME NEW x \in cand
          PROVE  \E y \in cand' : y.row = x.row /\ y.chunk = x.chunk
      <4> DEFINE y == [x EXCEPT !.decided = commit[c].pod]
      <4>1. x \in CandType
        BY TypeParts
      <4>2. x \in cand' \/ y \in cand'
        BY <2>2 DEF CommitMark
      <4> QED BY <4>1, <4>2 DEF CandType
    <3>2. KeepsChunks(r)
      BY <3>1 DEF KeepsChunks, HasChunk
    <3> QED BY <2>1, <3>2, RowKept, SameRun, SameIndex
  <2>3. CASE ~CommitMark(c)
    <3>1. cand' = cand
      BY <1>5, <2>3 DEF CommitStep, CommitClaim, CommitDefers, CommitSettled, CommitLock,
                        CommitLoad, CommitFails
    <3> QED BY <2>1, <3>1, RowKept, SameCand, SameRun, SameIndex
  <2> QED BY <2>2, <2>3
<1>6. ASSUME NEW q \in Pollers, PollStep(q) PROVE RowInv(r)'
  <2>1. index' = index
    BY <1>6 DEF PollStep, PollClaim, PollHeartbeat, PollFail, PollSubmit, PollDrop, PollInsert,
                PollError, PollClose, PollRest
  <2>2. poll[q].row # r /\ poll[q].row \in Rows
    BY <1>0, <1>a DEF PollRec, Rows
  <2>3. KeepsChunks(r)
    BY <1>6, <2>2, SameCand, InsertKeeps, DropKeeps
    DEF PollStep, PollClaim, PollHeartbeat, PollFail, PollSubmit, PollDrop, PollInsert,
        PollError, PollClose
  <2>4. KeepsRun(r)
    <3>1. ASSUME NEW p \in Remote, PollClaim(q, p) PROVE run'[r] = run[r]
      BY <1>0, <1>a, <3>1 DEF PollClaim
    <3>2. CASE PollHeartbeat(q) \/ PollFail(q)
      BY <1>0, <1>a, <2>2, <3>2 DEF PollHeartbeat, PollFail, KeepsRun
    <3>3. CASE PollClose(q)
      BY <2>2, <3>3, StatusKeeps DEF PollClose
    <3>4. CASE PollSubmit(q) \/ PollDrop(q) \/ PollInsert(q) \/ PollError(q)
      BY <3>4, SameRun DEF PollSubmit, PollDrop, PollInsert, PollError
    <3> QED BY <1>6, <3>1, <3>2, <3>3, <3>4 DEF PollStep, KeepsRun
  <2> QED BY <2>1, <2>3, <2>4, RowKept, SameIndex
<1>7. CASE ReconcileRuns
  <2>1. run'[r] = Reaped(r)
    BY <1>0, <1>7 DEF ReconcileRuns
  <2>2. KeepsRun(r)
    BY <1>0, <1>a, <2>1 DEF Reaped, KeepsRun, RunRec
  <2> QED BY <1>7, <2>2, RowKept, SameCand, SameIndex DEF ReconcileRuns
<1>8. ASSUME NEW p \in Rows, GoesStale(p) PROVE RowInv(r)'
  <2>1. KeepsRun(r)
    BY <1>0, <1>a, <1>8 DEF GoesStale, KeepsRun, RunRec
  <2> QED BY <1>8, <2>1, RowKept, SameCand, SameIndex DEF GoesStale
<1>9. ASSUME NEW p \in Pods, Crash(p) PROVE RowInv(r)'
  <2>1. index'[r].pc = "idle" \/ index'[r] = index[r]
    BY <1>0, <1>9 DEF Crash, Resting
  <2> QED BY <1>9, <2>1, RowKept, SameCand, SameRun DEF Crash, KeepsWork
<1>10. CASE UNCHANGED vars
  BY <1>10, RowKept, SameCand, SameRun, SameIndex DEF vars
<1>11. CASE GeneralWhole \/ GeneralRaw
  BY <1>11, GeneralRow
<1>12. CASE Promote
  <2>1. KeepsRun(r)
    BY <1>0, <1>a, <1>12 DEF Promote, KeepsRun, RunRec
  <2> QED BY <1>12, <2>1, RowKept, SameCand, SameIndex DEF Promote
<1>13. CASE AgentLeaves
  <2>1. index'[r].pc = "idle" \/ index'[r] = index[r]
    BY <1>0, <1>a, <1>13 DEF AgentLeaves, Resting
  <2> QED BY <1>13, <2>1, RowKept, SameCand, SameRun DEF AgentLeaves, KeepsWork
<1> QED
  BY <1>1, <1>2, <1>3, <1>4, <1>5, <1>6, <1>7, <1>8, <1>9, <1>10, <1>11, <1>12, <1>13
  DEF Next, FanOut

RowsInv == \A r \in InProcess : RowInv(r)

(* Without reindex jobs a run marked succeeded (finalizeRun) has every     *)
(* chunk staged or decided for good: no retry, no crash of the pod, no     *)
(* remote indexer, no commit and no nightly sweep makes a hole in it.      *)
(* With a reindex job on the same pack this fails: createRun deletes the   *)
(* run's candidates before its compare-and-swap says whose run it is.      *)
THEOREM SucceededIsWholeCorrect == Reindexers = {} => (Spec => []SucceededIsWhole)
<1> SUFFICES ASSUME Reindexers = {} PROVE Spec => []SucceededIsWhole
  OBVIOUS
<1>1. Init => RowsInv
  BY Places DEF Init, Unclaimed, Resting, RowsInv, RowInv, Staged, BusyIsOpen, Whole
<1>2. TypeOK /\ WorkSane /\ RowsInv /\ [Next]_vars => RowsInv'
  BY RowStep DEF RowsInv
<1>3. RowsInv => SucceededIsWhole
  BY DEF RowsInv, RowInv, Whole, HasChunk, SucceededIsWhole
<1> QED BY <1>1, <1>2, <1>3, TypeInit, TypeStep, PTL DEF Spec

-----------------------------------------------------------------------------
(***************************************************************************)
(* DecidedByOne.  That two commits of one process never hold the same      *)
(* candidate is its mutex: only the holder is about to mark, and only a    *)
(* commit that is about to mark holds a batch (Held).  That no candidate   *)
(* of a batch has been decided by a commit of the same process is the      *)
(* other half (Fresh): a candidate is in the store once (OneForm), so what *)
(* is loaded as pending is decided nowhere, and what other processes       *)
(* decide meanwhile they decide as themselves.  OneForm holds because      *)
(* whoever stages a chunk has dropped the run's candidates before, and     *)
(* nobody has staged that chunk in between (ClearInv).                     *)
(***************************************************************************)
Held ==
  /\ \A c \in Committers : commit[c].pc = "mark" => lock[commit[c].pod] = c
  /\ \A c \in Committers : commit[c].batch # {} => commit[c].pc = "mark"

(* A step of commit c: the other commits stay as they are. *)
OthersRest(c) == \A d \in Committers \ {c} : commit'[d] = commit[d]

(* The others keep the locks they hold. *)
OthersLocked(c) ==
  \A d \in Committers \ {c} : lock[commit[d].pod] = d => lock'[commit[d].pod] = d

(* A commit that no candidate is in the hands of begins, waits or ends. *)
LEMMA UnloadedHeld ==
  ASSUME Held, NEW c \in Committers, OthersRest(c), OthersLocked(c),
         commit'[c].batch = {}, commit'[c].pc # "mark"
  PROVE  Held'
  BY DEF Held, OthersRest, OthersLocked

LEMMA EndsFacts ==
  ASSUME TypeOK, NEW c \in Committers, NEW s, CommitEnds(c, s)
  PROVE  OthersRest(c) /\ OthersLocked(c) /\ commit'[c].batch = {} /\ commit'[c].pc = "idle"
<1>1. commit \in [Committers -> CommitRec] /\ lock \in Locks
  BY TypeParts
<1>2. commit'[c] = NoCommit /\ OthersRest(c)
  BY <1>1 DEF CommitEnds, OthersRest
<1>3. ASSUME NEW d \in Committers \ {c}, lock[commit[d].pod] = d PROVE lock'[commit[d].pod] = d
  <2>1. commit[d].pod \in Pods /\ commit[c].pod \in Pods
    BY <1>1 DEF CommitRec
  <2>2. lock' = [lock EXCEPT ![commit[c].pod] = IF lock[commit[c].pod] = c THEN NoCommitter
                                                ELSE lock[commit[c].pod]]
    BY <1>1, <2>1 DEF CommitEnds, Locks
  <2> QED BY <1>1, <1>3, <2>1, <2>2 DEF Locks
<1> QED BY <1>2, <1>3 DEF NoCommit, OthersLocked

LEMMA EndsHeld ==
  ASSUME TypeOK, Held, NEW c \in Committers, NEW s, CommitEnds(c, s)
  PROVE  Held'
  BY EndsFacts, UnloadedHeld

(* A commit begins in some pod. *)
Begins(c) == \E p \in Pods : CommitHere(c, p)

LEMMA BeginsFacts ==
  ASSUME TypeOK, Held, NEW c \in Committers, Begins(c)
  PROVE  OthersRest(c) /\ commit'[c].pc = "count" /\ commit'[c].batch = {}
<1>1. PICK p \in Pods : CommitHere(c, p)
  BY DEF Begins
<1>2. commit \in [Committers -> CommitRec]
  BY TypeParts
<1>3. OthersRest(c) /\ commit'[c].pc = "count" /\ commit'[c].batch = commit[c].batch
  BY <1>1, <1>2 DEF CommitHere, OthersRest, CommitRec
<1>4. commit[c].batch = {}
  BY <1>1 DEF CommitHere, Held
<1> QED BY <1>3, <1>4

LEMMA BeginsHeld ==
  ASSUME TypeOK, Held, NEW c \in Committers, Begins(c) \/ UNCHANGED commit, lock' = lock
  PROVE  Held'
<1>1. CASE UNCHANGED commit
  BY <1>1 DEF Held
<1>2. CASE Begins(c)
  BY <1>2, BeginsFacts, UnloadedHeld DEF OthersLocked
<1> QED BY <1>1, <1>2

LEMMA DropFacts ==
  ASSUME TypeOK, NEW r, DropRunCandidates(r)
  PROVE  \A c \in Committers : /\ commit'[c].pc = commit[c].pc /\ commit'[c].pod = commit[c].pod
                               /\ commit'[c].batch \subseteq commit[c].batch
<1>1. commit \in [Committers -> CommitRec]
  BY TypeParts
<1>2. ASSUME NEW c \in Committers
      PROVE  /\ commit'[c].pc = commit[c].pc /\ commit'[c].pod = commit[c].pod
             /\ commit'[c].batch = {x \in commit[c].batch : x.row # r}
  <2>1. commit'[c] = [commit[c] EXCEPT !.batch = {x \in commit[c].batch : x.row # r}]
    BY DEF DropRunCandidates
  <2> QED BY <1>1, <2>1 DEF CommitRec
<1> QED BY <1>2

LEMMA DropHeld ==
  ASSUME TypeOK, Held, NEW r, DropRunCandidates(r), lock' = lock
  PROVE  Held'
  BY DropFacts DEF Held

(* The holder of a lock is the only commit of its pod that is to mark. *)
LEMMA LoadedElsewhere ==
  ASSUME Held, NEW c \in Committers, NEW d \in Committers \ {c}, commit[d].batch # {},
         commit[c].pc = "mark" \/ lock[commit[c].pod] = NoCommitter
  PROVE  commit[d].pod # commit[c].pod
  BY DocumentsAssumption DEF Held

(* What CommitLock does with candidates that wait. *)
LEMMA LoadFacts ==
  ASSUME TypeOK, NEW c \in Committers, CommitLock(c), Pending # {}
  PROVE  /\ OthersRest(c) /\ commit'[c].pc = "mark" /\ commit'[c].batch = Pending
         /\ commit'[c].pod = commit[c].pod /\ lock'[commit[c].pod] = c
         /\ \A p \in Pods \ {commit[c].pod} : lock'[p] = lock[p]
<1>1. commit \in [Committers -> CommitRec] /\ lock \in Locks /\ commit[c].pod \in Pods
  BY TypeParts DEF CommitRec
<1> QED BY <1>1 DEF CommitLock, CommitLoad, OthersRest, CommitRec, Locks

LEMMA CommitHeld ==
  ASSUME TypeOK, Held, NEW c \in Committers, CommitStep(c)
  PROVE  Held'
<1>0. commit \in [Committers -> CommitRec]
  BY TypeParts
<1>1. CASE CommitClaim(c)
  BY <1>1, BeginsHeld, DocumentsAssumption DEF CommitClaim, Begins
<1>2. CASE CommitDefers(c) \/ CommitFails(c) \/ CommitMark(c)
  BY <1>2, EndsHeld DEF CommitDefers, CommitFails, CommitMark
<1>3. CASE CommitSettled(c)
  <2>1. OthersRest(c) /\ commit'[c].pc = "lock" /\ commit'[c].batch = commit[c].batch
    BY <1>0, <1>3 DEF CommitSettled, OthersRest, CommitRec
  <2>2. commit[c].batch = {} /\ OthersLocked(c)
    BY <1>3 DEF CommitSettled, Held, OthersLocked
  <2> QED BY <2>1, <2>2, UnloadedHeld
<1>4. CASE CommitLock(c)
  <2>1. CASE Pending = {}
    BY <1>4, <2>1, EndsHeld DEF CommitLock, CommitLoad
  <2>2. CASE Pending # {}
    <3>1. /\ OthersRest(c) /\ commit'[c].pc = "mark"
          /\ commit'[c].pod = commit[c].pod /\ lock'[commit[c].pod] = c
          /\ \A p \in Pods \ {commit[c].pod} : lock'[p] = lock[p]
      BY <1>4, <2>2, LoadFacts
    <3>2. ASSUME NEW d \in Committers \ {c}, commit[d].pc = "mark"
          PROVE  lock'[commit[d].pod] = d
      <4>1. commit[d].pod # commit[c].pod /\ lock[commit[d].pod] = d
        BY <1>4, <3>2, DocumentsAssumption DEF CommitLock, Held
      <4>2. commit[d].pod \in Pods
        BY <1>0 DEF CommitRec
      <4> QED BY <3>1, <4>1, <4>2
    <3> QED BY <3>1, <3>2 DEF Held, OthersRest
  <2> QED BY <2>1, <2>2
<1> QED BY <1>1, <1>2, <1>3, <1>4 DEF CommitStep

(* What is staged is not decided. *)
AddsPending == \A y \in cand' : y \in cand \/ y.decided = NoPod

LEMMA InsertAdds == \A r, ks : InsertBatch(r, ks) => AddsPending
  BY DEF InsertBatch, AddsPending

LEMMA SameAdds == cand' = cand => AddsPending
  BY DEF AddsPending

(* What the workers and the remote indexers do to the commits: one of them *)
(* may begin, or the candidates of a run are dropped.                      *)
LEMMA WorkerCommits ==
  ASSUME NEW w \in Workers, IndexStep(w)
  PROVE  /\ lock' = lock
         /\ \/ DropRunCandidates(PackOf[w])
            \/ /\ AddsPending
               /\ UNCHANGED commit \/ (w \in Committers /\ Begins(w))
<1>1. lock' = lock
  BY DEF IndexStep, IndexObserve, IndexDrop, IndexSwap, IndexStage, IndexStageFails,
         IndexClose, IndexCloseFails, IndexCommit, IndexRest
<1>2. ~IndexDrop(w) => AddsPending
  BY InsertAdds, SameAdds
  DEF IndexStep, IndexObserve, IndexSwap, IndexStage, IndexStageFails,
      IndexClose, IndexCloseFails, IndexCommit
<1>3. ~IndexDrop(w) => UNCHANGED commit \/ (w \in Committers /\ Begins(w))
  <2>1. CASE IndexCommit(w)
    BY <2>1, Places DEF IndexCommit, Begins
  <2>2. CASE ~IndexCommit(w)
    BY <2>2 DEF IndexStep, IndexObserve, IndexSwap, IndexStage, IndexStageFails,
                IndexClose, IndexCloseFails
  <2> QED BY <2>1, <2>2
<1> QED BY <1>1, <1>2, <1>3 DEF IndexDrop

LEMMA PollerCommits ==
  ASSUME NEW q \in Pollers, PollStep(q)
  PROVE  /\ lock' = lock /\ q \in Committers
         /\ \/ DropRunCandidates(poll[q].row)
            \/ /\ AddsPending
               /\ UNCHANGED commit \/ Begins(q)
<1>1. lock' = lock /\ q \in Committers
  BY Places DEF PollStep, PollClaim, PollHeartbeat, PollFail, PollSubmit, PollDrop, PollInsert,
                PollError, PollClose, PollRest
<1>2. ~PollDrop(q) => AddsPending /\ (UNCHANGED commit \/ Begins(q))
  BY InsertAdds, SameAdds
  DEF PollStep, PollClaim, PollHeartbeat, PollFail, PollSubmit, PollInsert,
      PollError, PollClose, Begins
<1> QED BY <1>1, <1>2 DEF PollDrop

(* Steps that leave the commits alone; of the candidates they add at most  *)
(* undecided ones.                                                         *)
Elsewhere ==
  \/ FanOut \/ GeneralWhole \/ GeneralRaw \/ Promote \/ AgentLeaves \/ ReconcileRuns
  \/ (\E r \in Rows : GoesStale(r)) \/ UNCHANGED vars

LEMMA ElsewhereCommits ==
  Elsewhere => UNCHANGED <<commit, lock>> /\ AddsPending
  BY InsertAdds, SameAdds
  DEF Elsewhere, FanOut, FanRow, FanJob, PlanExternal, FanDies, GeneralWhole, GeneralRaw,
      Promote, AgentLeaves, ReconcileRuns, GoesStale, IndexRest, vars

LEMMA NextCases ==
  [Next]_vars => \/ Elsewhere
                 \/ \E w \in Workers : IndexStep(w)
                 \/ \E c \in Committers : CommitStep(c)
                 \/ \E q \in Pollers : PollStep(q)
                 \/ \E p \in Pods : Crash(p)
  BY DEF Next, Elsewhere

LEMMA CrashCommits ==
  ASSUME TypeOK, NEW p \in Pods, Crash(p)
  PROVE  /\ cand' = cand
         /\ \A c \in Committers :
              \/ commit'[c].batch = {} /\ commit'[c].pc = "idle"
              \/ /\ commit'[c] = commit[c] /\ commit[c].pod \in Pods
                 /\ lock'[commit[c].pod] = lock[commit[c].pod]
  BY TypeParts DEF Crash, NoCommit, CommitRec, Locks

LEMMA HeldStep ==
  ASSUME TypeOK, Held, [Next]_vars
  PROVE  Held'
<1>1. ASSUME NEW w \in Workers, IndexStep(w) PROVE Held'
  <2>1. CASE DropRunCandidates(PackOf[w])
    BY <1>1, <2>1, WorkerCommits, DropHeld
  <2>2. CASE UNCHANGED commit
    BY <1>1, <2>2, WorkerCommits DEF Held
  <2>3. CASE w \in Committers /\ Begins(w)
    BY <1>1, <2>3, WorkerCommits, BeginsHeld
  <2> QED BY <1>1, <2>1, <2>2, <2>3, WorkerCommits
<1>2. ASSUME NEW q \in Pollers, PollStep(q) PROVE Held'
  BY <1>2, PollerCommits, DropHeld, BeginsHeld
<1>3. ASSUME NEW p \in Pods, Crash(p) PROVE Held'
  BY <1>3, CrashCommits DEF Held
<1>4. CASE Elsewhere
  BY <1>4, ElsewhereCommits DEF Held
<1> QED BY <1>1, <1>2, <1>3, <1>4, CommitHeld, NextCases

LEMMA HeldInit == Init => Held
  BY DEF Init, NoCommit, Held

(* No candidate is in the batches of two commits of one process. *)
BatchesDisjoint ==
  \A c, d \in Committers :
    c # d /\ commit[c].pod = commit[d].pod => commit[c].batch \cap commit[d].batch = {}

(* Two commits of the document in one process never hold the same          *)
(* candidate, in whatever pods the commits run and whatever reindex jobs,  *)
(* remote indexers, crashes and sweeps do at the same time: commitLock is  *)
(* enough for that.  Of commits in different processes it says nothing.    *)
THEOREM BatchesDisjointCorrect == Spec => []BatchesDisjoint
<1>1. Held => BatchesDisjoint
  BY DEF Held, BatchesDisjoint
<1> QED BY <1>1, HeldInit, HeldStep, TypeInit, TypeStep, PTL DEF Spec

-----------------------------------------------------------------------------
(* No candidate is in the store twice, once decided and once not. *)
OneForm == \A x, y \in cand : x.row = y.row /\ x.chunk = y.chunk => x = y

NoneOf(r) == \A x \in cand : x.row # r

(* What the store holds of pack r before and while its worker stages. *)
Cleared(r) ==
  /\ index[r].pc \in {"drop", "swap", "stage", "close"} => run[r].status # "none"
  /\ run[r].status = "none" \/ index[r].pc = "swap" => NoneOf(r)
  /\ index[r].pc = "stage" =>
       \A x \in cand : x.row = r => x.chunk \notin index[r].left \cup {WholeDocument}

(* ... and of a remote indexer's run between its drop and its insert. *)
RemoteCleared(q) == poll[q].pc = "insert" => NoneOf(poll[q].row)

ClearInv ==
  /\ OneForm
  /\ \A r \in InProcess : Cleared(r)
  /\ \A q \in Pollers : RemoteCleared(q)

(* A step that stages nothing: what is in the store was there before, decided or not. *)
StagesNothing ==
  /\ \A y \in cand' : \E x \in cand : x.row = y.row /\ x.chunk = y.chunk
  /\ OneForm => OneForm'

LEMMA SameStages == cand' = cand => StagesNothing
  BY DEF StagesNothing, OneForm

LEMMA DropStages ==
  ASSUME NEW r, DropRunCandidates(r)
  PROVE  StagesNothing /\ NoneOf(r)'
  BY DEF DropRunCandidates, StagesNothing, OneForm, NoneOf

LEMMA MarkStages ==
  ASSUME TypeOK, NEW c \in Committers, CommitMark(c)
  PROVE  StagesNothing
<1>0. cand \subseteq CandType
  BY TypeParts
<1> DEFINE Marked(x) == IF [x EXCEPT !.decided = NoPod] \in commit[c].batch
                        THEN [x EXCEPT !.decided = commit[c].pod] ELSE x
<1>1. ASSUME NEW y \in cand'
      PROVE  \E x \in cand : y = Marked(x) /\ x.row = y.row /\ x.chunk = y.chunk
  <2>1. PICK x \in cand : y = Marked(x)
    BY DEF CommitMark
  <2>2. x \in CandType
    BY <1>0
  <2> QED BY <2>1, <2>2 DEF CandType
<1> HIDE DEF Marked
<1>2. ASSUME OneForm, NEW y \in cand', NEW z \in cand', y.row = z.row, y.chunk = z.chunk
      PROVE  y = z
  <2>1. PICK u \in cand : y = Marked(u) /\ u.row = y.row /\ u.chunk = y.chunk
    BY <1>1
  <2>2. PICK v \in cand : z = Marked(v) /\ v.row = z.row /\ v.chunk = z.chunk
    BY <1>1
  <2>3. u = v
    BY <1>2, <2>1, <2>2 DEF OneForm
  <2> QED BY <2>1, <2>2, <2>3
<1> QED BY <1>1, <1>2 DEF StagesNothing, OneForm

(* An insert of chunks the store does not hold keeps the candidates unique. *)
LEMMA InsertOneForm ==
  ASSUME OneForm, NEW r, NEW ks, InsertBatch(r, ks),
         \A x \in cand : x.row = r => x.chunk \notin ks
  PROVE  /\ OneForm'
         /\ \A y \in cand' : y \in cand \/ (y.row = r /\ y.chunk \in ks)
<1>1. ASSUME NEW y \in cand' PROVE y \in cand \/ (y.row = r /\ y.chunk \in ks)
  BY DEF InsertBatch
<1>2. ASSUME NEW y \in cand', NEW z \in cand', y.row = z.row, y.chunk = z.chunk PROVE y = z
  <2>1. CASE y \in cand /\ z \in cand
    BY <1>2, <2>1 DEF OneForm
  <2>2. CASE y \notin cand /\ z \notin cand
    <3>1. PICK k \in ks : y = [row |-> r, chunk |-> k, decided |-> NoPod]
      BY <2>2 DEF InsertBatch
    <3>2. PICK l \in ks : z = [row |-> r, chunk |-> l, decided |-> NoPod]
      BY <2>2 DEF InsertBatch
    <3>3. k = l
      BY <1>2, <3>1, <3>2
    <3> QED BY <3>1, <3>2, <3>3
  <2>3. CASE (y \in cand /\ z \notin cand) \/ (y \notin cand /\ z \in cand)
    BY <1>1, <1>2, <2>3
  <2> QED BY <2>1, <2>2, <2>3
<1> QED BY <1>1, <1>2 DEF OneForm

(* The row of pack r keeps its status known and its worker rests or stays. *)
KeepsKnown(r) == run'[r].status = "none" => run[r].status = "none"
KeepsPlace(r) ==
  \/ index'[r].pc \in {"idle", "commit"}
  \/ index'[r].pc = index[r].pc /\ index'[r].left = index[r].left

LEMMA ClearedKept ==
  ASSUME NEW r \in InProcess, Cleared(r), KeepsKnown(r), KeepsPlace(r),
         \A y \in cand' : y.row = r => \E x \in cand : x.row = y.row /\ x.chunk = y.chunk
  PROVE  Cleared(r)'
<1>1. NoneOf(r) => NoneOf(r)'
  BY DEF NoneOf
<1>2. (\A x \in cand : x.row = r => x.chunk \notin index[r].left \cup {WholeDocument}) =>
      (\A x \in cand' : x.row = r => x.chunk \notin index[r].left \cup {WholeDocument})
  BY Zenon
<1>3. index'[r].pc \in {"drop", "swap", "stage", "close"} => run'[r].status # "none"
  BY DEF Cleared, KeepsKnown, KeepsPlace
<1>4. run'[r].status = "none" \/ index'[r].pc = "swap" => NoneOf(r)'
  BY <1>1 DEF Cleared, KeepsKnown, KeepsPlace
<1>5. index'[r].pc = "stage" =>
        \A x \in cand' : x.row = r => x.chunk \notin index'[r].left \cup {WholeDocument}
  BY <1>2 DEF Cleared, KeepsPlace
<1> QED BY <1>3, <1>4, <1>5 DEF Cleared

LEMMA RemoteKept ==
  ASSUME NEW q \in Pollers, RemoteCleared(q),
         poll'[q].pc = "insert" => poll'[q] = poll[q],
         \A y \in cand' : y.row = poll[q].row => \E x \in cand : x.row = y.row /\ x.chunk = y.chunk
  PROVE  RemoteCleared(q)'
  BY DEF RemoteCleared, NoneOf

(* A step that stages nothing and leaves the workers and the claims alone. *)
LEMMA QuietClear ==
  ASSUME ClearInv, StagesNothing, \A r \in InProcess : KeepsKnown(r) /\ KeepsPlace(r), poll' = poll
  PROVE  ClearInv'
<1>1. \A r \in InProcess : Cleared(r)'
  BY ClearedKept DEF ClearInv, StagesNothing
<1>2. \A q \in Pollers : RemoteCleared(q)'
  BY RemoteKept DEF ClearInv, StagesNothing
<1> QED BY <1>1, <1>2 DEF ClearInv, StagesNothing

LEMMA StatusKnown ==
  ASSUME TypeOK, NEW p \in Rows, NEW s, SetStatus(p, s), s # "none"
  PROVE  run'[p].status = s /\ \A r \in InProcess : KeepsKnown(r)
<1>1. run \in [Rows -> RunRec] /\ \A r \in InProcess : r \in Rows
  BY TypeParts, Places
<1>2. run'[p].status = s
  BY <1>1 DEF SetStatus, RunRec
<1>3. \A r \in InProcess \ {p} : run'[r] = run[r]
  BY <1>1 DEF SetStatus
<1> QED BY <1>2, <1>3 DEF KeepsKnown

(* A worker's step, with what it does to its own pack. *)
LEMMA WorkerClear ==
  ASSUME Reindexers = {}, TypeOK, ClearInv, NEW w \in Workers, IndexStep(w)
  PROVE  ClearInv'
<1>0. PackOf[w] = w /\ w \in Rows /\ w \in InProcess /\ poll' = poll
  BY OwnWorker DEF IndexStep, IndexObserve, IndexDrop, IndexSwap, IndexStage, IndexStageFails,
                   IndexClose, IndexCloseFails, IndexCommit, IndexRest
<1>a. index \in [Workers -> WorkRec] /\ run \in [Rows -> RunRec] /\ index[w] \in WorkRec
      /\ poll \in [Pollers -> PollRec]
  BY TypeParts
<1>b. Cleared(w) /\ OneForm
  BY <1>0 DEF ClearInv
<1>c. SUFFICES OneForm' /\ Cleared(w)' /\ (\A r \in InProcess : KeepsKnown(r))
               /\ \A y \in cand' : y \in cand \/ y.row = w
  <2>1. ASSUME NEW r \in InProcess, r # w PROVE Cleared(r)'
    <3>1. index'[r] = index[r]
      BY <1>0, <1>a, <2>1, OwnWorker
      DEF IndexStep, IndexObserve, IndexDrop, IndexSwap, IndexStage, IndexStageFails,
          IndexClose, IndexCloseFails, IndexCommit, SetWork, JobOver
    <3>2. KeepsPlace(r)
      BY <3>1 DEF KeepsPlace
    <3> QED BY <1>c, <2>1, <3>2, ClearedKept DEF ClearInv
  <2>2. ASSUME NEW q \in Pollers PROVE RemoteCleared(q)'
    <3>1. poll[q].row # w
      BY <1>0, <1>a, RemoteIsNoPack DEF PollRec
    <3> QED BY <1>0, <1>c, <3>1, RemoteKept DEF ClearInv
  <2> QED BY <1>c, <2>1, <2>2 DEF ClearInv
<1>1. CASE IndexObserve(w)
  <2>1. cand' = cand
    BY <1>1 DEF IndexObserve
  <2>2. CASE run[w].status = "none"
    <3>1. run'[w].status = "running" /\ \A r \in InProcess : KeepsKnown(r)
      BY <1>0, <1>1, <2>2, StatusKnown DEF IndexObserve
    <3>2. NoneOf(w)
      BY <1>b, <2>2 DEF Cleared
    <3>3. index'[w].pc = "stage"
      BY <1>0, <1>1, <1>a, <2>2 DEF IndexObserve, WorkRec
    <3>4. Cleared(w)'
      BY <2>1, <3>1, <3>2, <3>3 DEF Cleared, NoneOf
    <3> QED BY <1>b, <2>1, <3>1, <3>4 DEF OneForm
  <2>3. CASE run[w].status # "none"
    <3>1. run' = run /\ \A r \in InProcess : KeepsKnown(r)
      BY <1>0, <1>1, <2>3 DEF IndexObserve, KeepsKnown
    <3>2. index'[w].pc \in {"drop", "commit"}
      BY <1>0, <1>1, <1>a, <2>3 DEF IndexObserve, WorkRec
    <3>3. Cleared(w)'
      BY <2>3, <3>1, <3>2 DEF Cleared
    <3> QED BY <1>b, <2>1, <3>1, <3>3 DEF OneForm
  <2> QED BY <2>2, <2>3
<1>2. CASE IndexDrop(w)
  <2>1. StagesNothing /\ NoneOf(w)'
    BY <1>0, <1>2, DropStages DEF IndexDrop
  <2>2. run' = run /\ run[w].status # "none" /\ \A r \in InProcess : KeepsKnown(r)
    BY <1>2, <1>b DEF IndexDrop, Cleared, KeepsKnown
  <2>3. index'[w].pc = "swap"
    BY <1>2, <1>a DEF IndexDrop, SetWork, WorkRec
  <2>4. \A y \in cand' : y \in cand
    BY <1>2 DEF IndexDrop, DropRunCandidates
  <2> QED BY <1>b, <2>1, <2>2, <2>3, <2>4 DEF Cleared, StagesNothing
<1>3. CASE IndexSwap(w)
  <2>1. cand' = cand /\ NoneOf(w) /\ run[w].status # "none"
    BY <1>3, <1>b DEF IndexSwap, Cleared
  <2>2. run'[w].status # "none" /\ \A r \in InProcess : KeepsKnown(r)
    BY <1>0, <1>3, <2>1, StatusKnown DEF IndexSwap, KeepsKnown
  <2>3. index'[w].pc \in {"stage", "commit"}
    BY <1>3, <1>a DEF IndexSwap, WorkRec
  <2>4. Cleared(w)'
    BY <2>1, <2>2, <2>3 DEF Cleared, NoneOf
  <2> QED BY <1>b, <2>1, <2>2, <2>4 DEF OneForm
<1>4. CASE IndexStage(w)
  <2>1. PICK k \in index[w].left :
          /\ InsertBatch(w, {k})
          /\ index' = [index EXCEPT ![w].left = @ \ {k},
                                 ![w].pc = IF index[w].left = {k} THEN "close" ELSE "stage",
                                 ![w].end = IF index[w].left = {k} THEN "succeeded" ELSE @]
    BY <1>0, <1>4 DEF IndexStage
  <2>2. /\ index'[w].left = index[w].left \ {k}
        /\ index'[w].pc \in {"close", "stage"}
    BY <1>a, <2>1 DEF WorkRec
  <2>3. run' = run /\ run[w].status # "none" /\ \A r \in InProcess : KeepsKnown(r)
    BY <1>4, <1>b DEF IndexStage, Cleared, KeepsKnown
  <2>4. /\ \A x \in cand : x.row = w => x.chunk \notin index[w].left \cup {WholeDocument}
        /\ k # WholeDocument
    BY <1>4, <1>a, <1>b, DocumentsAssumption DEF IndexStage, Cleared, WorkRec
  <2>5. OneForm' /\ \A y \in cand' : y \in cand \/ (y.row = w /\ y.chunk = k)
    <3>1. InsertBatch(w, {k}) /\ \A x \in cand : x.row = w => x.chunk \notin {k}
      BY <2>1, <2>4
    <3>2. OneForm' /\ \A y \in cand' : y \in cand \/ (y.row = w /\ y.chunk \in {k})
      BY <1>b, <3>1, InsertOneForm
    <3> QED BY <3>2
  <2>6. Cleared(w)'
    BY <2>2, <2>3, <2>4, <2>5 DEF Cleared
  <2> QED BY <2>3, <2>5, <2>6
<1>5. CASE IndexStageFails(w)
  <2>1. PICK done \in SUBSET index[w].left : InsertBatch(w, done)
    BY <1>0, <1>5 DEF IndexStageFails
  <2>2. index'[w].pc = "close"
    BY <1>5, <1>a DEF IndexStageFails, WorkRec
  <2>3. run' = run /\ run[w].status # "none" /\ \A r \in InProcess : KeepsKnown(r)
    BY <1>5, <1>b DEF IndexStageFails, Cleared, KeepsKnown
  <2>4. \A x \in cand : x.row = w => x.chunk \notin done
    BY <1>5, <1>b, <2>1 DEF IndexStageFails, Cleared
  <2>5. OneForm' /\ \A y \in cand' : y \in cand \/ y.row = w
    BY <1>b, <2>1, <2>4, InsertOneForm
  <2>6. Cleared(w)'
    BY <2>2, <2>3 DEF Cleared
  <2> QED BY <2>3, <2>5, <2>6
<1>6. CASE IndexClose(w) \/ IndexCloseFails(w)
  <2>1. index'[w].pc = "commit" /\ cand' = cand
    BY <1>6, <1>a DEF IndexClose, IndexCloseFails, SetWork, WorkRec
  <2>2. index[w].end # "none"
    BY <1>a DEF WorkRec, Terminal
  <2>3. \A r \in InProcess : KeepsKnown(r)
    <3>1. run' = run \/ SetStatus(w, index[w].end) \/ SetStatus(w, "failed")
      BY <1>0, <1>6 DEF IndexClose, IndexCloseFails, FinalizeRun
    <3> QED BY <1>0, <2>2, <3>1, StatusKnown DEF KeepsKnown
  <2>4. Cleared(w)'
    BY <1>0, <1>b, <2>1, <2>3, ClearedKept DEF KeepsPlace
  <2> QED BY <1>b, <2>1, <2>3, <2>4 DEF OneForm
<1>7. CASE IndexCommit(w)
  <2>1. index'[w].pc = "idle"
    BY <1>a, <1>7 DEF IndexCommit, JobOver, Resting
  <2>2. run' = run /\ cand' = cand /\ \A r \in InProcess : KeepsKnown(r)
    BY <1>7 DEF IndexCommit, KeepsKnown
  <2>3. Cleared(w)'
    BY <1>0, <1>b, <2>1, <2>2, ClearedKept DEF KeepsPlace
  <2> QED BY <1>b, <2>2, <2>3 DEF OneForm
<1> QED BY <1>1, <1>2, <1>3, <1>4, <1>5, <1>6, <1>7 DEF IndexStep

(* The generalist's batch for the whole document is the first of its run. *)
LEMMA GeneralClear ==
  ASSUME TypeOK, ClearInv, GeneralWhole \/ GeneralRaw
  PROVE  ClearInv'
<1>a. index \in [Workers -> WorkRec] /\ poll \in [Pollers -> PollRec]
      /\ UNCHANGED <<run, poll>> /\ Cleared(General) /\ OneForm /\ index[General].pc = "stage"
  BY TypeParts, Places DEF ClearInv, GeneralWhole, GeneralRaw, Unread, IndexRest
<1>1. OneForm' /\ \A y \in cand' : y \in cand \/ y.row = General
  <2>1. CASE GeneralWhole
    <3>1. InsertBatch(General, {WholeDocument})
          /\ \A x \in cand : x.row = General => x.chunk \notin {WholeDocument}
      BY <1>a, <2>1 DEF GeneralWhole, Cleared
    <3> QED BY <1>a, <3>1, InsertOneForm
  <2>2. CASE GeneralRaw
    BY <1>a, <2>2 DEF GeneralRaw, OneForm
  <2> QED BY <2>1, <2>2
<1>2. index'[General].pc = "close" /\ \A r \in InProcess \ {General} : index'[r] = index[r]
  BY <1>a, Places DEF GeneralWhole, GeneralRaw, GeneralClose, WorkRec
<1>3. ASSUME NEW r \in InProcess PROVE Cleared(r)'
  <2>1. CASE r = General
    BY <1>a, <1>2, <2>1 DEF Cleared
  <2>2. CASE r # General
    <3>1. KeepsKnown(r) /\ KeepsPlace(r) /\ Cleared(r)
      BY <1>a, <1>2, <2>2 DEF KeepsKnown, KeepsPlace, ClearInv
    <3> QED BY <1>1, <2>2, <3>1, ClearedKept
  <2> QED BY <2>1, <2>2
<1>4. ASSUME NEW q \in Pollers PROVE RemoteCleared(q)'
  <2>1. poll[q].row # General
    BY <1>a, RemoteIsNoPack, Places DEF PollRec
  <2> QED BY <1>1, <1>a, <2>1, RemoteKept DEF ClearInv
<1> QED BY <1>1, <1>3, <1>4 DEF ClearInv

(* The step of the one remote indexer. *)
LEMMA PollClear ==
  ASSUME TypeOK, ClearInv, NEW q \in Pollers, PollStep(q), \A v \in Pollers : v = q
  PROVE  ClearInv'
<1>a. run \in [Rows -> RunRec] /\ poll \in [Pollers -> PollRec]
      /\ poll[q].row \in Remote /\ poll[q].row \in Rows
  BY TypeParts DEF PollRec, Rows
<1>b. \A r \in InProcess : r \in Rows /\ r \notin Remote
  BY RemoteIsNoPack, Places
<1>1. \A r \in InProcess : KeepsPlace(r)
  <2>1. index' = index
    BY DEF PollStep, PollClaim, PollHeartbeat, PollFail, PollSubmit, PollDrop, PollInsert,
           PollError, PollClose, PollRest
  <2> QED BY <2>1 DEF KeepsPlace
<1>2. \A r \in InProcess : KeepsKnown(r)
  <2>1. ASSUME NEW r \in InProcess PROVE run'[r] = run[r]
    <3>1. r \in Rows /\ r # poll[q].row /\ r \notin Remote
      BY <1>a, <1>b
    <3> QED BY <1>a, <3>1
        DEF PollStep, PollClaim, PollHeartbeat, PollFail, PollSubmit, PollDrop, PollInsert,
            PollError, PollClose, SetStatus
  <2> QED BY <2>1 DEF KeepsKnown
<1>3. CASE PollDrop(q)
  <2>1. StagesNothing /\ NoneOf(poll[q].row)'
    BY <1>3, DropStages DEF PollDrop
  <2>2. poll'[q].row = poll[q].row
    BY <1>3, <1>a DEF PollDrop, PollRec
  <2>3. RemoteCleared(q)'
    BY <2>1, <2>2 DEF RemoteCleared, NoneOf
  <2>4. \A r \in InProcess : Cleared(r)'
    BY <1>1, <1>2, <2>1, ClearedKept DEF ClearInv, StagesNothing
  <2> QED BY <2>1, <2>3, <2>4 DEF ClearInv, StagesNothing
<1>4. CASE PollInsert(q)
  <2>1. InsertBatch(poll[q].row, {WholeDocument}) /\ NoneOf(poll[q].row)
    BY <1>4 DEF PollInsert, ClearInv, RemoteCleared
  <2>2. OneForm' /\ \A y \in cand' : y \in cand \/ y.row = poll[q].row
    BY <2>1, InsertOneForm DEF ClearInv, NoneOf
  <2>3. poll'[q].pc = "close"
    BY <1>4, <1>a DEF PollInsert, PollRec
  <2>4. RemoteCleared(q)'
    BY <2>3 DEF RemoteCleared
  <2>5. ASSUME NEW r \in InProcess PROVE Cleared(r)'
    <3>1. r # poll[q].row
      BY <1>a, <1>b
    <3> QED BY <1>1, <1>2, <2>2, <3>1, ClearedKept DEF ClearInv
  <2> QED BY <2>2, <2>4, <2>5 DEF ClearInv
<1>5. CASE ~PollDrop(q) /\ ~PollInsert(q)
  <2>1. cand' = cand
    BY <1>5 DEF PollStep, PollClaim, PollHeartbeat, PollFail, PollSubmit, PollError, PollClose
  <2>2. poll'[q].pc = "insert" => poll'[q] = poll[q]
    BY <1>5, <1>a
    DEF PollStep, PollClaim, PollHeartbeat, PollFail, PollSubmit, PollError, PollClose, PollRec
  <2>3. StagesNothing
    BY <2>1, SameStages
  <2>4. \A r \in InProcess : Cleared(r)'
    BY <1>1, <1>2, <2>3, ClearedKept DEF ClearInv, StagesNothing
  <2>5. RemoteCleared(q)'
    BY <2>2, <2>3, RemoteKept DEF ClearInv, StagesNothing
  <2> QED BY <2>3, <2>4, <2>5 DEF ClearInv, StagesNothing
<1> QED BY <1>3, <1>4, <1>5

LEMMA ClearStep ==
  ASSUME Reindexers = {}, \A u, v \in Pollers : u = v, TypeOK, ClearInv, [Next]_vars
  PROVE  ClearInv'
<1>a. /\ run \in [Rows -> RunRec] /\ index \in [Workers -> WorkRec] /\ fan \in FanRec
      /\ \A r \in InProcess : r \in Rows /\ r \in Workers /\ r \notin Remote
  BY TypeParts, RemoteIsNoPack, Places
<1>1. CASE FanRow
  <2>1. Head(fan.specs) \in Rows
    BY <1>1, <1>a, Places DEF FanRow, FanRec
  <2>2. \A r \in InProcess : KeepsKnown(r) /\ KeepsPlace(r)
    BY <1>1, <2>1, StatusKnown DEF FanRow, EnsureRunPending, KeepsKnown, KeepsPlace
  <2> QED BY <1>1, <2>2, SameStages, QuietClear DEF FanRow
<1>2. CASE FanJob
  <2>1. \A r \in InProcess : index'[r].pc = index[r].pc /\ index'[r].left = index[r].left
    <3>1. Head(fan.specs) \in Workers
      BY <1>2, <1>a, Places DEF FanJob, FanRec
    <3> QED BY <1>a, <1>2, <3>1 DEF FanJob, WorkRec
  <2>2. \A r \in InProcess : KeepsKnown(r) /\ KeepsPlace(r)
    BY <1>2, <2>1 DEF FanJob, KeepsKnown, KeepsPlace
  <2> QED BY <1>2, <2>2, SameStages, QuietClear DEF FanJob
<1>3. CASE PlanExternal \/ FanDies
  <2>1. \A r \in InProcess : KeepsKnown(r) /\ KeepsPlace(r)
    BY <1>a, <1>3 DEF PlanExternal, FanDies, FanRec, KeepsKnown, KeepsPlace
  <2> QED BY <1>3, <2>1, SameStages, QuietClear DEF PlanExternal, FanDies
<1>4. ASSUME NEW c \in Committers, CommitStep(c) PROVE ClearInv'
  <2>1. run' = run /\ index' = index /\ poll' = poll
    BY <1>4 DEF CommitStep, CommitClaim, CommitDefers, CommitSettled, CommitLock, CommitLoad,
                CommitMark, CommitFails, CommitRest
  <2>2. StagesNothing
    BY <1>4, SameStages, MarkStages
    DEF CommitStep, CommitClaim, CommitDefers, CommitSettled, CommitLock, CommitLoad, CommitFails
  <2>3. \A r \in InProcess : KeepsKnown(r) /\ KeepsPlace(r)
    BY <2>1 DEF KeepsKnown, KeepsPlace
  <2> QED BY <2>1, <2>2, <2>3, QuietClear
<1>5. CASE ReconcileRuns
  <2>1. ASSUME NEW r \in InProcess PROVE KeepsKnown(r) /\ KeepsPlace(r)
    <3>1. run'[r] = Reaped(r) /\ index' = index /\ run[r] \in RunRec
      BY <1>a, <1>5 DEF ReconcileRuns
    <3> QED BY <1>a, <3>1 DEF Reaped, KeepsKnown, KeepsPlace, RunRec
  <2> QED BY <1>5, <2>1, SameStages, QuietClear DEF ReconcileRuns
<1>6. ASSUME NEW p \in Rows, GoesStale(p) PROVE ClearInv'
  <2>1. \A r \in InProcess : KeepsKnown(r) /\ KeepsPlace(r)
    BY <1>a, <1>6 DEF GoesStale, KeepsKnown, KeepsPlace, RunRec
  <2> QED BY <1>6, <2>1, SameStages, QuietClear DEF GoesStale
<1>7. ASSUME NEW p \in Pods, Crash(p) PROVE ClearInv'
  <2>1. \A r \in InProcess : index'[r].pc = "idle" \/ index'[r] = index[r]
    BY <1>a, <1>7 DEF Crash, Resting
  <2>2. \A r \in InProcess : KeepsKnown(r) /\ KeepsPlace(r)
    BY <1>7, <2>1 DEF Crash, KeepsKnown, KeepsPlace
  <2> QED BY <1>7, <2>2, SameStages, QuietClear DEF Crash
<1>8. CASE UNCHANGED vars
  <2>1. UNCHANGED <<run, cand, index, poll>>
    BY <1>8 DEF vars
  <2>2. \A r \in InProcess : KeepsKnown(r) /\ KeepsPlace(r)
    BY <2>1 DEF KeepsKnown, KeepsPlace
  <2> QED BY <2>1, <2>2, SameStages, QuietClear
<1>9. ASSUME NEW q \in Pollers, PollStep(q) PROVE ClearInv'
  BY <1>9, PollClear
<1>10. CASE Promote
  <2>1. \A r \in InProcess : KeepsKnown(r) /\ KeepsPlace(r)
    BY <1>a, <1>10 DEF Promote, KeepsKnown, KeepsPlace, RunRec
  <2> QED BY <1>10, <2>1, SameStages, QuietClear DEF Promote
<1>11. CASE AgentLeaves
  <2>1. \A r \in InProcess : index'[r].pc = "idle" \/ index'[r] = index[r]
    BY <1>a, <1>11 DEF AgentLeaves, Resting
  <2>2. \A r \in InProcess : KeepsKnown(r) /\ KeepsPlace(r)
    BY <1>11, <2>1 DEF AgentLeaves, KeepsKnown, KeepsPlace
  <2> QED BY <1>11, <2>2, SameStages, QuietClear DEF AgentLeaves, IndexRest
<1> QED
  BY <1>1, <1>2, <1>3, <1>4, <1>5, <1>6, <1>7, <1>8, <1>9, <1>10, <1>11, WorkerClear, GeneralClear
  DEF Next, FanOut

-----------------------------------------------------------------------------
(* What a commit has loaded, no commit of its process has decided. *)
Fresh ==
  \A c \in Committers : \A x \in commit[c].batch : \A y \in cand :
    y.row = x.row /\ y.chunk = x.chunk => y.decided # commit[c].pod

(* A step of which no batch grows, and that stages but does not decide. *)
LEMMA FreshKept ==
  ASSUME TypeOK, Fresh, AddsPending,
         \A c \in Committers : \/ commit'[c].batch = {}
                               \/ /\ commit'[c].batch \subseteq commit[c].batch
                                  /\ commit'[c].pod = commit[c].pod
  PROVE  Fresh'
<1>1. \A c \in Committers : commit[c].pod # NoPod
  BY TypeParts, DocumentsAssumption DEF CommitRec
<1> QED BY <1>1 DEF Fresh, AddsPending

LEMMA BeginsFresh ==
  ASSUME TypeOK, Held, Fresh, AddsPending, NEW c \in Committers, Begins(c) \/ UNCHANGED commit
  PROVE  Fresh'
<1>1. CASE UNCHANGED commit
  BY <1>1, FreshKept
<1>2. CASE Begins(c)
  <2>1. OthersRest(c) /\ commit'[c].batch = {}
    BY <1>2, BeginsFacts
  <2> QED BY <2>1, FreshKept DEF OthersRest
<1> QED BY <1>1, <1>2

LEMMA DropFresh ==
  ASSUME TypeOK, Fresh, NEW r, DropRunCandidates(r)
  PROVE  Fresh'
<1>1. AddsPending
  BY DEF DropRunCandidates, AddsPending
<1> QED BY <1>1, DropFacts, FreshKept

LEMMA CommitFresh ==
  ASSUME TypeOK, Held, OneForm, Fresh, NEW c \in Committers, CommitStep(c)
  PROVE  Fresh'
<1>0. commit \in [Committers -> CommitRec] /\ cand \subseteq CandType /\ commit[c].pod \in Pods
  BY TypeParts DEF CommitRec
<1>1. CASE CommitClaim(c)
  BY <1>1, SameAdds, BeginsFresh, DocumentsAssumption DEF CommitClaim, Begins
<1>2. CASE CommitDefers(c) \/ CommitFails(c)
  <2>1. OthersRest(c) /\ commit'[c].batch = {}
    BY <1>2, EndsFacts DEF CommitDefers, CommitFails
  <2> QED BY <1>2, <2>1, SameAdds, FreshKept DEF CommitDefers, CommitFails, OthersRest
<1>3. CASE CommitSettled(c)
  <2>1. \A d \in Committers : commit'[d].batch = commit[d].batch /\ commit'[d].pod = commit[d].pod
    BY <1>0, <1>3 DEF CommitSettled, CommitRec
  <2> QED BY <1>3, <2>1, SameAdds, FreshKept DEF CommitSettled
<1>4. CASE CommitLock(c)
  <2>0. cand' = cand
    BY <1>4 DEF CommitLock, CommitLoad
  <2>1. CASE Pending = {}
    <3>1. OthersRest(c) /\ commit'[c].batch = {}
      BY <1>4, <2>1, EndsFacts DEF CommitLock, CommitLoad
    <3> QED BY <2>0, <3>1, SameAdds, FreshKept DEF OthersRest
  <2>2. CASE Pending # {}
    <3>1. OthersRest(c) /\ commit'[c].batch = Pending /\ commit'[c].pod = commit[c].pod
      BY <1>4, <2>2, LoadFacts
    <3>2. \A x \in Pending : \A y \in cand :
            y.row = x.row /\ y.chunk = x.chunk => y.decided # commit[c].pod
      BY <1>0, DocumentsAssumption DEF Pending, OneForm
    <3> QED BY <2>0, <3>1, <3>2 DEF Fresh, OthersRest
  <2> QED BY <2>1, <2>2
<1>5. CASE CommitMark(c)
  <2>1. OthersRest(c) /\ commit'[c].batch = {}
    BY <1>5, EndsFacts DEF CommitMark
  <2>2. \A y \in cand' : y \in cand \/ y.decided = commit[c].pod
    <3>1. \A x \in cand : [x EXCEPT !.decided = commit[c].pod].decided = commit[c].pod
      BY <1>0 DEF CandType
    <3> QED BY <1>5, <3>1 DEF CommitMark
  <2>3. ASSUME NEW d \in Committers \ {c}, commit[d].batch # {} PROVE commit[d].pod # commit[c].pod
    BY <1>5, <2>3, LoadedElsewhere DEF CommitMark
  <2> QED BY <2>1, <2>2, <2>3 DEF Fresh, OthersRest
<1> QED BY <1>1, <1>2, <1>3, <1>4, <1>5 DEF CommitStep

LEMMA FreshStep ==
  ASSUME TypeOK, Held, OneForm, Fresh, [Next]_vars
  PROVE  Fresh'
<1>1. ASSUME NEW w \in Workers, IndexStep(w) PROVE Fresh'
  <2>1. CASE DropRunCandidates(PackOf[w])
    BY <2>1, DropFresh
  <2>2. CASE AddsPending /\ UNCHANGED commit
    BY <2>2, FreshKept
  <2>3. CASE AddsPending /\ w \in Committers /\ Begins(w)
    BY <2>3, BeginsFresh
  <2> QED BY <1>1, <2>1, <2>2, <2>3, WorkerCommits
<1>2. ASSUME NEW q \in Pollers, PollStep(q) PROVE Fresh'
  BY <1>2, PollerCommits, DropFresh, BeginsFresh
<1>3. ASSUME NEW p \in Pods, Crash(p) PROVE Fresh'
  BY <1>3, CrashCommits, SameAdds, FreshKept
<1>4. CASE Elsewhere
  BY <1>4, ElsewhereCommits, FreshKept
<1> QED BY <1>1, <1>2, <1>3, <1>4, CommitFresh, NextCases

(* Every candidate is decided by one commit of a process, once.  Where no  *)
(* reindex job reads a pack and one remote indexer works on the document,  *)
(* this holds for any number of pods, packs, chunks, attempts, crashes and *)
(* commits.  The hypotheses are where the code stops guarding: the         *)
(* compare-and-swap of createRun (candidate-store.service.ts) does not     *)
(* tell two reopeners of a stale running run apart, and submit             *)
(* (external-candidates.service.ts) verifies its claim once, before it     *)
(* drops and stages.  Across processes nothing is claimed: commitLock      *)
(* (candidate-commit.service.ts) is an object of the process.              *)
THEOREM DecidedByOneCorrect ==
  ASSUME Reindexers = {}, \A u, v \in Pollers : u = v
  PROVE  Spec => []DecidedByOne
<1>1. Init => Held /\ ClearInv /\ Fresh
  <2> SUFFICES ASSUME Init PROVE Held /\ ClearInv /\ Fresh
    OBVIOUS
  <2>1. Held /\ cand = {}
    BY HeldInit DEF Init
  <2>2. \A r \in InProcess : index[r].pc = "idle"
    BY Places DEF Init, Resting
  <2>3. \A q \in Pollers : poll[q].pc = "idle"
    BY DEF Init
  <2> QED BY <2>1, <2>2, <2>3 DEF ClearInv, OneForm, Cleared, RemoteCleared, NoneOf, Fresh
<1>2. TypeOK /\ Held /\ ClearInv /\ Fresh /\ [Next]_vars => Held' /\ ClearInv' /\ Fresh'
  BY HeldStep, ClearStep, FreshStep DEF ClearInv
<1>3. TypeOK /\ Held /\ Fresh => DecidedByOne
  <2> SUFFICES ASSUME TypeOK, Held, Fresh, NEW c \in Committers, NEW x \in commit[c].batch
               PROVE  /\ [x EXCEPT !.decided = commit[c].pod] \notin cand
                      /\ \A d \in Committers \ {c} :
                           commit[d].pod = commit[c].pod => x \notin commit[d].batch
    BY DEF DecidedByOne
  <2> DEFINE y == [x EXCEPT !.decided = commit[c].pod]
  <2>1. x \in CandType
    BY TypeParts DEF CommitRec
  <2>2. y.row = x.row /\ y.chunk = x.chunk /\ y.decided = commit[c].pod
    BY <2>1 DEF CandType
  <2> HIDE DEF y
  <2>3. y \notin cand
    BY <2>2 DEF Fresh
  <2>4. \A d \in Committers \ {c} : commit[d].pod = commit[c].pod => x \notin commit[d].batch
    BY DEF Held
  <2> QED BY <2>3, <2>4 DEF y
<1> QED BY <1>1, <1>2, <1>3, TypeInit, TypeStep, PTL DEF Spec
=============================================================================
