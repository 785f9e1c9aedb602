----------------------------- MODULE Documents ------------------------------
(***************************************************************************)
(* The queue-driven reading of one document (documents/): a fan-out of     *)
(* indexer runs, the candidates they stage, and the commit that turns      *)
(* candidates into memory once the runs have settled.                      *)
(*                                                                         *)
(* The actors are the request that fans the document out, the reader of    *)
(* the generalist run (the tenant's extract_documents passes or, in        *)
(* harness mode, the connected agent), one index job per in-process pack,  *)
(* the reindex jobs that visit the document again for a pack, the remote   *)
(* indexers that claim an external pack's run over the pull API, the       *)
(* commits (of commit_document jobs, of a pass, of a reindex job, and of   *)
(* the requests that submit candidates) and the nightly sweep.  Whoever    *)
(* reads for an in-process run is a worker below.  Jobs run in the leader  *)
(* pod of the worker loop, requests in any pod, and a pod may crash; the   *)
(* queue hands a job out again until its attempts are used up.  The run    *)
(* row's createdAt is only compared with the stale window: `stale' is that *)
(* answer.                                                                 *)
(***************************************************************************)
EXTENDS Naturals, Sequences, FiniteSets

CONSTANTS
  NPacks,       \* in-process packs
  Reindexers,   \* reindex_documents jobs that will visit the document
  PackOf,       \* the pack a worker reads for
  Remote,       \* external packs (set of model values)
  Plans,        \* the reads a document may be routed to
  Pollers,      \* remote indexers
  NoPoller,     \* no claim token
  Pods,         \* processes of the service
  Leader,       \* the pod whose worker loop runs the jobs
  NoPod,        \* a candidate that no commit has decided
  NoCommitter,  \* a commit lock is free
  Chunks,       \* the document's chunks
  MaxAttempts,  \* attempts of an index_document job, passes of a reindex
  MaxFaults,    \* bound: calls that fail and crashes of a pod
  MaxClaims     \* bound: claims of remote work and takes of the agent

General == 0         \* the generalist run
Packs == 1 .. NPacks
InProcess == {General} \cup Packs
Rows == InProcess \cup Remote
Workers == InProcess \cup Reindexers
WholeDocument == 0   \* the chunkSeq of a batch for the whole document
Sweep == NPacks + 1  \* the reconciler's commit key, fresh every day
Keys == Packs \cup {Sweep}   \* the dedup keys of commit_document jobs
Committers == {General} \cup Keys \cup Reindexers \cup Pollers   \* who commits

ASSUME DocumentsAssumption ==
  /\ NPacks \in Nat \ {0} /\ MaxAttempts \in Nat \ {0}
  /\ Remote \cap Nat = {} /\ (Remote = {} => Pollers = {})
  /\ Plans \subseteq [specs : Seq(InProcess), external : SUBSET Remote]
  /\ (Reindexers \cup Pollers) \cap Nat = {} /\ Reindexers \cap Pollers = {}
  /\ PackOf \in [Workers -> InProcess] /\ \A r \in InProcess : PackOf[r] = r
  /\ NoPoller \notin Pollers /\ NoCommitter \notin Committers
  /\ Leader \in Pods /\ NoPod \notin Pods /\ WholeDocument \notin Chunks
  /\ MaxFaults \in Nat /\ MaxClaims \in Nat

VARIABLES
  fan,       \* the fan-out: the reads still to be queued
  run,       \* indexer_run rows
  cand,      \* candidate rows
  reader,    \* who reads the generalist run, and whether something asked for it
  index,     \* the workers and their jobs
  cjob,      \* commit_document jobs by dedup key
  commit,    \* the commits in progress
  lock,      \* commitLock of the document, in each pod
  poll,      \* the remote indexers
  faults, claims

vars == <<fan, run, cand, reader, index, cjob, commit, lock, poll, faults, claims>>
bounds == <<faults, claims>>

Open == {"pending", "running"}
Terminal == {"succeeded", "failed", "raw"}   \* raw: skipped, of depth raw

CandType == [row : Rows, chunk : Chunks \cup {WholeDocument}, decided : Pods \cup {NoPod}]

TypeOK ==
  /\ fan \in [specs : Seq(InProcess), row : BOOLEAN, external : SUBSET Remote]
  /\ run \in [Rows -> [status : {"none"} \cup Open \cup Terminal, stale : BOOLEAN,
                       token : Pollers \cup {NoPoller}]]
  /\ cand \subseteq CandType
  /\ reader \in [source : {"server", "harness"}, asked : BOOLEAN]
  /\ index \in [Workers -> [job : {"none", "queued", "running", "done"},
                          attempts : 0 .. MaxAttempts,
                          pc : {"idle", "drop", "swap", "stage", "close", "commit"},
                          seen : {"none"} \cup Open \cup Terminal,
                          left : SUBSET Chunks,
                          end : {"skipped"} \cup Terminal]]
  /\ cjob \in [Keys -> {"none", "queued", "running", "done"}]
  /\ commit \in [Committers -> [pc : {"idle", "count", "lock", "mark"},
                                pod : Pods, batch : SUBSET CandType]]
  /\ lock \in [Pods -> Committers \cup {NoCommitter}]
  /\ poll \in [Pollers -> [pc : {"idle", "held", "drop", "insert", "close"},
                           row : Remote]]
  /\ faults \in 0 .. MaxFaults /\ claims \in 0 .. MaxClaims

(* A job that no worker runs, and a run row that nobody has claimed. *)
Resting(job, attempts) ==
  [job |-> job, attempts |-> attempts, pc |-> "idle", seen |-> "none", left |-> {},
   end |-> "skipped"]
Unclaimed(status) == [status |-> status, stale |-> FALSE, token |-> NoPoller]
NoCommit == [pc |-> "idle", pod |-> Leader, batch |-> {}]

Init ==
  /\ \E plan \in Plans :
       fan = [specs |-> plan.specs, row |-> FALSE, external |-> plan.external]
  /\ run = [r \in Rows |-> Unclaimed("none")]
  /\ cand = {}
  /\ reader \in [source : {"server", "harness"}, asked : {FALSE}]
  /\ index = [w \in Workers |-> Resting(IF w \in Packs THEN "none" ELSE "queued", 0)]
  /\ cjob = [k \in Keys |-> "none"]
  /\ commit = [c \in Committers |-> NoCommit]
  /\ lock = [p \in Pods |-> NoCommitter]
  /\ poll = [q \in Pollers |-> [pc |-> "idle", row |-> CHOOSE r \in Remote : TRUE]]
  /\ faults = 0 /\ claims = 0

-----------------------------------------------------------------------------
(* The candidate store's statements.                                       *)

Fault == faults < MaxFaults /\ faults' = faults + 1 /\ UNCHANGED claims

SetStatus(r, s) == run' = [run EXCEPT ![r].status = s, ![r].stale = FALSE]

(* ensureRunPending: an existing row is left alone. *)
EnsureRunPending(r) ==
  IF run[r].status = "none" THEN SetStatus(r, "pending") ELSE UNCHANGED run

(* DELETE candidate WHERE runId.  A row staged again has another id: the   *)
(* commits that loaded the old one will find nothing to mark.              *)
DropRunCandidates(r) ==
  /\ cand' = {x \in cand : x.row # r}
  /\ commit' = [c \in Committers |->
                  [commit[c] EXCEPT !.batch = {x \in commit[c].batch : x.row # r}]]

(* insertBatch: one chunk, in one statement. *)
InsertBatch(r, chunks) ==
  cand' = cand \cup {[row |-> r, chunk |-> k, decided |-> NoPod] : k \in chunks}

(* createRun reopens a pending, a failed or a stale running run. *)
Reopenable(r) == run[r].status \in {"pending", "failed"} \/ (run[r].status = "running" /\ run[r].stale)

(* Faulty variant: the runs of remote indexers hold the commit too. *)
AllOpenRuns == {r \in Rows : run[r].status \in Open}

(* countNonTerminalRuns: external runs do not count, a waiting generalist  *)
(* run does.                                                               *)
NonTerminalRuns == {r \in InProcess : run[r].status \in Open}

Pending == {x \in cand : x.decided = NoPod}

(* A commit of c begins in pod p. *)
CommitHere(c, p) ==
  /\ commit[c].pc = "idle"
  /\ commit' = [commit EXCEPT ![c].pc = "count", ![c].pod = p]

(* enqueue of a commit_document job: a key in any state collapses it. *)
EnqueueCommit(k) == cjob' = [cjob EXCEPT ![k] = IF @ = "none" THEN "queued" ELSE @]

-----------------------------------------------------------------------------
(* fanOut: for each in-process read in turn the row, then the job; then    *)
(* the external packs' work items.  For the generalist, while background   *)
(* extraction is on, the job is the tenant's next pass, which other        *)
(* documents ask for too.                                                  *)

FanRow ==
  /\ fan.specs # <<>> /\ ~fan.row
  /\ EnsureRunPending(Head(fan.specs))
  /\ fan' = [fan EXCEPT !.row = TRUE]
  /\ UNCHANGED <<cand, reader, index, cjob, commit, lock, poll, bounds>>

FanJob ==
  /\ fan.specs # <<>> /\ fan.row
  /\ index' = [index EXCEPT ![Head(fan.specs)].job = IF @ = "none" THEN "queued" ELSE @]
  /\ fan' = [fan EXCEPT !.specs = Tail(@), !.row = FALSE]
  /\ UNCHANGED <<run, cand, reader, cjob, commit, lock, poll, bounds>>

PlanExternal ==
  /\ fan.specs = <<>> /\ fan.external # {}
  /\ run' = [r \in Rows |-> IF r \in fan.external THEN Unclaimed("pending") ELSE run[r]]
  /\ fan' = [fan EXCEPT !.external = {}]
  /\ UNCHANGED <<cand, reader, index, cjob, commit, lock, poll, bounds>>

(* The request dies, or one of its calls throws: the rest is not queued. *)
FanDies ==
  /\ fan.specs # <<>> \/ fan.external # {}
  /\ Fault
  /\ fan' = [specs |-> <<>>, row |-> FALSE, external |-> {}]
  /\ UNCHANGED <<run, cand, reader, index, cjob, commit, lock, poll>>

-----------------------------------------------------------------------------
(* index_document, reindex_documents and the reader of the generalist run: *)
(* runIndexer and its callers.                                             *)

IndexRest == <<fan, reader, lock, poll>>
Harness == reader.source = "harness"
SetWork(w, pc, end) == index' = [index EXCEPT ![w].pc = pc, ![w].end = end]

(* The job is claimed and createRun inserts the row, or finds it and       *)
(* reopens it, or skips.  A pass, and the agent that takes work, list the  *)
(* waiting and the failed generalist runs first (listAwaitingRuns).  A     *)
(* pass that a capture or a retry asked for may come at any time, and the  *)
(* one the nightly sweep asks for does.                                    *)
IndexObserve(w) ==
  LET r == PackOf[w]
      new == run[r].status = "none" IN
  /\ index[w].job = "queued"
  /\ w = General => run[r].status \in {"pending", "failed"} /\ (Harness => claims < MaxClaims)
  /\ IF new THEN SetStatus(r, "running") ELSE UNCHANGED run
  /\ index' = [index EXCEPT ![w].job = "running", ![w].attempts = IF w = General THEN @ ELSE @ + 1,
                            ![w].pc = IF new THEN "stage" ELSE IF Reopenable(r) THEN "drop" ELSE "commit",
                            ![w].seen = IF Reopenable(r) THEN run[r].status ELSE "none",
                            ![w].left = IF new THEN Chunks ELSE {}]
  /\ claims' = IF w = General /\ Harness THEN claims + 1 ELSE claims
  /\ UNCHANGED <<IndexRest, cand, cjob, commit, faults>>

IndexDrop(w) ==
  /\ index[w].pc = "drop"
  /\ DropRunCandidates(PackOf[w])
  /\ SetWork(w, "swap", "skipped")
  /\ UNCHANGED <<IndexRest, run, cjob, bounds>>

(* The compare-and-swap on the status that was observed. *)
IndexSwap(w) ==
  /\ index[w].pc = "swap"
  /\ IF run[PackOf[w]].status = index[w].seen
     THEN /\ SetStatus(PackOf[w], "running")
          /\ index' = [index EXCEPT ![w].pc = "stage", ![w].left = Chunks, ![w].seen = "none"]
     ELSE /\ index' = [index EXCEPT ![w].pc = "commit", ![w].seen = "none"]
          /\ UNCHANGED run
  /\ UNCHANGED <<IndexRest, cand, cjob, commit, bounds>>

(* The chunks are read one by one, except by the agent. *)
ReadsChunks(w) == w # General \/ ~Harness

(* One chunk is extracted and staged. *)
IndexStage(w) ==
  /\ index[w].pc = "stage" /\ ReadsChunks(w)
  /\ \E k \in index[w].left :
       /\ InsertBatch(PackOf[w], {k})
       /\ index' = [index EXCEPT ![w].left = @ \ {k},
                                 ![w].pc = IF index[w].left = {k} THEN "close" ELSE "stage",
                                 ![w].end = IF index[w].left = {k} THEN "succeeded" ELSE @]
  /\ UNCHANGED <<IndexRest, run, cjob, commit, bounds>>

(* A chunk's extraction fails: the others settle, then the run is failed. *)
IndexStageFails(w) ==
  /\ index[w].pc = "stage"
  /\ Fault
  /\ \E done \in SUBSET index[w].left :
       /\ done # index[w].left /\ (done # {} => ReadsChunks(w))
       /\ InsertBatch(PackOf[w], done)
  /\ index' = [index EXCEPT ![w].pc = "close", ![w].end = "failed", ![w].left = {}]
  /\ UNCHANGED <<IndexRest, run, cjob, commit>>

(* Nothing of the document is read yet. *)
Unread == index[General].pc = "stage" /\ index[General].left = Chunks

GeneralClose(end) ==
  index' = [index EXCEPT ![General].pc = "close", ![General].end = end, ![General].left = {}]

(* stageGroup: a pass that reads several documents at once, or the agent   *)
(* that submits, stages one batch for the whole document.                  *)
GeneralWhole ==
  /\ Unread
  /\ InsertBatch(General, {WholeDocument})
  /\ GeneralClose("succeeded")
  /\ UNCHANGED <<IndexRest, run, cjob, commit, bounds>>

(* keepRaw: a pass closes the run unread, unless something asked for it. *)
GeneralRaw ==
  /\ Unread /\ ~Harness /\ ~reader.asked
  /\ GeneralClose("raw")
  /\ UNCHANGED <<IndexRest, run, cand, cjob, commit, bounds>>

(* promote: an answer, or the idle budget, asks for a read that was kept   *)
(* raw.  (For a read that waits it only rules GeneralRaw out.)             *)
Promote ==
  /\ run[General].status = "raw"
  /\ run' = [run EXCEPT ![General].status = "pending"]
  /\ reader' = [reader EXCEPT !.asked = TRUE]
  /\ UNCHANGED <<fan, cand, index, cjob, commit, lock, poll, bounds>>

(* The agent does not come back with what it took, before its token        *)
(* expires, or its request dies.                                           *)
AgentLeaves ==
  /\ Harness /\ index[General].pc # "idle"
  /\ index' = [index EXCEPT ![General] = Resting("queued", 0)]
  /\ UNCHANGED <<IndexRest, run, cand, cjob, commit, bounds>>

(* Faulty variant: a failed chunk is left out of the run and forgotten. *)
FinalizeAnyway(w) == SetStatus(PackOf[w], "succeeded")

(* finalizeRun. *)
FinalizeRun(w) == SetStatus(PackOf[w], index[w].end)

IndexClose(w) ==
  /\ index[w].pc = "close"
  /\ FinalizeRun(w)
  /\ SetWork(w, "commit", index[w].end)
  /\ UNCHANGED <<IndexRest, cand, cjob, commit, bounds>>

(* The write fails.  A success is then recorded as a failure, and when     *)
(* that write fails too the run stays as it is.                            *)
IndexCloseFails(w) ==
  /\ index[w].pc = "close"
  /\ Fault
  /\ UNCHANGED run \/ (index[w].end = "succeeded" /\ SetStatus(PackOf[w], "failed"))
  /\ SetWork(w, "commit", "failed")
  /\ UNCHANGED <<IndexRest, cand, cjob, commit>>

(* A failed attempt is thrown (or its document left to a later pass), and  *)
(* the queue hands the job out again.                                      *)
TryAgain(w) == index[w].attempts < MaxAttempts   \* always so of the passes

(* Faulty variant: a job that ended is handed out again, whatever its end. *)
JobOverForever(w, again) ==
  index' = [index EXCEPT ![w] = Resting("queued", index[w].attempts)]

JobOver(w, again) ==
  index' = [index EXCEPT ![w] =
             Resting(IF w = General \/ (again /\ TryAgain(w)) THEN "queued" ELSE "done",
                     index[w].attempts)]

(* handleIndexJob's finally: the commit gets its chance, and an enqueue    *)
(* that fails is only logged.  A reindex or a pass that read the document, *)
(* and the agent's submit, commit at once, in a commit that no job asked   *)
(* for.                                                                    *)
CommitsHere(w) == index[w].end = "succeeded" \/ (w = General /\ index[w].end = "skipped")
ServedBy(w) == IF w = General /\ Harness THEN Pods ELSE {Leader}

IndexCommit(w) ==
  /\ index[w].pc = "commit"
  /\ JobOver(w, index[w].end = "failed")
  /\ IF w \in Packs
     THEN /\ \/ EnqueueCommit(w) /\ UNCHANGED bounds
             \/ Fault /\ UNCHANGED cjob
          /\ UNCHANGED commit
     ELSE /\ IF CommitsHere(w) THEN \E p \in ServedBy(w) : CommitHere(w, p) ELSE UNCHANGED commit
          /\ UNCHANGED <<cjob, bounds>>
  /\ UNCHANGED <<IndexRest, run, cand>>

-----------------------------------------------------------------------------
(* commit_document: commitIfRunsSettled and commitLocked.                  *)

CommitRest == <<fan, run, reader, index, poll>>

CommitClaim(c) ==
  /\ c \in Keys /\ cjob[c] = "queued"
  /\ cjob' = [cjob EXCEPT ![c] = "running"]
  /\ CommitHere(c, Leader)
  /\ UNCHANGED <<CommitRest, cand, lock, bounds>>

(* A commit ends, and its job, if a job asked for it, is in state s. *)
CommitEnds(c, s) ==
  /\ commit' = [commit EXCEPT ![c] = NoCommit]
  /\ cjob' = IF c \in Keys THEN [cjob EXCEPT ![c] = s] ELSE cjob
  /\ lock' = [lock EXCEPT ![commit[c].pod] = IF @ = c THEN NoCommitter ELSE @]

(* A run is still open: the commit is left to whoever finishes later. *)
CommitDefers(c) ==
  /\ commit[c].pc = "count" /\ NonTerminalRuns # {}
  /\ CommitEnds(c, "done")
  /\ UNCHANGED <<CommitRest, cand, bounds>>

CommitSettled(c) ==
  /\ commit[c].pc = "count" /\ NonTerminalRuns = {}
  /\ commit' = [commit EXCEPT ![c].pc = "lock"]
  /\ UNCHANGED <<CommitRest, cand, cjob, lock, bounds>>

(* loadPending; the candidates are then merged and written to the resolver. *)
CommitLoad(c) ==
  /\ commit[c].pc = "lock"
  /\ IF Pending = {} THEN CommitEnds(c, "done")
     ELSE /\ commit' = [commit EXCEPT ![c].pc = "mark", ![c].batch = Pending]
          /\ lock' = [lock EXCEPT ![commit[c].pod] = c]
          /\ UNCHANGED cjob
  /\ UNCHANGED <<CommitRest, cand, bounds>>

(* Faulty variant: the commit does not wait for the document's mutex. *)
CommitUnlocked(c) == CommitLoad(c)

(* commitLock is a KeyedMutex of the process: commits in different pods do *)
(* not wait for each other.  Whoever gets it loads at once.                *)
CommitLock(c) == lock[commit[c].pod] = NoCommitter /\ CommitLoad(c)

(* markStatuses: the rows that are still there, by their ids and whatever  *)
(* their status is by now.                                                 *)
CommitMark(c) ==
  /\ commit[c].pc = "mark"
  /\ cand' = {IF [x EXCEPT !.decided = NoPod] \in commit[c].batch
              THEN [x EXCEPT !.decided = commit[c].pod] ELSE x : x \in cand}
  /\ CommitEnds(c, "done")
  /\ UNCHANGED <<CommitRest, bounds>>

(* The commit throws.  Its attempts are many: the job is run again, or is  *)
(* failed for good.                                                        *)
CommitFails(c) ==
  /\ commit[c].pc \in {"count", "lock", "mark"}
  /\ commit[c].pc = "lock" => lock[commit[c].pod] = NoCommitter
  /\ Fault
  /\ CommitEnds(c, "queued") \/ CommitEnds(c, "done")
  /\ UNCHANGED <<CommitRest, cand>>

-----------------------------------------------------------------------------
(* The pull API (indexer-work.service.ts, external-candidates.service.ts). *)

PollRest == <<fan, reader, index, cjob, lock>>

HasClaim(q, r) == run[r].status = "running" /\ run[r].token = q

PollClaim(q, r) ==
  /\ poll[q].pc = "idle" /\ claims < MaxClaims
  /\ Reopenable(r)
  /\ run' = [run EXCEPT ![r] = [status |-> "running", stale |-> FALSE, token |-> q]]
  /\ poll' = [poll EXCEPT ![q] = [pc |-> "held", row |-> r]]
  /\ claims' = claims + 1
  /\ UNCHANGED <<PollRest, cand, commit, faults>>

PollHeartbeat(q) ==
  /\ poll[q].pc = "held" /\ HasClaim(q, poll[q].row)
  /\ run' = [run EXCEPT ![poll[q].row].stale = FALSE]
  /\ UNCHANGED <<PollRest, poll, cand, commit, bounds>>

(* fail: release the work, or give it up for good; a lost claim is told so. *)
PollFail(q) ==
  /\ poll[q].pc = "held"
  /\ \/ /\ HasClaim(q, poll[q].row)
        /\ \E s \in {"pending", "failed"} :
             run' = [run EXCEPT ![poll[q].row] =
                       [status |-> s, stale |-> FALSE,
                        token |-> IF s = "pending" THEN NoPoller ELSE q]]
     \/ ~HasClaim(q, poll[q].row) /\ UNCHANGED run
  /\ poll' = [poll EXCEPT ![q].pc = "idle"]
  /\ UNCHANGED <<PollRest, cand, commit, bounds>>

(* submit: the token is verified first, and no longer looked at after. *)
PollSubmit(q) ==
  /\ poll[q].pc = "held"
  /\ poll' = [poll EXCEPT ![q].pc = IF HasClaim(q, poll[q].row) THEN "drop" ELSE "idle"]
  /\ UNCHANGED <<PollRest, run, cand, commit, bounds>>

PollDrop(q) ==
  /\ poll[q].pc = "drop"
  /\ DropRunCandidates(poll[q].row)
  /\ poll' = [poll EXCEPT ![q].pc = "insert"]
  /\ UNCHANGED <<PollRest, run, bounds>>

PollInsert(q) ==
  /\ poll[q].pc = "insert"
  /\ InsertBatch(poll[q].row, {WholeDocument})
  /\ poll' = [poll EXCEPT ![q].pc = "close"]
  /\ UNCHANGED <<PollRest, run, commit, bounds>>

(* One of the submit's writes throws; the indexer may submit again. *)
PollError(q) ==
  /\ poll[q].pc \in {"drop", "insert", "close"}
  /\ Fault
  /\ poll' = [poll EXCEPT ![q].pc = "held"]
  /\ UNCHANGED <<PollRest, run, cand, commit>>

(* finalizeRun, then the request commits, in the pod that serves it, if    *)
(* the runs have settled.                                                  *)
PollClose(q) ==
  /\ poll[q].pc = "close"
  /\ SetStatus(poll[q].row, "succeeded")
  /\ poll' = [poll EXCEPT ![q].pc = "idle"]
  /\ (\E p \in Pods : CommitHere(q, p)) \/ UNCHANGED commit    \* or the commit throws at once
  /\ UNCHANGED <<PollRest, cand, bounds>>

-----------------------------------------------------------------------------
(* The nightly sweep (candidate-sweeper.service.ts reconcileRuns).         *)

(* Faulty variant: an abandoned run is left as it is. *)
NothingReaped(r) == run[r]

(* reapStaleRuns: an abandoned in-process run fails, unless it is a        *)
(* generalist run that waits; an abandoned claim goes back to pending;     *)
(* work nobody claimed in time fails.                                      *)
Waiting(r) == r = General /\ run[r].status = "pending"

Reaped(r) ==
  IF ~run[r].stale \/ run[r].status \notin Open \/ Waiting(r) THEN run[r]
  ELSE IF r \in Remote /\ run[r].status = "running"
       THEN Unclaimed("pending")
       ELSE [run[r] EXCEPT !.status = "failed", !.stale = FALSE]

(* Then a pass is asked for and the idle budget spent (IndexObserve and    *)
(* Promote, which may come at any time), and findDocsNeedingCommit: a      *)
(* commit under the day's own key.                                         *)
ReconcileRuns ==
  /\ run' = [r \in Rows |-> Reaped(r)]
  /\ cjob' = IF Pending # {} /\ cjob[Sweep] \in {"none", "done"}
             THEN [cjob EXCEPT ![Sweep] = "queued"] ELSE cjob
  /\ UNCHANGED <<fan, cand, reader, index, commit, lock, poll, bounds>>

-----------------------------------------------------------------------------
(* The stale window passes.  It exceeds the longest extraction, so no run  *)
(* goes stale under a live in-process worker.                              *)
GoesStale(r) ==
  /\ run[r].status \in Open /\ ~run[r].stale
  /\ \A w \in Workers : PackOf[w] = r => index[w].pc \notin {"stage", "close"}
  /\ run' = [run EXCEPT ![r].stale = TRUE]
  /\ UNCHANGED <<fan, cand, reader, index, cjob, commit, lock, poll, bounds>>

(* Pod p dies, with its commits; with the leader its jobs, which the queue *)
(* hands out again while they have attempts left.                          *)
Crash(p) ==
  /\ Fault
  /\ index' = [w \in Workers |->
       IF p # Leader \/ index[w].job # "running" THEN index[w]
       ELSE Resting(IF TryAgain(w) THEN "queued" ELSE "done", index[w].attempts)]
  /\ cjob' = [k \in Keys |->
       IF p = Leader /\ cjob[k] = "running" THEN "queued" ELSE cjob[k]]
  /\ commit' = [c \in Committers |-> IF commit[c].pod = p THEN NoCommit ELSE commit[c]]
  /\ lock' = [lock EXCEPT ![p] = NoCommitter]
  /\ UNCHANGED <<fan, run, cand, reader, poll>>

FanOut == FanRow \/ FanJob \/ PlanExternal \/ FanDies

IndexStep(w) ==
  \/ IndexObserve(w) \/ IndexDrop(w) \/ IndexSwap(w)
  \/ IndexStage(w) \/ IndexStageFails(w) \/ IndexClose(w)
  \/ IndexCloseFails(w) \/ IndexCommit(w)

GeneralStep == IndexStep(General) \/ GeneralWhole \/ GeneralRaw

CommitStep(c) ==
  \/ CommitClaim(c) \/ CommitDefers(c) \/ CommitSettled(c) \/ CommitLock(c)
  \/ CommitMark(c) \/ CommitFails(c)

PollStep(q) ==
  \/ \E r \in Remote : PollClaim(q, r)
  \/ PollHeartbeat(q) \/ PollFail(q) \/ PollSubmit(q)
  \/ PollDrop(q) \/ PollInsert(q) \/ PollError(q) \/ PollClose(q)

Next ==
  \/ FanOut
  \/ \E w \in Workers : IndexStep(w)
  \/ GeneralWhole \/ GeneralRaw \/ Promote \/ AgentLeaves
  \/ \E c \in Committers : CommitStep(c)
  \/ \E q \in Pollers : PollStep(q)
  \/ ReconcileRuns
  \/ \E r \in Rows : GoesStale(r)
  \/ \E p \in Pods : Crash(p)

Spec == Init /\ [][Next]_vars

(* A pass reads what waits and finishes; what failed it need not retry. *)
PassDue == ~Harness /\ (index[General].pc = "idle" => Waiting(General))

(* The queue runs its jobs, the cron fires every night (and asks for a     *)
(* pass), a conversation is held back no longer than its wait bound, and   *)
(* time passes, for the agent's tokens too.  Nothing makes the agent take  *)
(* the generalist run, or a remote indexer come back or finish what it     *)
(* claimed.                                                                *)
FairSpec ==
  /\ Spec
  /\ WF_vars(FanOut)
  /\ \A w \in Workers \ {General} : WF_vars(IndexStep(w))
  /\ WF_vars(PassDue /\ GeneralStep)
  /\ WF_vars(AgentLeaves)
  /\ \A r \in InProcess : WF_vars(GoesStale(r))
  /\ \A c \in Committers : WF_vars(CommitStep(c))
  /\ WF_vars(ReconcileRuns)

-----------------------------------------------------------------------------
(* A run that succeeded has every chunk staged or decided, by itself or in *)
(* a batch for the whole document: neither a retry's clean-up, a crash nor *)
(* the sweep ever leaves a hole in it.                                     *)
SucceededIsWhole ==
  \A r \in InProcess : run[r].status = "succeeded" =>
     \A k \in Chunks : \E x \in cand : x.row = r /\ x.chunk \in {k, WholeDocument}

(* Two commits of the document in one process never take the same          *)
(* candidate, and every candidate a commit holds is decided by no other    *)
(* commit of its process before it is.  (Commits in different processes    *)
(* may well take the same one: commitLock is the process's own.)           *)
DecidedByOne ==
  \A c \in Committers : \A x \in commit[c].batch :
     /\ [x EXCEPT !.decided = commit[c].pod] \notin cand
     /\ \A d \in Committers \ {c} : commit[d].pod = commit[c].pod => x \notin commit[d].batch

(* In harness mode, the generalist run waits for the agent. *)
AgentAwaited == Harness /\ Waiting(General)

(* The in-process runs come to an end, all of them, whatever crashed, but  *)
(* for a generalist run that waits for an agent: the reaper never fails    *)
(* it.                                                                     *)
RunsSettle ==
  (\E r \in InProcess : run[r].status \in Open)
    ~> \A r \in InProcess : run[r].status \in Open => r = General /\ AgentAwaited

(* No staged candidate of theirs stays pending: a commit decides it (or a  *)
(* new attempt replaces it), although the generalist run or another pack's *)
(* may have held a commit back, a commit may have failed, been collapsed   *)
(* by its dedup key or died, and a remote indexer may never come.  What    *)
(* can hold it for ever is a generalist run that no agent takes.  (Or that *)
(* agents take and leave for ever: here MaxClaims bounds the takes.)       *)
EventuallyDecided ==
  (\E x \in Pending : x.row \in InProcess)
    ~> AgentAwaited \/ ~\E x \in Pending : x.row \in InProcess

(* Two jobs that find the same reopenable run never both extract it: the   *)
(* compare-and-swap of createRun lets one of them through.                 *)
OneExtractor ==
  \A v, w \in Workers : v # w /\ PackOf[v] = PackOf[w] =>
     ~(index[v].pc = "stage" /\ index[w].pc = "stage")
=============================================================================
