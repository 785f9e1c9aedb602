---------------------------- MODULE Idempotency -----------------------------
(***************************************************************************)
(* The requests that carry one Idempotency-Key of one credential:          *)
(* IdempotencyInterceptor.run around the handler, and the statements of    *)
(* IdempotencyStoreService on the key's row of idempotency_key (0179).     *)
(*                                                                         *)
(* Every awaited statement is a step, so requests interleave between the   *)
(* SELECT, the DELETE of an expired row and the CREATE that the unique     *)
(* index decides.  Record ids are never reused: they are numbered in the   *)
(* order of creation, and the answer stored under a row is named by its id.*)
(* A statement whose answer does not arrive may have committed or not.     *)
(***************************************************************************)
EXTENDS Integers

CONSTANTS
  Requests,   \* requests under the key, retries included
  Prints,     \* request fingerprints
  PrintOf     \* the fingerprint of each request

ASSUME PrintAssumption ==
  /\ Prints # {}
  /\ PrintOf \in [Requests -> Prints]

VARIABLES
  row,        \* the row of the key, or NoRow
  nextId,     \* the next record id
  lapsed,     \* record ids whose expiresAt has passed
  reqs,       \* reqs[r]: where request r is and what it was told
  effects     \* requests whose handler took effect

vars == <<row, nextId, lapsed, reqs, effects>>

NoRow == [id |-> 0, print |-> CHOOSE p \in Prints : TRUE, state |-> "pending", status |-> "none"]

(* A response of the handler that is stored. *)
Stored == {"ok", "refused"}

KeyRow == [id : Nat, print : Prints, state : {"pending", "done"}, status : Stored \cup {"none"}]

Request ==
  [ pc : {"select", "delete", "create", "run", "store", "release", "end"},
    attempt : 0..1,
    seen : Nat,                            \* the expired row it read
    id : Nat,                              \* the row it created
    reply : Stored \cup {"none", "failed", "in_flight", "mismatch", "replay", "lost"},
    status : Stored \cup {"none"} ]        \* of the answer it stores or is replayed

TypeOK ==
  /\ row \in KeyRow
  /\ nextId \in Nat \ {0}
  /\ lapsed \subseteq Nat
  /\ reqs \in [Requests -> Request]
  /\ effects \subseteq Requests

Init ==
  /\ row = NoRow
  /\ nextId = 1
  /\ lapsed = {}
  /\ reqs = [r \in Requests |-> [pc |-> "select", attempt |-> 0, seen |-> 0, id |-> 0,
                                 reply |-> "none", status |-> "none"]]
  /\ effects = {}

Expired == row.id \in lapsed
InHandler(r) == reqs[r].pc \in {"run", "store", "release"}

At(r, pc) == reqs[r].pc = pc
Goes(r, pc) == reqs' = [reqs EXCEPT ![r].pc = pc]
Answers(r, reply) == reqs' = [reqs EXCEPT ![r].pc = "end", ![r].reply = reply]

-----------------------------------------------------------------------------
(* begin.                                                                   *)

Replays(r, status) ==
  reqs' = [reqs EXCEPT ![r].pc = "end", ![r].reply = "replay", ![r].seen = row.id, ![r].status = status]

(* Faulty variant: the state is not looked at, and a missing status is 200. *)
DecideUnfinished(r) ==
  IF row.print # PrintOf[r] THEN Answers(r, "mismatch")
  ELSE Replays(r, IF row.status = "none" THEN "ok" ELSE row.status)

(* decide: what the row found says of this request. *)
Decide(r) ==
  IF row.print # PrintOf[r] THEN Answers(r, "mismatch")
  ELSE IF row.state = "pending" THEN Answers(r, "in_flight")
  ELSE Replays(r, row.status)

Select(r) ==
  /\ At(r, "select")
  /\ \/ row # NoRow /\ ~Expired /\ Decide(r)
     \/ row # NoRow /\ Expired /\ reqs' = [reqs EXCEPT ![r].pc = "delete", ![r].seen = row.id]
     \/ row = NoRow /\ Goes(r, "create")
  /\ UNCHANGED <<row, nextId, lapsed, effects>>

(* Faulty variant: the DELETE names the key, not the record that was read. *)
DeletedByKey(id) == NoRow

(* DELETE $id. *)
Deleted(id) == IF row.id = id THEN NoRow ELSE row

DeleteExpired(r) ==
  /\ At(r, "delete")
  /\ row' = Deleted(reqs[r].seen)
  /\ Goes(r, "create")
  /\ UNCHANGED <<nextId, lapsed, effects>>

Pending(r) == [id |-> nextId, print |-> PrintOf[r], state |-> "pending", status |-> "none"]

(* The unique index lets one CREATE through ...                             *)
Create(r) ==
  /\ At(r, "create")
  /\ row = NoRow
  /\ row' = Pending(r)
  /\ nextId' = nextId + 1
  /\ reqs' = [reqs EXCEPT ![r].pc = "run", ![r].id = nextId]
  /\ UNCHANGED <<lapsed, effects>>

(* Faulty variant: the loop counts to its bound inclusively. *)
TriesOneMore(attempt) == attempt <= 1

(* for (attempt = 0; attempt < 2; attempt++): whether another round follows. *)
TriesAgain(attempt) == attempt + 1 < 2

(* ... and the loser reads the winner's row, once. *)
CreateRefused(r) ==
  /\ At(r, "create")
  /\ row # NoRow
  /\ IF TriesAgain(reqs[r].attempt)
     THEN reqs' = [reqs EXCEPT ![r].pc = "select", ![r].attempt = @ + 1]
     ELSE Answers(r, "in_flight")
  /\ UNCHANGED <<row, nextId, lapsed, effects>>

(* A statement of begin fails for another reason; the DELETE or the CREATE  *)
(* may have committed, and then the row of the CREATE is nobody's.          *)
BeginFails(r) ==
  /\ reqs[r].pc \in {"select", "delete", "create"}
  /\ Answers(r, "failed")
  /\ \/ UNCHANGED <<row, nextId>>
     \/ At(r, "delete") /\ row' = Deleted(reqs[r].seen) /\ UNCHANGED nextId
     \/ At(r, "create") /\ row = NoRow /\ row' = Pending(r) /\ nextId' = nextId + 1
  /\ UNCHANGED <<lapsed, effects>>

-----------------------------------------------------------------------------
(* The handler, and complete or release after it.                           *)

(* The handler answers 2xx, answers a 4xx or fails; the last two may come   *)
(* after writes that are committed, as when settle_fact has run and the     *)
(* stamp after it throws.                                                   *)
Handle(r) ==
  /\ At(r, "run")
  /\ \/ /\ effects' = effects \cup {r}
        /\ reqs' = [reqs EXCEPT ![r].pc = "store", ![r].status = "ok"]
     \/ /\ effects' \in {effects, effects \cup {r}}
        /\ reqs' = [reqs EXCEPT ![r].pc = "store", ![r].status = "refused"]
     \/ /\ effects' \in {effects, effects \cup {r}}
        /\ Goes(r, "release")
  /\ UNCHANGED <<row, nextId, lapsed>>

(* complete. *)
Completed(r) ==
  IF row.id = reqs[r].id THEN [row EXCEPT !.state = "done", !.status = reqs[r].status] ELSE row

Complete(r) ==
  /\ At(r, "store")
  /\ row' = Completed(r)
  /\ Answers(r, reqs[r].status)
  /\ UNCHANGED <<nextId, lapsed, effects>>

(* complete throws, before or after its UPDATE committed: inside the try    *)
(* after a 2xx, which goes on to release, inside the catch after a 4xx.     *)
CompleteFails(r) ==
  /\ At(r, "store")
  /\ row' \in {row, Completed(r)}
  /\ IF reqs[r].status = "ok" THEN Goes(r, "release") ELSE Answers(r, "failed")
  /\ UNCHANGED <<nextId, lapsed, effects>>

Release(r) ==
  /\ At(r, "release")
  /\ row' = Deleted(reqs[r].id)
  /\ Answers(r, "failed")
  /\ UNCHANGED <<nextId, lapsed, effects>>

(* release throws.  Its DELETE may have committed, and then the client is   *)
(* told what Release tells it.                                              *)
ReleaseFails(r) ==
  /\ At(r, "release")
  /\ row' \in {row, Deleted(reqs[r].id)}
  /\ Answers(r, "failed")
  /\ UNCHANGED <<nextId, lapsed, effects>>

(* The process dies with the request in it, the handler half done perhaps.  *)
(* What its last statement left is an outcome of that statement's failure.  *)
Crash(r) ==
  /\ ~At(r, "end")
  /\ effects' \in {effects} \cup (IF At(r, "run") THEN {effects \cup {r}} ELSE {})
  /\ Answers(r, "lost")
  /\ UNCHANGED <<row, nextId, lapsed>>

-----------------------------------------------------------------------------
(* IDEMPOTENCY_TTL_MS pass.  No request runs for 24 hours. *)
Expire ==
  /\ row # NoRow
  /\ ~Expired
  /\ \A r \in Requests : ~(InHandler(r) /\ reqs[r].id = row.id)
  /\ lapsed' = lapsed \cup {row.id}
  /\ UNCHANGED <<row, nextId, reqs, effects>>

Sweep ==
  /\ row # NoRow
  /\ Expired
  /\ row' = NoRow
  /\ UNCHANGED <<nextId, lapsed, reqs, effects>>

Next ==
  \/ \E r \in Requests :
       \/ Select(r) \/ DeleteExpired(r) \/ Create(r) \/ CreateRefused(r) \/ BeginFails(r)
       \/ Handle(r) \/ Complete(r) \/ CompleteFails(r) \/ Release(r) \/ ReleaseFails(r) \/ Crash(r)
  \/ Expire \/ Sweep

Spec == Init /\ [][Next]_vars

-----------------------------------------------------------------------------
(* The unique index and the DELETE by record id keep two requests of one    *)
(* key from being in the handler at once, whoever deletes what in between.  *)
SingleFlight == \A r, q \in Requests : InHandler(r) /\ InHandler(q) => r = q

Answered(r) == reqs[r].reply \in Stored

(* Within 24 hours one request is answered by the handler; every other one  *)
(* is replayed, refused or fails.                                           *)
AnsweredOnce ==
  \A r, q \in Requests :
    r # q /\ Answered(r) /\ Answered(q) => reqs[r].id \in lapsed \/ reqs[q].id \in lapsed

(* The handler of q, run under row id, answered with status; a 2xx took     *)
(* effect.                                                                  *)
Said(q, id, status) ==
  /\ reqs[q].id = id
  /\ reqs[q].status = status
  /\ status \in Stored
  /\ status = "ok" => q \in effects
  /\ Answered(q) => reqs[q].reply = status

(* A replay repeats what the handler answered to the same request under the *)
(* row that was read: never an answer of another request, of another row of *)
(* the key or of a handler still running.  The request it repeats may have  *)
(* been told of a failure itself, when its complete committed and the       *)
(* answer of the UPDATE was lost.                                           *)
ReplayIsFirst ==
  \A r \in Requests :
    reqs[r].reply = "replay" =>
      \E q \in Requests : Said(q, reqs[r].seen, reqs[r].status) /\ PrintOf[q] = PrintOf[r]

(* The key is not a transaction: a handler that wrote and failed, or whose  *)
(* answer could not be stored, frees it, and a retry writes again.  That is *)
(* the only way: a later request takes effect after r only if r's row has   *)
(* lapsed or r ended in a failure, never while r runs or once r is answered.*)
RerunOnlyAfterFailure ==
  \A r, q \in effects :
    r # q /\ reqs[r].id <= reqs[q].id => reqs[r].id \in lapsed \/ reqs[r].reply \in {"failed", "lost"}
=============================================================================
