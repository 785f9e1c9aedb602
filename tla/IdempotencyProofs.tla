------------------------- MODULE IdempotencyProofs --------------------------
(***************************************************************************)
(* SingleFlight, AnsweredOnce, ReplayIsFirst and RerunOnlyAfterFailure for *)
(* any number of requests under a key.                                     *)
(*                                                                         *)
(* The invariant says who may touch the row: the request in the handler    *)
(* holds it, not lapsed (HandlerHolds); whoever is about to delete a row   *)
(* has seen it lapsed, which no row recovers from (DeletesLapsed); an      *)
(* answer that has not lapsed is still in the row (AnswerKept), and what   *)
(* is in the row is what the handler said of the request that created it   *)
(* (RowSaid).  On top of it, a write that took effect keeps its row unless *)
(* its request ended in a failure (EffectHeld), and rows are created in    *)
(* the order of their ids (IdsOwned).                                      *)
(*                                                                         *)
(* Every step of a request but the CREATE changes that request and does    *)
(* one of three things to the row: nothing, the DELETE of a row it may     *)
(* delete, or the UPDATE of its own row (RequestStep, RowStep).            *)
(***************************************************************************)
EXTENDS Idempotency, TLAPS

(* Record ids in use are below nextId, the row is the one created last, and *)
(* no two requests created one row.                                         *)
IdsOwned ==
  /\ row.id < nextId
  /\ row.id # 0 => nextId = row.id + 1
  /\ row.id = 0 <=> row = NoRow
  /\ \A i \in lapsed : 0 < i /\ i < nextId
  /\ \A r \in Requests : reqs[r].id < nextId
  /\ \A r, q \in Requests : r # q /\ reqs[r].id # 0 => reqs[r].id # reqs[q].id

HandlerHolds ==
  \A r \in Requests :
    /\ InHandler(r) => /\ reqs[r].id # 0
                       /\ row.id = reqs[r].id
                       /\ row.print = PrintOf[r]
                       /\ row.id \notin lapsed
    /\ reqs[r].pc \in {"run", "store"} => row.state = "pending"
    /\ reqs[r].pc = "store" => /\ reqs[r].status \in Stored
                               /\ reqs[r].status = "ok" => r \in effects

(* Before its CREATE a request has no row, before its handler returns no    *)
(* status, and before it ends no reply.                                     *)
Progress ==
  \A r \in Requests :
    /\ reqs[r].pc \in {"select", "delete", "create"} => reqs[r].id = 0
    /\ reqs[r].pc \in {"select", "delete", "create", "run"} => reqs[r].status = "none"
    /\ reqs[r].reply = "none" \/ reqs[r].pc = "end"

DeletesLapsed == \A r \in Requests : reqs[r].pc = "delete" => reqs[r].seen \in lapsed

AnswerKept ==
  \A r \in Requests :
    Answered(r) => /\ reqs[r].id # 0
                   /\ reqs[r].reply = reqs[r].status
                   /\ reqs[r].id \notin lapsed => row.id = reqs[r].id /\ row.state = "done"

RowSaid ==
  row.state = "done" =>
    \E q \in Requests : Said(q, row.id, row.status) /\ PrintOf[q] = row.print

(* What is replayed was said under a row that exists or existed. *)
ReplayOfRow == \A r \in Requests : reqs[r].reply = "replay" => reqs[r].seen # 0

IInv == TypeOK /\ IdsOwned /\ HandlerHolds /\ Progress /\ DeletesLapsed
        /\ AnswerKept /\ RowSaid /\ ReplayOfRow /\ ReplayIsFirst

(* The absent row is a row. *)
LEMMA NoRowFields ==
  /\ NoRow \in KeyRow
  /\ NoRow.id = 0
  /\ NoRow.state = "pending"
<1>1. (CHOOSE p \in Prints : TRUE) \in Prints
  BY PrintAssumption
<1> QED
  BY <1>1 DEF NoRow, KeyRow, Stored

(* The invariant holds initially. *)
LEMMA InitIInv == Init => IInv
<1> SUFFICES ASSUME Init PROVE IInv
  OBVIOUS
<1> USE NoRowFields
<1>1. TypeOK
  BY DEF Init, TypeOK, Request, Stored
<1>2. IdsOwned
  BY DEF Init, IdsOwned
<1>3. HandlerHolds /\ DeletesLapsed /\ Progress
  BY DEF Init, HandlerHolds, DeletesLapsed, Progress, InHandler
<1>4. AnswerKept /\ RowSaid /\ ReplayIsFirst /\ ReplayOfRow
  BY DEF Init, AnswerKept, RowSaid, ReplayIsFirst, ReplayOfRow, Answered, Stored
<1> QED
  BY <1>1, <1>2, <1>3, <1>4 DEF IInv

(* What a step of r other than the CREATE does to the requests ...          *)
RequestStep(r) ==
  /\ ~At(r, "end")
  /\ \A q \in Requests \ {r} : reqs'[q] = reqs[q]
  /\ reqs'[r].id = reqs[r].id
  /\ reqs'[r].pc = "delete" => reqs'[r].seen \in lapsed
  /\ reqs'[r].pc \in {"select", "delete", "create"} =>
       /\ reqs[r].pc \in {"select", "delete", "create"}
       /\ reqs'[r].status = reqs[r].status
  /\ reqs'[r].pc # "run"
  /\ reqs'[r].pc = "store" => /\ reqs[r].pc = "run"
                              /\ row' = row
                              /\ reqs'[r].status \in Stored
                              /\ reqs'[r].status = "ok" => r \in effects'
  /\ reqs'[r].pc = "release" => reqs[r].pc \in {"run", "store"}
  /\ reqs'[r].status = reqs[r].status \/ reqs[r].pc \in {"select", "run"}
  /\ reqs'[r].reply = "none" \/ reqs'[r].pc = "end"
  /\ reqs'[r].reply \in Stored => /\ reqs[r].pc = "store"
                                  /\ reqs'[r].reply = reqs'[r].status
                                  /\ row'.id = row.id
                                  /\ row'.state = "done"
  /\ reqs'[r].reply = "replay" => /\ row.state = "done"
                                  /\ row.print = PrintOf[r]
                                  /\ reqs'[r].seen = row.id
                                  /\ reqs'[r].status = row.status
  /\ effects \subseteq effects'
  /\ UNCHANGED <<nextId, lapsed>>

(* ... and to the row. *)
RowStep(r) ==
  \/ row' = row
  \/ /\ row' = NoRow
     /\ row.id \in lapsed \/ reqs[r].pc = "release"
     /\ reqs'[r].pc \in {"create", "end"}
  \/ /\ reqs[r].pc = "store"
     /\ row' = [row EXCEPT !.state = "done", !.status = reqs[r].status]

(* What a handler said stays said. *)
LEMMA SaidStays ==
  ASSUME IInv, NEW r \in Requests, RequestStep(r),
         NEW q \in Requests, NEW id, NEW status, id # 0, Said(q, id, status)
  PROVE  Said(q, id, status)'
<1>1. CASE q # r
  BY <1>1 DEF RequestStep, Said, Answered
<1>2. CASE q = r
  <2>1. reqs[r].status \in Stored /\ "none" \notin Stored
    BY <1>2 DEF Said, Stored
  <2>2. reqs[r].pc \notin {"select", "run"}
    BY <2>1 DEF IInv, Progress
  <2>3. reqs'[r].status = reqs[r].status /\ reqs'[r].id = reqs[r].id
    BY <2>2 DEF RequestStep
  <2>4. Answered(r)' => reqs'[r].reply = status
    BY <1>2, <2>3 DEF RequestStep, Said, Answered
  <2> QED
    BY <1>2, <2>3, <2>4 DEF Said, RequestStep
<1> QED
  BY <1>1, <1>2

(* A step of that shape keeps the invariant. *)
LEMMA StepKeeps ==
  ASSUME IInv, NEW r \in Requests, TypeOK', RequestStep(r), RowStep(r)
  PROVE  IInv'
<1> USE DEF IInv
<1>0. /\ row \in KeyRow /\ row' \in KeyRow /\ nextId' = nextId /\ lapsed' = lapsed
      /\ \A q \in Requests : reqs'[q].id = reqs[q].id
      /\ nextId \in Nat
  BY DEF TypeOK, RequestStep
<1>1. ASSUME row' = row
      PROVE  IdsOwned' /\ HandlerHolds' /\ AnswerKept' /\ RowSaid'
  <2>1. IdsOwned'
    BY <1>0, <1>1 DEF IdsOwned, NoRow
  <2>2. HandlerHolds'
    BY <1>0, <1>1 DEF HandlerHolds, InHandler, RequestStep
  <2>3. AnswerKept'
    BY <1>0, <1>1 DEF AnswerKept, Answered, RequestStep, HandlerHolds, InHandler
  <2>4. RowSaid'
    <3>1. SUFFICES ASSUME row.state = "done"
                   PROVE  \E q \in Requests : Said(q, row.id, row.status)' /\ PrintOf[q] = row.print
      BY <1>1 DEF RowSaid, Said
    <3>2. PICK q \in Requests : Said(q, row.id, row.status) /\ PrintOf[q] = row.print
      BY <3>1 DEF RowSaid
    <3>3. row.id # 0
      BY <3>1, NoRowFields DEF IdsOwned
    <3>4. Said(q, row.id, row.status)'
      BY <1>1, <3>2, <3>3, SaidStays DEF Said
    <3> QED
      BY <3>2, <3>4
  <2> QED
    BY <2>1, <2>2, <2>3, <2>4
<1>2. ASSUME row' = NoRow, reqs'[r].pc \in {"create", "end"},
             row.id \in lapsed \/ reqs[r].pc = "release"
      PROVE  IdsOwned' /\ HandlerHolds' /\ AnswerKept' /\ RowSaid'
  <2>1. \A q \in Requests \ {r} : ~InHandler(q) /\ (Answered(q) => reqs[q].id \in lapsed)
    BY <1>2 DEF HandlerHolds, AnswerKept, IdsOwned, InHandler
  <2>2. IdsOwned'
    BY <1>0, <1>2, NoRowFields DEF IdsOwned, NoRow, TypeOK
  <2>3. HandlerHolds'
    BY <1>0, <1>2, <2>1 DEF HandlerHolds, InHandler, RequestStep
  <2>4. AnswerKept'
    BY <1>0, <1>2, <2>1, NoRowFields DEF AnswerKept, Answered, RequestStep
  <2>5. RowSaid'
    BY <1>2, NoRowFields DEF RowSaid
  <2> QED
    BY <2>2, <2>3, <2>4, <2>5
<1>3. ASSUME reqs[r].pc = "store", row' = [row EXCEPT !.state = "done", !.status = reqs[r].status]
      PROVE  IdsOwned' /\ HandlerHolds' /\ AnswerKept' /\ RowSaid'
  <2>1. /\ row'.id = row.id /\ row'.print = row.print
        /\ row'.state = "done" /\ row'.status = reqs[r].status
    BY <1>0, <1>3 DEF KeyRow
  <2>2. /\ row.id = reqs[r].id /\ row.id # 0 /\ row.print = PrintOf[r] /\ row.id \notin lapsed
        /\ reqs[r].status \in Stored /\ (reqs[r].status = "ok" => r \in effects)
    BY <1>3 DEF HandlerHolds, InHandler
  <2>3. reqs'[r].status = reqs[r].status /\ reqs'[r].pc \in {"release", "end"}
    <3>1. reqs'[r] \in Request
      BY DEF TypeOK
    <3> QED
      BY <1>3, <3>1 DEF RequestStep, Request
  <2>4. \A q \in Requests \ {r} : ~InHandler(q) /\ (Answered(q) => reqs[q].id \in lapsed)
    BY <2>2 DEF HandlerHolds, AnswerKept, IdsOwned
  <2>5. IdsOwned'
    <3>1. row' # NoRow
      BY <2>1, NoRowFields
    <3> QED
      BY <1>0, <2>1, <2>2, <3>1 DEF IdsOwned, NoRow
  <2>6. HandlerHolds'
    BY <1>0, <2>1, <2>2, <2>3, <2>4 DEF HandlerHolds, InHandler, RequestStep
  <2>7. AnswerKept'
    BY <1>0, <2>1, <2>2, <2>4 DEF AnswerKept, Answered, RequestStep
  <2>8. RowSaid'
    <3>1. Answered(r)' => reqs'[r].reply = reqs[r].status
      BY <2>3 DEF RequestStep, Answered
    <3>2. Said(r, row.id, row.status)'
      BY <1>0, <2>1, <2>2, <2>3, <3>1 DEF Said, RequestStep
    <3> QED
      BY <2>1, <2>2, <3>2 DEF RowSaid, Said
  <2> QED
    BY <2>5, <2>6, <2>7, <2>8
<1>4. IdsOwned' /\ HandlerHolds' /\ AnswerKept' /\ RowSaid'
  BY <1>1, <1>2, <1>3 DEF RowStep
<1>5. Progress' /\ DeletesLapsed'
  BY <1>0 DEF Progress, DeletesLapsed, RequestStep
<1>6. row.state = "done" => row.id # 0
  BY NoRowFields DEF IdsOwned
<1>7. ReplayOfRow'
  BY <1>6 DEF ReplayOfRow, RequestStep
<1>8. ReplayIsFirst'
  <2> SUFFICES ASSUME NEW o \in Requests, reqs'[o].reply = "replay"
               PROVE  \E q \in Requests : /\ Said(q, reqs[o].seen, reqs[o].status)'
                                          /\ PrintOf[q] = PrintOf[o]
    BY DEF ReplayIsFirst
  <2>1. \E q \in Requests : /\ Said(q, reqs'[o].seen, reqs'[o].status)
                            /\ PrintOf[q] = PrintOf[o]
    <3>1. CASE o = r
      BY <3>1 DEF RequestStep, RowSaid
    <3>2. CASE o # r
      BY <3>2 DEF RequestStep, ReplayIsFirst
    <3> QED
      BY <3>1, <3>2
  <2>2. PICK q \in Requests : Said(q, reqs'[o].seen, reqs'[o].status) /\ PrintOf[q] = PrintOf[o]
    BY <2>1
  <2>3. reqs'[o].seen # 0
    BY <1>7 DEF ReplayOfRow
  <2>4. Said(q, reqs[o].seen, reqs[o].status)'
    BY <2>2, <2>3, SaidStays DEF Said
  <2> QED
    BY <2>2, <2>4
<1> QED
  BY <1>4, <1>5, <1>7, <1>8

(* A request that is turned away, fails or dies.                            *)
LEMMA AnswersKeeps ==
  ASSUME IInv, NEW r \in Requests, ~At(r, "end"),
         NEW reply \in {"failed", "in_flight", "mismatch", "lost"}, Answers(r, reply),
         RowStep(r), row' \in KeyRow, effects \subseteq effects', effects' \subseteq Requests,
         UNCHANGED <<nextId, lapsed>>
  PROVE  IInv'
<1>1. reqs[r] \in Request /\ [reqs[r] EXCEPT !.pc = "end", !.reply = reply] \in Request
  BY DEF IInv, TypeOK, Request
<1>2. TypeOK'
  BY <1>1 DEF IInv, TypeOK, Answers
<1>3. /\ \A q \in Requests \ {r} : reqs'[q] = reqs[q]
      /\ reqs'[r].id = reqs[r].id
      /\ reqs'[r].status = reqs[r].status
      /\ reqs'[r].pc = "end"
      /\ reqs'[r].reply = reply
  BY <1>1 DEF Answers, IInv, TypeOK, Request
<1>4. RequestStep(r)
  BY <1>3 DEF RequestStep, Stored
<1> QED
  BY <1>2, <1>4, StepKeeps

(* begin's SELECT: turned away, replayed, or on to the DELETE or the CREATE. *)
LEMMA SelectKeeps ==
  ASSUME IInv, NEW r \in Requests, Select(r)
  PROVE  IInv'
<1>1. /\ reqs[r] \in Request /\ reqs[r].pc = "select" /\ ~At(r, "end") /\ reqs[r].reply = "none"
      /\ row \in KeyRow /\ effects \subseteq Requests
  BY DEF Select, At, IInv, TypeOK, Progress
<1>2. UNCHANGED <<row, nextId, lapsed, effects>> /\ RowStep(r)
  BY DEF Select, RowStep
<1>3. CASE row # NoRow /\ ~Expired /\ Decide(r)
  <2>1. CASE row.print # PrintOf[r]
    BY <1>1, <1>2, <1>3, <2>1, AnswersKeeps DEF Decide
  <2>2. CASE row.print = PrintOf[r] /\ row.state = "pending"
    BY <1>1, <1>2, <1>3, <2>2, AnswersKeeps DEF Decide
  <2>3. CASE row.print = PrintOf[r] /\ row.state # "pending"
    <3>1. reqs' = [reqs EXCEPT ![r].pc = "end", ![r].reply = "replay",
                               ![r].seen = row.id, ![r].status = row.status]
      BY <1>3, <2>3 DEF Decide, Replays
    <3>2. row.state = "done"
      BY <1>1, <2>3 DEF KeyRow
    <3>3. [reqs[r] EXCEPT !.pc = "end", !.reply = "replay", !.seen = row.id, !.status = row.status]
            \in Request
      BY <1>1 DEF Request, KeyRow
    <3>4. TypeOK'
      BY <1>2, <3>1, <3>3 DEF IInv, TypeOK
    <3>5. /\ \A q \in Requests \ {r} : reqs'[q] = reqs[q]
          /\ reqs'[r].id = reqs[r].id
          /\ reqs'[r].pc = "end"
          /\ reqs'[r].reply = "replay"
          /\ reqs'[r].seen = row.id
          /\ reqs'[r].status = row.status
      BY <1>1, <3>1 DEF IInv, TypeOK, Request
    <3>6. RequestStep(r)
      BY <1>1, <1>2, <2>3, <3>2, <3>5 DEF RequestStep, Stored
    <3> QED
      BY <1>2, <3>4, <3>6, StepKeeps
  <2> QED
    BY <2>1, <2>2, <2>3
<1>4. CASE row # NoRow /\ Expired /\ reqs' = [reqs EXCEPT ![r].pc = "delete", ![r].seen = row.id]
  <2>1. [reqs[r] EXCEPT !.pc = "delete", !.seen = row.id] \in Request
    BY <1>1 DEF Request, KeyRow
  <2>2. TypeOK'
    BY <1>2, <1>4, <2>1 DEF IInv, TypeOK
  <2>3. RequestStep(r)
    BY <1>1, <1>2, <1>4 DEF RequestStep, Expired, Stored, IInv, TypeOK, Request
  <2> QED
    BY <1>2, <2>2, <2>3, StepKeeps
<1>5. CASE row = NoRow /\ Goes(r, "create")
  <2>1. [reqs[r] EXCEPT !.pc = "create"] \in Request
    BY <1>1 DEF Request
  <2>2. TypeOK'
    BY <1>2, <1>5, <2>1 DEF IInv, TypeOK, Goes
  <2>3. RequestStep(r)
    BY <1>1, <1>2, <1>5 DEF RequestStep, Goes, Stored, IInv, TypeOK, Request
  <2> QED
    BY <1>2, <2>2, <2>3, StepKeeps
<1> QED
  BY <1>3, <1>4, <1>5 DEF Select

(* A DELETE: of the row seen lapsed, or of the request's own at release.    *)
LEMMA DeletedRow ==
  ASSUME IInv, NEW r \in Requests, NEW id, row' = Deleted(id),
         \/ reqs[r].pc = "delete" /\ id = reqs[r].seen
         \/ reqs[r].pc = "release" /\ id = reqs[r].id,
         reqs'[r].pc \in {"create", "end"}
  PROVE  RowStep(r) /\ row' \in KeyRow
<1>1. row \in KeyRow /\ NoRow \in KeyRow
  BY NoRowFields DEF IInv, TypeOK
<1>2. CASE row.id = id
  BY <1>1, <1>2 DEF Deleted, RowStep, IInv, DeletesLapsed
<1>3. CASE row.id # id
  BY <1>1, <1>3 DEF Deleted, RowStep
<1> QED
  BY <1>2, <1>3

(* The DELETE of the row that was seen lapsed. *)
LEMMA DeleteExpiredKeeps ==
  ASSUME IInv, NEW r \in Requests, DeleteExpired(r)
  PROVE  IInv'
<1>1. reqs[r] \in Request /\ reqs[r].pc = "delete" /\ reqs[r].reply = "none"
  BY DEF DeleteExpired, At, IInv, TypeOK, Progress
<1>2. UNCHANGED <<nextId, lapsed, effects>> /\ reqs' = [reqs EXCEPT ![r].pc = "create"]
  BY DEF DeleteExpired, Goes
<1>3. [reqs[r] EXCEPT !.pc = "create"] \in Request
  BY <1>1 DEF Request
<1>4. /\ \A q \in Requests \ {r} : reqs'[q] = reqs[q]
      /\ reqs'[r].id = reqs[r].id
      /\ reqs'[r].status = reqs[r].status
      /\ reqs'[r].reply = "none"
      /\ reqs'[r].pc = "create"
  BY <1>1, <1>2 DEF IInv, TypeOK, Request
<1>5. RowStep(r) /\ row' \in KeyRow
  BY <1>1, <1>4, DeletedRow DEF DeleteExpired
<1>6. TypeOK'
  BY <1>2, <1>3, <1>5 DEF IInv, TypeOK
<1>7. RequestStep(r)
  BY <1>1, <1>2, <1>4 DEF RequestStep, At, Stored
<1> QED
  BY <1>5, <1>6, <1>7, StepKeeps

(* A CREATE that commits, with its answer or without: there is no row, so   *)
(* nobody is in the handler.                                                *)
LEMMA CreatedKeeps ==
  ASSUME IInv, NEW r \in Requests, reqs[r].pc = "create", row = NoRow,
         row' = Pending(r), nextId' = nextId + 1, UNCHANGED <<lapsed, effects>>,
         \/ reqs' = [reqs EXCEPT ![r].pc = "run", ![r].id = nextId]
         \/ reqs' = [reqs EXCEPT ![r].pc = "end", ![r].reply = "failed"]
  PROVE  IInv'
<1> USE DEF IInv
<1>1. reqs[r] \in Request /\ row.id = 0 /\ nextId \in Nat \ {0}
  BY NoRowFields DEF TypeOK
<1>2. /\ row'.id = nextId /\ row' # NoRow /\ row'.state = "pending" /\ row'.print = PrintOf[r]
      /\ row' \in KeyRow
  BY <1>1, NoRowFields, PrintAssumption DEF Pending, KeyRow
<1>3. /\ [reqs[r] EXCEPT !.pc = "run", !.id = nextId] \in Request
      /\ [reqs[r] EXCEPT !.pc = "end", !.reply = "failed"] \in Request
  BY <1>1 DEF Request
<1>4. TypeOK'
  <2>1. reqs' \in [Requests -> Request]
    BY <1>3 DEF TypeOK
  <2> QED
    BY <1>1, <1>2, <2>1 DEF TypeOK
<1>5. /\ reqs[r].id = 0 /\ reqs[r].status = "none" /\ reqs[r].reply = "none"
      /\ \A q \in Requests : ~InHandler(q) /\ reqs[q].id \in Nat /\ reqs[q].id < nextId
      /\ \A q \in Requests : Answered(q) => reqs[q].id \in lapsed
      /\ \A i \in lapsed : i \in Nat /\ 0 < i /\ i < nextId
  BY <1>1 DEF HandlerHolds, AnswerKept, Progress, IdsOwned, TypeOK, Request
<1>6. /\ \A q \in Requests \ {r} : reqs'[q] = reqs[q]
      /\ reqs'[r].status = "none"
      /\ \/ reqs'[r].pc = "run" /\ reqs'[r].id = nextId /\ reqs'[r].reply = "none"
         \/ reqs'[r].pc = "end" /\ reqs'[r].id = 0 /\ reqs'[r].reply = "failed"
  BY <1>1, <1>5 DEF TypeOK, Request
<1>7. IdsOwned'
  <2>1. \A q \in Requests : reqs'[q].id < nextId'
    BY <1>1, <1>5, <1>6
  <2>2. \A q, o \in Requests : q # o /\ reqs'[q].id # 0 => reqs'[q].id # reqs'[o].id
    BY <1>1, <1>5, <1>6 DEF IdsOwned
  <2>3. \A i \in lapsed' : 0 < i /\ i < nextId'
    BY <1>1, <1>5
  <2> QED
    BY <1>1, <1>2, <2>1, <2>2, <2>3 DEF IdsOwned, NoRow
<1>8. HandlerHolds'
  BY <1>1, <1>2, <1>5, <1>6 DEF HandlerHolds, InHandler
<1>9. Progress' /\ DeletesLapsed'
  BY <1>5, <1>6 DEF Progress, DeletesLapsed
<1>10. \A q \in Requests : Answered(q)' <=> Answered(q)
  BY <1>5, <1>6 DEF Answered, Stored
<1>11. AnswerKept' /\ RowSaid' /\ ReplayOfRow'
  BY <1>2, <1>5, <1>6, <1>10 DEF AnswerKept, RowSaid, ReplayOfRow, Answered, Stored
<1>12. \A q \in Requests : \A id, status : Said(q, id, status) => Said(q, id, status)'
  <2> SUFFICES ASSUME NEW q \in Requests, NEW id, NEW status, Said(q, id, status)
               PROVE  Said(q, id, status)'
    OBVIOUS
  <2>1. q # r
    BY <1>5 DEF Said, Stored
  <2> QED
    BY <1>6, <2>1 DEF Said, Answered
<1>13. ReplayIsFirst'
  <2> SUFFICES ASSUME NEW o \in Requests, reqs'[o].reply = "replay"
               PROVE  \E q \in Requests : /\ Said(q, reqs[o].seen, reqs[o].status)'
                                          /\ PrintOf[q] = PrintOf[o]
    BY DEF ReplayIsFirst
  <2>1. o # r /\ reqs'[o] = reqs[o]
    BY <1>6
  <2>2. PICK q \in Requests : Said(q, reqs[o].seen, reqs[o].status) /\ PrintOf[q] = PrintOf[o]
    BY <2>1 DEF ReplayIsFirst
  <2>3. Said(q, reqs[o].seen, reqs[o].status)'
    BY <1>12, <2>1, <2>2 DEF Said
  <2> QED
    BY <2>2, <2>3
<1> QED
  BY <1>4, <1>7, <1>8, <1>9, <1>11, <1>13

LEMMA CreateKeeps ==
  ASSUME IInv, NEW r \in Requests, Create(r)
  PROVE  IInv'
<1> QED
  BY CreatedKeeps DEF Create, At

(* The CREATE the unique index refuses. *)
LEMMA CreateRefusedKeeps ==
  ASSUME IInv, NEW r \in Requests, CreateRefused(r)
  PROVE  IInv'
<1>1. /\ reqs[r] \in Request /\ reqs[r].pc = "create" /\ ~At(r, "end") /\ reqs[r].reply = "none"
      /\ UNCHANGED <<row, nextId, lapsed, effects>> /\ RowStep(r)
      /\ row \in KeyRow /\ effects \subseteq Requests
  BY DEF CreateRefused, At, IInv, TypeOK, Progress, RowStep
<1>2. CASE TriesAgain(reqs[r].attempt)
  <2>1. reqs' = [reqs EXCEPT ![r].pc = "select", ![r].attempt = reqs[r].attempt + 1]
    BY <1>2 DEF CreateRefused, IInv, TypeOK
  <2>2. reqs[r].attempt \in 0..1 /\ reqs[r].attempt + 1 \in 0..1
    BY <1>1, <1>2 DEF TriesAgain, Request
  <2>3. [reqs[r] EXCEPT !.pc = "select", !.attempt = reqs[r].attempt + 1] \in Request
    BY <1>1, <2>2 DEF Request
  <2>4. TypeOK'
    BY <1>1, <2>1, <2>3 DEF IInv, TypeOK
  <2>5. /\ \A q \in Requests \ {r} : reqs'[q] = reqs[q]
        /\ reqs'[r].id = reqs[r].id
        /\ reqs'[r].status = reqs[r].status
        /\ reqs'[r].reply = "none"
        /\ reqs'[r].pc = "select"
    BY <1>1, <2>1 DEF IInv, TypeOK, Request
  <2>6. RequestStep(r)
    BY <1>1, <2>5 DEF RequestStep, Stored
  <2> QED
    BY <1>1, <2>4, <2>6, StepKeeps
<1>3. CASE ~TriesAgain(reqs[r].attempt)
  BY <1>1, <1>3, AnswersKeeps DEF CreateRefused
<1> QED
  BY <1>2, <1>3

(* A statement of begin fails, committed or not. *)
LEMMA BeginFailsKeeps ==
  ASSUME IInv, NEW r \in Requests, BeginFails(r)
  PROVE  IInv'
<1>1. /\ ~At(r, "end") /\ Answers(r, "failed") /\ UNCHANGED <<lapsed, effects>>
      /\ row \in KeyRow /\ effects \subseteq Requests
      /\ reqs'[r].pc = "end"
  BY DEF BeginFails, At, Answers, IInv, TypeOK, Request
<1>2. CASE UNCHANGED <<row, nextId>>
  BY <1>1, <1>2, AnswersKeeps DEF RowStep
<1>3. CASE At(r, "delete") /\ row' = Deleted(reqs[r].seen) /\ UNCHANGED nextId
  <2>1. RowStep(r) /\ row' \in KeyRow
    BY <1>1, <1>3, DeletedRow DEF At
  <2> QED
    BY <1>1, <1>3, <2>1, AnswersKeeps
<1>4. CASE At(r, "create") /\ row = NoRow /\ row' = Pending(r) /\ nextId' = nextId + 1
  BY <1>1, <1>4, CreatedKeeps DEF At, Answers
<1> QED
  BY <1>2, <1>3, <1>4 DEF BeginFails

(* The handler returns: the request goes on to complete or to release. *)
LEMMA HandleKeeps ==
  ASSUME IInv, NEW r \in Requests, Handle(r)
  PROVE  IInv'
<1>1. /\ reqs[r] \in Request /\ reqs[r].pc = "run" /\ ~At(r, "end") /\ reqs[r].reply = "none"
      /\ UNCHANGED <<row, nextId, lapsed>> /\ RowStep(r)
      /\ effects \subseteq effects' /\ effects' \subseteq Requests
  BY DEF Handle, At, IInv, TypeOK, Progress, RowStep
<1>2. ASSUME NEW status \in Stored, reqs' = [reqs EXCEPT ![r].pc = "store", ![r].status = status],
             status = "ok" => r \in effects'
      PROVE  IInv'
  <2>1. [reqs[r] EXCEPT !.pc = "store", !.status = status] \in Request
    BY <1>1, <1>2 DEF Request
  <2>2. TypeOK'
    BY <1>1, <1>2, <2>1 DEF IInv, TypeOK
  <2>3. /\ \A q \in Requests \ {r} : reqs'[q] = reqs[q]
        /\ reqs'[r].id = reqs[r].id
        /\ reqs'[r].reply = "none"
        /\ reqs'[r].pc = "store"
        /\ reqs'[r].status = status
    BY <1>1, <1>2 DEF IInv, TypeOK, Request
  <2>4. RequestStep(r)
    BY <1>1, <1>2, <2>3 DEF RequestStep, Stored
  <2> QED
    BY <1>1, <2>2, <2>4, StepKeeps
<1>3. ASSUME Goes(r, "release") PROVE IInv'
  <2>1. [reqs[r] EXCEPT !.pc = "release"] \in Request
    BY <1>1 DEF Request
  <2>2. TypeOK'
    BY <1>1, <1>3, <2>1 DEF IInv, TypeOK, Goes
  <2>3. RequestStep(r)
    BY <1>1, <1>3 DEF RequestStep, Goes, Stored, IInv, TypeOK, Request
  <2> QED
    BY <1>1, <2>2, <2>3, StepKeeps
<1>4. "ok" \in Stored /\ "refused" \in Stored
  BY DEF Stored
<1> QED
  BY <1>2, <1>3, <1>4 DEF Handle

(* What the UPDATE of complete does to the row. *)
LEMMA CompletedRow ==
  ASSUME IInv, NEW r \in Requests, reqs[r].pc = "store", row' = Completed(r)
  PROVE  /\ RowStep(r)
         /\ row' \in KeyRow
         /\ row'.id = row.id
         /\ row'.state = "done"
<1>1. row.id = reqs[r].id /\ reqs[r].status \in Stored /\ row \in KeyRow
  BY DEF IInv, HandlerHolds, InHandler, TypeOK
<1> QED
  BY <1>1 DEF Completed, RowStep, KeyRow

(* complete: the row of the request in the handler takes its answer. *)
LEMMA CompleteKeeps ==
  ASSUME IInv, NEW r \in Requests, Complete(r)
  PROVE  IInv'
<1>1. /\ reqs[r] \in Request /\ reqs[r].pc = "store" /\ reqs[r].status \in Stored
      /\ UNCHANGED <<nextId, lapsed, effects>>
      /\ reqs' = [reqs EXCEPT ![r].pc = "end", ![r].reply = reqs[r].status]
  BY DEF Complete, Answers, At, IInv, TypeOK, HandlerHolds
<1>2. RowStep(r) /\ row' \in KeyRow /\ row'.id = row.id /\ row'.state = "done"
  BY <1>1, CompletedRow DEF Complete
<1>3. [reqs[r] EXCEPT !.pc = "end", !.reply = reqs[r].status] \in Request
  BY <1>1 DEF Request
<1>4. TypeOK'
  BY <1>1, <1>2, <1>3 DEF IInv, TypeOK
<1>5. /\ \A q \in Requests \ {r} : reqs'[q] = reqs[q]
      /\ reqs'[r].id = reqs[r].id
      /\ reqs'[r].pc = "end"
      /\ reqs'[r].status = reqs[r].status
      /\ reqs'[r].reply = reqs[r].status
  BY <1>1 DEF IInv, TypeOK, Request
<1>6. RequestStep(r)
  BY <1>1, <1>2, <1>5 DEF RequestStep, At, Stored
<1> QED
  BY <1>2, <1>4, <1>6, StepKeeps

(* complete fails, committed or not: on to release, or out.                 *)
LEMMA CompleteFailsKeeps ==
  ASSUME IInv, NEW r \in Requests, CompleteFails(r)
  PROVE  IInv'
<1>1. /\ reqs[r] \in Request /\ reqs[r].pc = "store" /\ ~At(r, "end") /\ reqs[r].reply = "none"
      /\ UNCHANGED <<nextId, lapsed, effects>> /\ effects \subseteq Requests
  BY DEF CompleteFails, At, IInv, TypeOK, Progress
<1>2. RowStep(r) /\ row' \in KeyRow
  <2>1. row \in KeyRow
    BY DEF IInv, TypeOK
  <2>2. CASE row' = row
    BY <2>1, <2>2 DEF RowStep
  <2>3. CASE row' = Completed(r)
    BY <1>1, <2>3, CompletedRow
  <2> QED
    BY <2>2, <2>3 DEF CompleteFails
<1>3. CASE reqs[r].status = "ok"
  <2>1. [reqs[r] EXCEPT !.pc = "release"] \in Request /\ reqs' = [reqs EXCEPT ![r].pc = "release"]
    BY <1>1, <1>3 DEF Request, CompleteFails, Goes
  <2>2. TypeOK'
    BY <1>1, <1>2, <2>1 DEF IInv, TypeOK
  <2>3. RequestStep(r)
    BY <1>1, <2>1 DEF RequestStep, Stored, IInv, TypeOK, Request
  <2> QED
    BY <1>2, <2>2, <2>3, StepKeeps
<1>4. CASE reqs[r].status # "ok"
  BY <1>1, <1>2, <1>4, AnswersKeeps DEF CompleteFails
<1> QED
  BY <1>3, <1>4

(* release, done or failed. *)
LEMMA ReleaseKeeps ==
  ASSUME IInv, NEW r \in Requests, Release(r) \/ ReleaseFails(r)
  PROVE  IInv'
<1>1. /\ reqs[r].pc = "release" /\ ~At(r, "end") /\ Answers(r, "failed")
      /\ UNCHANGED <<nextId, lapsed, effects>> /\ effects \subseteq Requests /\ row \in KeyRow
      /\ reqs'[r].pc = "end"
      /\ row' = row \/ row' = Deleted(reqs[r].id)
  BY DEF Release, ReleaseFails, Answers, At, IInv, TypeOK, Request
<1>2. RowStep(r) /\ row' \in KeyRow
  <2>1. CASE row' = row
    BY <1>1, <2>1 DEF RowStep
  <2>2. CASE row' = Deleted(reqs[r].id)
    BY <1>1, <2>2, DeletedRow
  <2> QED
    BY <1>1, <2>1, <2>2
<1> QED
  BY <1>1, <1>2, AnswersKeeps

LEMMA CrashKeeps ==
  ASSUME IInv, NEW r \in Requests, Crash(r)
  PROVE  IInv'
<1>1. /\ ~At(r, "end") /\ Answers(r, "lost") /\ UNCHANGED <<row, nextId, lapsed>> /\ RowStep(r)
      /\ row' \in KeyRow /\ effects \subseteq effects' /\ effects' \subseteq Requests
  BY DEF Crash, RowStep, IInv, TypeOK
<1> QED
  BY <1>1, AnswersKeeps

(* Time and the sweep. *)
LEMMA ExpireKeeps ==
  ASSUME IInv, Expire
  PROVE  IInv'
<1> USE DEF IInv
<1>1. /\ row # NoRow /\ row.id # 0 /\ row.id \in Nat /\ row.id < nextId
      /\ lapsed' = lapsed \cup {row.id}
      /\ UNCHANGED <<row, nextId, reqs, effects>>
      /\ \A r \in Requests : ~InHandler(r)
  BY DEF Expire, IdsOwned, TypeOK, KeyRow, HandlerHolds
<1>2. TypeOK'
  BY <1>1 DEF TypeOK
<1>3. IdsOwned'
  BY <1>1 DEF IdsOwned, NoRow, TypeOK
<1>4. HandlerHolds' /\ DeletesLapsed' /\ Progress'
  BY <1>1 DEF HandlerHolds, DeletesLapsed, Progress, InHandler
<1>5. AnswerKept' /\ RowSaid' /\ ReplayOfRow' /\ ReplayIsFirst'
  BY <1>1 DEF AnswerKept, RowSaid, ReplayOfRow, ReplayIsFirst, Said, Answered
<1> QED
  BY <1>2, <1>3, <1>4, <1>5

LEMMA SweepKeeps ==
  ASSUME IInv, Sweep
  PROVE  IInv'
<1> USE DEF IInv
<1>1. row.id \in lapsed /\ row' = NoRow /\ UNCHANGED <<nextId, lapsed, reqs, effects>>
  BY DEF Sweep, Expired
<1>2. \A q \in Requests : ~InHandler(q) /\ (Answered(q) => reqs[q].id \in lapsed)
  BY <1>1 DEF HandlerHolds, AnswerKept
<1>3. TypeOK' /\ IdsOwned'
  BY <1>1, NoRowFields DEF TypeOK, IdsOwned, NoRow
<1>4. HandlerHolds' /\ DeletesLapsed' /\ Progress'
  BY <1>1, <1>2 DEF HandlerHolds, DeletesLapsed, Progress, InHandler
<1>5. AnswerKept' /\ RowSaid' /\ ReplayOfRow' /\ ReplayIsFirst'
  BY <1>1, <1>2, NoRowFields DEF AnswerKept, RowSaid, ReplayOfRow, ReplayIsFirst, Said, Answered
<1> QED
  BY <1>3, <1>4, <1>5

(* Every step keeps the invariant. *)
LEMMA NextIInv == IInv /\ [Next]_vars => IInv'
<1> SUFFICES ASSUME IInv, [Next]_vars PROVE IInv'
  OBVIOUS
<1>1. CASE UNCHANGED vars
  BY <1>1 DEF vars, IInv, TypeOK, IdsOwned, NoRow, HandlerHolds, DeletesLapsed, Progress,
              AnswerKept, RowSaid, ReplayOfRow, ReplayIsFirst, Said, Answered, InHandler
<1> QED
  BY <1>1, SelectKeeps, DeleteExpiredKeeps, CreateKeeps, CreateRefusedKeeps, BeginFailsKeeps,
     HandleKeeps, CompleteKeeps, CompleteFailsKeeps, ReleaseKeeps, CrashKeeps, ExpireKeeps, SweepKeeps
  DEF Next

-----------------------------------------------------------------------------
(* The inductive invariant holds of every behaviour, its type part and      *)
(* ReplayIsFirst among its conjuncts.                                       *)
THEOREM Inductive == Spec => []IInv
<1> QED
  BY InitIInv, NextIInv, PTL DEF Spec

(* Two requests of one key are never in the handler at once, whatever the   *)
(* interleaving of the statements of begin, complete, release and sweep.    *)
THEOREM SingleFlightCorrect == Spec => []SingleFlight
<1>1. IInv => SingleFlight
  BY DEF IInv, HandlerHolds, IdsOwned, SingleFlight
<1> QED
  BY <1>1, Inductive, PTL

(* Within the 24 hours of a key the handler's answer is given once.         *)
THEOREM AnsweredOnceCorrect == Spec => []AnsweredOnce
<1>1. IInv => AnsweredOnce
  BY DEF IInv, AnswerKept, IdsOwned, AnsweredOnce
<1> QED
  BY <1>1, Inductive, PTL

(* What is replayed is what the handler said to the same request under the  *)
(* row that was read, lost answers of the database included.                *)
THEOREM ReplayIsFirstCorrect == Spec => []ReplayIsFirst
<1>1. IInv => ReplayIsFirst
  BY DEF IInv
<1> QED
  BY <1>1, Inductive, PTL

(* Rows, requests and replies keep their types.                             *)
THEOREM TypeCorrect == Spec => []TypeOK
<1>1. IInv => TypeOK
  BY DEF IInv
<1> QED
  BY <1>1, Inductive, PTL

-----------------------------------------------------------------------------
(* A write that took effect keeps its row, unless the row lapsed or its     *)
(* request ended in a failure.                                              *)
EffectHeld ==
  \A r \in effects :
    /\ reqs[r].pc \notin {"select", "delete", "create"}
    /\ reqs[r].id # 0
    /\ reqs[r].id \in lapsed \/ reqs[r].reply \in {"failed", "lost"} \/ row.id = reqs[r].id

LEMMA EffectHeldKept == IInv /\ EffectHeld /\ [Next]_vars => EffectHeld'
<1> SUFFICES ASSUME IInv, EffectHeld, [Next]_vars PROVE EffectHeld'
  OBVIOUS
<1>0. /\ reqs \in [Requests -> Request] /\ effects \subseteq Requests /\ row \in KeyRow
  BY DEF IInv, TypeOK
<1>1. ASSUME NEW r \in Requests, Select(r) \/ CreateRefused(r) \/ BeginFails(r)
                                \/ DeleteExpired(r) \/ Create(r)
      PROVE  EffectHeld'
  <2>1. /\ lapsed' = lapsed /\ effects' = effects /\ r \notin effects
        /\ \A q \in Requests \ {r} : reqs'[q] = reqs[q]
    BY <1>0, <1>1 DEF Select, CreateRefused, BeginFails, DeleteExpired, Create, Decide, Replays,
                      Answers, Goes, At, EffectHeld
  <2>2. row' = row \/ row.id \in lapsed \/ row.id = 0
    BY <1>1, NoRowFields DEF Select, CreateRefused, BeginFails, DeleteExpired, Create, Deleted, At,
                             IInv, DeletesLapsed
  <2> QED
    BY <1>0, <2>1, <2>2 DEF EffectHeld
<1>2. ASSUME NEW r \in Requests, Handle(r) PROVE EffectHeld'
  <2>1. /\ lapsed' = lapsed /\ row' = row /\ effects' \subseteq effects \cup {r}
        /\ \A q \in Requests \ {r} : reqs'[q] = reqs[q]
        /\ reqs'[r].id = reqs[r].id /\ reqs'[r].pc \in {"store", "release"}
    BY <1>0, <1>2 DEF Handle, Goes, Request
  <2>2. reqs[r].id # 0 /\ row.id = reqs[r].id
    BY <1>2 DEF Handle, At, InHandler, IInv, HandlerHolds
  <2> QED
    BY <1>0, <2>1, <2>2 DEF EffectHeld
<1>3. ASSUME NEW r \in Requests, Complete(r) \/ CompleteFails(r) PROVE EffectHeld'
  <2>0. row'.id = row.id
    BY <1>0, <1>3 DEF Complete, CompleteFails, Completed, KeyRow
  <2>1. /\ lapsed' = lapsed /\ effects' = effects
        /\ \A q \in Requests \ {r} : reqs'[q] = reqs[q]
        /\ reqs'[r].id = reqs[r].id /\ reqs'[r].pc \in {"release", "end"}
    BY <1>0, <1>3 DEF Complete, CompleteFails, Answers, Goes, Request
  <2>2. reqs[r].id # 0 /\ row.id = reqs[r].id
    BY <1>3 DEF Complete, CompleteFails, At, InHandler, IInv, HandlerHolds
  <2> QED
    BY <1>0, <2>0, <2>1, <2>2 DEF EffectHeld
<1>4. ASSUME NEW r \in Requests, Release(r) \/ ReleaseFails(r) PROVE EffectHeld'
  <2>1. /\ lapsed' = lapsed /\ effects' = effects
        /\ \A q \in Requests \ {r} : reqs'[q] = reqs[q]
        /\ reqs'[r].id = reqs[r].id /\ reqs'[r].pc = "end" /\ reqs'[r].reply = "failed"
    BY <1>0, <1>4 DEF Release, ReleaseFails, Answers, Request
  <2>2. row.id = reqs[r].id /\ reqs[r].id # 0 /\ \A q \in Requests \ {r} : row.id # reqs[q].id
    BY <1>4 DEF Release, ReleaseFails, At, InHandler, IInv, HandlerHolds, IdsOwned
  <2> QED
    BY <1>0, <2>1, <2>2 DEF EffectHeld
<1>5. ASSUME NEW r \in Requests, Crash(r) PROVE EffectHeld'
  <2>1. /\ lapsed' = lapsed /\ row' = row
        /\ \A q \in Requests \ {r} : reqs'[q] = reqs[q]
        /\ reqs'[r].id = reqs[r].id /\ reqs'[r].pc = "end" /\ reqs'[r].reply = "lost"
    BY <1>0, <1>5 DEF Crash, Answers, Request
  <2>2. effects' = effects \/ (At(r, "run") /\ effects' = effects \cup {r})
    BY <1>5 DEF Crash
  <2>3. At(r, "run") => reqs[r].id # 0
    BY DEF At, InHandler, IInv, HandlerHolds
  <2> QED
    BY <1>0, <2>1, <2>2, <2>3 DEF EffectHeld
<1>6. CASE Expire \/ Sweep
  BY <1>0, <1>6 DEF Expire, Sweep, Expired, EffectHeld
<1>7. CASE UNCHANGED vars
  BY <1>7 DEF vars, EffectHeld
<1> QED
  BY <1>1, <1>2, <1>3, <1>4, <1>5, <1>6, <1>7 DEF Next

(* Retries, expiries and sweeps never run a write again while its request   *)
(* runs or once it is answered: a later one takes effect within the         *)
(* lifetime of the key only after the earlier one ended in a failure.       *)
THEOREM RerunOnlyAfterFailureCorrect == Spec => []RerunOnlyAfterFailure
<1>1. Init => EffectHeld
  BY DEF Init, EffectHeld
<1>2. IInv /\ EffectHeld => RerunOnlyAfterFailure
  <2> SUFFICES ASSUME IInv, EffectHeld, NEW r \in effects, NEW q \in effects,
                      r # q, reqs[r].id <= reqs[q].id,
                      reqs[r].id \notin lapsed, reqs[r].reply \notin {"failed", "lost"}
               PROVE  FALSE
    BY DEF RerunOnlyAfterFailure
  <2>1. row.id = reqs[r].id /\ row.id # 0
    BY DEF EffectHeld
  <2>2. reqs[q].id < row.id + 1 /\ reqs[q].id # reqs[r].id
    BY <2>1 DEF IInv, IdsOwned, TypeOK
  <2>3. row.id \in Nat /\ reqs[q].id \in Nat
    BY DEF IInv, TypeOK, KeyRow, Request
  <2> QED
    BY <2>1, <2>2, <2>3
<1> QED
  BY <1>1, <1>2, EffectHeldKept, Inductive, PTL DEF Spec
=============================================================================
