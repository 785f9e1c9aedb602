-------------------------- MODULE FactStoreProofs ---------------------------
(***************************************************************************)
(* The theorems of the fact store, for any number of facts, slots, values, *)
(* origins and any dates.  Every writer is shown to leave each row it      *)
(* finds a legal successor (RowOK); the invariant adds what the requests   *)
(* that are under way remember of rows: facts are entered in order         *)
(* (Prefix), so a row a verdict or a retract names is not entered anew,    *)
(* and the judge never holds a verdict against a record (Lawful).          *)
(*   What writers do to the other rows of a slot (Carried, LInv) gives the *)
(* theorems about slots: only a revive opens a row or stretches it, so an  *)
(* overlap that settle_fact decided stays decided.                         *)
(***************************************************************************)
EXTENDS FactStore, FiniteSetTheorems, TLAPS

StepType == [kind : {"close", "promote"}, loser : FactIds, winner : FactIds, prior : Ends]

(* Facts are entered in the order of their numbers. *)
Prefix == \E m \in 0 .. MaxFacts : Present = 1 .. m

(* What a verdict may do: never close, absorb or dispute a record in place. *)
Lawful(x) ==
  /\ x.a \in Present /\ x.b \in Present /\ x.a # x.b
  /\ ~OfRecord(x.a)
  /\ x.kind = "compete" => ~OfRecord(x.b)

(* The judge and the retracts name facts that exist, and the end that      *)
(* markSuperseded has read is an end of the loser.                         *)
JudgeSane ==
  /\ asked # NoItem => asked.fact \in Present /\ \A x \in asked.sig : x[1] \in Present
  /\ \A x \in todo : Lawful(x)
  /\ step # NoStep => step.loser \in Present /\ step.winner \in Present /\ ~OfRecord(step.loser)
  /\ step.kind = "close" =>
       (facts[step.loser].validFrom <= Now => facts[step.loser].validFrom <= step.prior)
  /\ \A i \in FactIds : retracts[i] # "idle" => i \in Present

(* An explicit supersession read its losers' ends from rows that exist, and *)
(* not before their starts.                                                *)
TailSane(t) ==
  /\ t \in Naming
  /\ \A l \in t.losers :
       /\ l.id \in Present
       /\ facts[l.id].validFrom <= Now => facts[l.id].validFrom <= l.until

TailsSane == \A t \in tails : TailSane(t)

IInv == TypeOK /\ Prefix /\ IntervalsOrdered /\ JudgeSane /\ TailsSane

-----------------------------------------------------------------------------
(* The granularity of a day compares coarser than the instant. *)
LEMMA DivFacts ==
  ASSUME NEW a \in Nat, NEW d \in Nat \ {0}
  PROVE  /\ a \div d \in Nat /\ a % d \in 0 .. d - 1
         /\ a = d * (a \div d) + (a % d)
  BY SMT

LEMMA TimesGrow ==
  ASSUME NEW d \in Nat \ {0}, NEW x \in Nat, NEW y \in Nat, x > y
  PROVE  d * x >= d * y + d
  BY SMT

LEMMA LaterDayIsLater ==
  ASSUME NEW a \in Nat, NEW b \in Nat, NEW d \in Nat \ {0}, a \div d > b \div d
  PROVE  a > b
<1> DEFINE x == a \div d
           y == b \div d
           u == d * x
           v == d * y
<1>1. /\ x \in Nat /\ y \in Nat /\ a = d * x + (a % d) /\ b = d * y + (b % d)
      /\ a % d \in 0 .. d - 1 /\ b % d \in 0 .. d - 1
  BY DivFacts
<1>2. d * x \in Nat /\ d * y \in Nat
  BY <1>1
<1>3. d * x >= d * y + d
  BY <1>1, TimesGrow
<1> HIDE DEF u, v
<1>4. u \in Nat /\ v \in Nat /\ a = u + (a % d) /\ b = v + (b % d) /\ u >= v + d
  BY <1>1, <1>2, <1>3 DEF u, v
<1> QED BY <1>1, <1>4

LEMMA MomentOrder ==
  ASSUME NEW c, NEW q \in FactRow, NEW r \in FactRow, Moment(c, q) < Moment(c, r)
  PROVE  q.validFrom < r.validFrom
<1>1. q.validFrom \in Nat /\ r.validFrom \in Nat /\ DayLength \in Nat \ {0}
  BY FactAssumption DEF FactRow, Times
<1>2. CASE c.semantics = "bitemporal_event"
  BY <1>1, <1>2, LaterDayIsLater DEF Moment
<1>3. CASE c.semantics # "bitemporal_event"
  BY <1>1, <1>3 DEF Moment
<1> QED BY <1>2, <1>3

-----------------------------------------------------------------------------
OpenRow(q) == q.status \in Open /\ ~q.retracted

(* A legal successor q of the row of fact i. *)
RowOK(i, q) ==
  /\ q \in FactRow /\ q.status # "absent"
  /\ q.validFrom = facts[i].validFrom /\ q.origin = facts[i].origin
  /\ q.validFrom <= Now => Ordered(q)
  /\ ~IsOpen(i) /\ OpenRow(q) => /\ facts[i].status = "superseded"
                                 /\ facts[i].supersededBy # 0
                                 /\ retracts[facts[i].supersededBy] = "written"

LEMMA RowStays ==
  ASSUME TypeOK, IntervalsOrdered, NEW i \in Present
  PROVE  RowOK(i, facts[i])
<1>1. i \in FactIds /\ facts[i] \in FactRow
  BY DEF Present, TypeOK
<1> QED BY <1>1 DEF Present, RowOK, IntervalsOrdered, IsOpen, OpenRow

(* Between active and competing a row may change at any time. *)
LEMMA OpenFlips ==
  ASSUME NEW i, NEW q, RowOK(i, q), q.status \in Open, NEW s \in Open
  PROVE  RowOK(i, [q EXCEPT !.status = s])
<1> DEFINE z == [q EXCEPT !.status = s]
<1>1. z \in FactRow /\ z.status = s /\ z.validFrom = q.validFrom /\ z.origin = q.origin
      /\ z.validUntil = q.validUntil /\ z.priorValidUntil = q.priorValidUntil
      /\ z.retracted = q.retracted
  BY DEF RowOK, FactRow, Statuses
<1> HIDE DEF z
<1>2. RowOK(i, z)
  BY <1>1 DEF RowOK, Ordered, OpenRow, Open
<1> QED BY <1>2 DEF z

(* A row that is closed needs only to be typed and ordered. *)
LEMMA ClosedRow ==
  ASSUME NEW i, NEW q \in FactRow, q.status \notin Open, q.status # "absent",
         q.validFrom = facts[i].validFrom, q.origin = facts[i].origin,
         q.validFrom <= Now => Ordered(q)
  PROVE  RowOK(i, q)
  BY DEF RowOK, OpenRow

(* settle_fact's and applyExplicitSupersession's close. *)
LEMMA SupersededOK ==
  ASSUME NEW q \in FactRow, NEW w \in FactIds, NEW e \in Ends,
         q.validFrom <= Now => q.validFrom <= q.validUntil /\ q.validFrom <= e
  PROVE  /\ Superseded(q, w, e) \in FactRow
         /\ Superseded(q, w, e).status = "superseded"
         /\ Superseded(q, w, e).validFrom = q.validFrom
         /\ Superseded(q, w, e).origin = q.origin
         /\ q.validFrom <= Now => Ordered(Superseded(q, w, e))
<1>1. Superseded(q, w, e) \in FactRow
  BY DEF Superseded, FactRow, Statuses
<1>2. /\ Superseded(q, w, e).status = "superseded"
      /\ Superseded(q, w, e).validFrom = q.validFrom
      /\ Superseded(q, w, e).origin = q.origin
      /\ Superseded(q, w, e).validUntil = e
      /\ Superseded(q, w, e).priorValidUntil = q.validUntil
  BY DEF Superseded, FactRow
<1> QED BY <1>1, <1>2 DEF Ordered

(* The event only ever makes an open competing row active. *)
LEMMA StoredRow ==
  ASSUME NEW fs, NEW new \in [FactIds -> FactRow]
  PROVE  /\ Stored(fs, new) \in [FactIds -> FactRow]
         /\ \A i \in FactIds :
              \/ Stored(fs, new)[i] = new[i]
              \/ /\ new[i].status = "competing" /\ ~new[i].retracted
                 /\ Stored(fs, new)[i] = [new[i] EXCEPT !.status = "active"]
<1>1. \A i \in FactIds : [new[i] EXCEPT !.status = "active"] \in FactRow
  BY DEF FactRow, Statuses, Open
<1>2. CASE \E i \in FactIds : fs[i].status = "competing" /\ new[i].status \notin Open
  BY <1>1, <1>2 DEF Stored
<1>3. CASE ~\E i \in FactIds : fs[i].status = "competing" /\ new[i].status \notin Open
  <2>1. Stored(fs, new) = new
    BY <1>3 DEF Stored
  <2> QED BY <2>1
<1> QED BY <1>2, <1>3

-----------------------------------------------------------------------------
(* A table in which every row but that of n is a legal successor. *)
LegalBut(F, n) ==
  /\ F \in [FactIds -> FactRow]
  /\ \A i \in FactIds \ {n} : IF i \in Present THEN RowOK(i, F[i]) ELSE F[i] = facts[i]

Legal(F) == LegalBut(F, 0)

(* The row of a fact just entered. *)
NewRow(q) == q \in FactRow /\ q.status # "absent" /\ (q.validFrom <= Now => Ordered(q))

LEMMA StoredLegal ==
  ASSUME TypeOK, NEW new, NEW n, LegalBut(new, n)
  PROVE  /\ LegalBut(Stored(facts, new), n)
         /\ n \in FactIds /\ NewRow(new[n]) => NewRow(Stored(facts, new)[n])
<1> DEFINE F == Stored(facts, new)
<1>1. /\ new \in [FactIds -> FactRow] /\ F \in [FactIds -> FactRow]
      /\ \A i \in FactIds : \/ F[i] = new[i]
                            \/ /\ new[i].status = "competing" /\ ~new[i].retracted
                               /\ F[i] = [new[i] EXCEPT !.status = "active"]
  BY StoredRow DEF LegalBut
<1> HIDE DEF F
<1>2. ASSUME NEW i \in FactIds \ {n}
      PROVE  IF i \in Present THEN RowOK(i, F[i]) ELSE F[i] = facts[i]
  <2>1. CASE i \in Present
    <3>1. RowOK(i, new[i])
      BY <2>1 DEF LegalBut
    <3>2. "active" \in Open /\ "competing" \in Open
      BY DEF Open
    <3> QED BY <1>1, <2>1, <3>1, <3>2, OpenFlips DEF OpenRow
  <2>2. CASE i \notin Present
    <3>1. new[i] = facts[i] /\ facts[i].status = "absent"
      BY <2>2 DEF LegalBut, Present
    <3> QED BY <1>1, <2>2, <3>1
  <2> QED BY <2>1, <2>2
<1>3. ASSUME n \in FactIds, NewRow(new[n]) PROVE NewRow(F[n])
  <2>1. /\ F[n] \in FactRow /\ F[n].status # "absent" /\ F[n].validFrom = new[n].validFrom
        /\ F[n].validUntil = new[n].validUntil /\ F[n].priorValidUntil = new[n].priorValidUntil
    BY <1>1, <1>3 DEF NewRow, FactRow
  <2> QED BY <1>3, <2>1 DEF NewRow, Ordered
<1>4. LegalBut(F, n)
  BY <1>1, <1>2 DEF LegalBut
<1> QED BY <1>3, <1>4 DEF F

(* What a legal table keeps. *)
LEMMA LegalKeeps ==
  ASSUME IInv, LegalBut(facts', 0)
  PROVE  /\ Present' = Present /\ Prefix' /\ IntervalsOrdered' /\ facts' \in [FactIds -> FactRow]
         /\ \A i \in Present : /\ facts'[i].validFrom = facts[i].validFrom
                               /\ facts'[i].origin = facts[i].origin
<1>1. facts' \in [FactIds -> FactRow] /\ 0 \notin FactIds
  BY DEF LegalBut, FactIds
<1>2. \A i \in FactIds : IF i \in Present THEN RowOK(i, facts'[i]) ELSE facts'[i] = facts[i]
  BY <1>1 DEF LegalBut
<1>3. Present' = Present
  <2>1. ASSUME NEW i \in FactIds PROVE facts'[i].status # "absent" <=> facts[i].status # "absent"
    BY <1>2 DEF Present, RowOK
  <2> QED BY <2>1 DEF Present
<1>4. Prefix'
  BY <1>3 DEF IInv, Prefix
<1>5. IntervalsOrdered'
  BY <1>2 DEF IInv, IntervalsOrdered, RowOK
<1>6. \A i \in Present : facts'[i].validFrom = facts[i].validFrom /\ facts'[i].origin = facts[i].origin
  BY <1>2 DEF Present, RowOK
<1> QED BY <1>1, <1>3, <1>4, <1>5, <1>6

LEMMA EntryKeeps ==
  ASSUME IInv, NEW n \in FactIds, n = Cardinality(Present) + 1, LegalBut(facts', n), NewRow(facts'[n])
  PROVE  /\ n \notin Present
         /\ Present' = Present \cup {n} /\ Prefix' /\ IntervalsOrdered'
         /\ facts' \in [FactIds -> FactRow]
         /\ \A i \in Present : /\ facts'[i].validFrom = facts[i].validFrom
                               /\ facts'[i].origin = facts[i].origin
<1>1. PICK m \in 0 .. MaxFacts : Present = 1 .. m
  BY DEF IInv, Prefix
<1>2. Cardinality(1 .. m) = m
  BY FS_Interval, FactAssumption
<1>3. n = m + 1 /\ n \notin Present /\ n \in 0 .. MaxFacts /\ Present \cup {n} = 1 .. n
  BY <1>1, <1>2, FactAssumption DEF FactIds
<1>4. \A i \in FactIds \ {n} : IF i \in Present THEN RowOK(i, facts'[i]) ELSE facts'[i] = facts[i]
  BY DEF LegalBut
<1>5. Present' = Present \cup {n}
  <2>1. ASSUME NEW i \in FactIds \ {n}
        PROVE  facts'[i].status # "absent" <=> facts[i].status # "absent"
    BY <1>4 DEF Present, RowOK
  <2> QED BY <2>1 DEF Present, NewRow
<1>6. Prefix'
  BY <1>3, <1>5 DEF Prefix
<1>7. IntervalsOrdered'
  BY <1>4 DEF IInv, IntervalsOrdered, RowOK, NewRow
<1>8. \A i \in Present : facts'[i].validFrom = facts[i].validFrom /\ facts'[i].origin = facts[i].origin
  BY <1>3, <1>4 DEF Present, RowOK
<1> QED BY <1>3, <1>5, <1>6, <1>7, <1>8 DEF LegalBut

(* What the judge holds stays sane while rows keep their start and origin. *)
LEMMA JudgeKept ==
  ASSUME IInv, Present \subseteq Present',
         \A i \in Present : /\ facts'[i].validFrom = facts[i].validFrom
                            /\ facts'[i].origin = facts[i].origin
  PROVE  /\ \A x : Lawful(x) => Lawful(x)'
         /\ \A i \in Present : OfRecord(i)' = OfRecord(i)
         /\ UNCHANGED judging /\ (\A i \in FactIds : retracts'[i] # "idle" => i \in Present')
              => JudgeSane'
<1>1. \A i \in Present : OfRecord(i)' = OfRecord(i)
  BY DEF OfRecord
<1>2. ASSUME NEW x, Lawful(x) PROVE Lawful(x)'
  BY <1>1, <1>2 DEF Lawful
<1>3. ASSUME UNCHANGED judging, \A i \in FactIds : retracts'[i] # "idle" => i \in Present'
      PROVE  JudgeSane'
  <2>0. asked' = asked /\ todo' = todo /\ step' = step
    BY <1>3 DEF judging
  <2>1. asked # NoItem => asked.fact \in Present' /\ \A x \in asked.sig : x[1] \in Present'
    BY DEF IInv, JudgeSane
  <2>2. \A x \in todo : Lawful(x)'
    BY <1>2 DEF IInv, JudgeSane
  <2>3. step # NoStep => step.loser \in Present' /\ step.winner \in Present'
                         /\ facts'[step.loser].origin \notin RecordOrigins
    BY DEF IInv, JudgeSane, OfRecord
  <2>4. step.kind = "close" => step # NoStep
    BY DEF NoStep
  <2>5. step.kind = "close" =>
          (facts'[step.loser].validFrom <= Now => facts'[step.loser].validFrom <= step.prior)
    BY <2>4 DEF IInv, JudgeSane
  <2> QED BY <1>3, <2>0, <2>1, <2>2, <2>3, <2>5 DEF JudgeSane, Lawful, OfRecord
<1> QED BY <1>1, <1>2, <1>3

-----------------------------------------------------------------------------
(* settle_fact, way by way: r is the incoming row, n its number. *)
LEMMA CandidateRows ==
  ASSUME NEW c, IInv, NEW r \in FactRow
  PROVE  /\ Candidates(r) \subseteq Present /\ Slot(c, r) \subseteq Candidates(r)
         /\ \A i \in Candidates(r) : i \in FactIds /\ facts[i] \in FactRow /\ IsOpen(i)
                                     /\ facts[i].slot = r.slot
  BY DEF IInv, TypeOK, Candidates, Slot, Present, IsOpen, Open

LEMMA FreshNumber ==
  ASSUME IInv, NEW n \in FactIds, n = Cardinality(Present) + 1
  PROVE  facts[n].status = "absent"
<1>1. PICK m \in 0 .. MaxFacts : Present = 1 .. m
  BY DEF IInv, Prefix
<1>2. Cardinality(1 .. m) = m
  BY FS_Interval, FactAssumption
<1>3. n \notin Present
  BY <1>1, <1>2, FactAssumption
<1> QED BY <1>3 DEF Present

(* What the row of an incoming fact is when it is stored. *)
LEMMA CorroboratingNew ==
  ASSUME NEW r, NewRow(r)
  PROVE  Corroborating(r) \in FactRow /\ NewRow(Corroborating(r))
<1>1. /\ Corroborating(r) \in FactRow /\ Corroborating(r).status = "corroborating"
      /\ Corroborating(r).validFrom = r.validFrom
      /\ Corroborating(r).validUntil = r.validUntil
      /\ Corroborating(r).priorValidUntil = r.priorValidUntil
  BY DEF NewRow, Corroborating, FactRow, Statuses
<1> QED BY <1>1 DEF NewRow, Ordered

LEMMA EndsHeldOK ==
  ASSUME IInv, NEW r, NewRow(r), NEW n \in FactIds, facts[n].status = "absent", EndsHeld(n, r)
  PROVE  LegalBut(facts', n) /\ NewRow(facts'[n])
<1>0. facts \in [FactIds -> FactRow] /\ TypeOK /\ IntervalsOrdered /\ n \notin Present /\ r \in FactRow
  BY DEF IInv, TypeOK, NewRow, Present
<1>1. PICK i \in Ended(r) :
        facts' = [facts EXCEPT ![i].validUntil = r.validUntil, ![n] = Corroborating(r)]
  BY DEF EndsHeld
<1>2. /\ i \in Present /\ i \in FactIds /\ facts[i] \in FactRow /\ i # n
      /\ facts[i].validFrom < r.validUntil /\ IsOpen(i)
  BY <1>0, CandidateRows DEF Ended
<1> DEFINE q == [facts[i] EXCEPT !.validUntil = r.validUntil]
<1>3. /\ q \in FactRow /\ q.status = facts[i].status /\ q.validFrom = facts[i].validFrom
      /\ q.origin = facts[i].origin /\ q.validUntil = r.validUntil
      /\ q.priorValidUntil = facts[i].priorValidUntil
  BY <1>0, <1>2 DEF FactRow
<1>4. /\ facts' \in [FactIds -> FactRow] /\ facts'[i] = q /\ facts'[n] = Corroborating(r)
      /\ \A k \in FactIds \ {i, n} : facts'[k] = facts[k]
  BY <1>0, <1>1, <1>2, <1>3, CorroboratingNew
<1> HIDE DEF q
<1>5. RowOK(i, q)
  <2>1. q.validFrom <= Now => Ordered(q)
    BY <1>0, <1>2, <1>3, FactAssumption DEF IntervalsOrdered, Ordered, FactRow, Times, Ends, Forever
  <2> QED BY <1>2, <1>3, <2>1 DEF RowOK, Present
<1>6. LegalBut(facts', n)
  BY <1>0, <1>2, <1>4, <1>5, RowStays DEF LegalBut
<1> QED BY <1>4, <1>6, CorroboratingNew

(* The incoming row alone is written. *)
LEMMA EntersAlone ==
  ASSUME IInv, NEW q, NewRow(q), NEW n \in FactIds, facts[n].status = "absent",
         facts' = [facts EXCEPT ![n] = q]
  PROVE  LegalBut(facts', n) /\ NewRow(facts'[n])
<1>0. facts \in [FactIds -> FactRow] /\ TypeOK /\ IntervalsOrdered
  BY DEF IInv, TypeOK
<1>1. facts' \in [FactIds -> FactRow] /\ facts'[n] = q /\ \A k \in FactIds \ {n} : facts'[k] = facts[k]
  BY <1>0 DEF NewRow
<1> QED BY <1>0, <1>1, RowStays DEF LegalBut

LEMMA HistoryOK ==
  ASSUME NEW c, IInv, NEW r, NewRow(r), NEW n \in FactIds, facts[n].status = "absent", GoesToHistory(c, n, r)
  PROVE  LegalBut(facts', n) /\ NewRow(facts'[n])
<1>1. PICK i \in Later(c, r) : facts' = [facts EXCEPT ![n] = Superseded(r, i, facts[i].validFrom)]
  BY DEF GoesToHistory
<1>2. r \in FactRow /\ i \in FactIds /\ facts[i] \in FactRow /\ facts[i].slot = r.slot
      /\ Moment(c, r) < Moment(c, facts[i])
  <2>1. i \in Candidates(r) /\ Moment(c, facts[i]) > Moment(c, r) /\ r \in FactRow
    BY CandidateRows DEF Later, After, NewRow
  <2>2. Moment(c, facts[i]) \in Int /\ Moment(c, r) \in Int
    <3>1. facts[i] \in FactRow /\ r \in FactRow
      BY <2>1, CandidateRows
    <3> QED BY <3>1, DivFacts, FactAssumption DEF Moment, FactRow, Times
  <2> QED BY <2>1, <2>2, CandidateRows
<1>3. r.validFrom < facts[i].validFrom
  BY <1>2, MomentOrder
<1>4. facts[i].validFrom \in Ends /\ r.validFrom \in Nat /\ facts[i].validFrom \in Nat
  BY <1>2, FactAssumption DEF FactRow, Times, Ends, Forever
<1>5. NewRow(Superseded(r, i, facts[i].validFrom))
  BY <1>2, <1>3, <1>4, SupersededOK DEF NewRow, Ordered
<1> QED BY <1>1, <1>5, EntersAlone


(* Rows of Closed are superseded, at or after their start. *)
LEMMA ClosedRows ==
  ASSUME NEW c, IInv, NEW r, NewRow(r), NEW n \in FactIds, Later(c, r) = {}, NEW i \in Closed(c, r)
  PROVE  RowOK(i, Superseded(facts[i], n, r.validFrom))
<1>1. /\ i \in FactIds /\ i \in Present /\ facts[i] \in FactRow /\ r \in FactRow
      /\ facts[i].slot = r.slot /\ i \in Slot(c, r)
  BY CandidateRows DEF Closed, NewRow
<1>2. facts[i].validFrom \in Nat /\ r.validFrom \in Nat /\ r.validFrom \in Ends
  BY <1>1, FactAssumption DEF FactRow, Times, Ends, Forever
<1>3. facts[i].validFrom <= r.validFrom
  <2>1. CASE Moment(c, facts[i]) < Moment(c, r)
    BY <1>1, <1>2, <2>1, MomentOrder
  <2>2. CASE c.semantics = "single_active"
    <3>1. Moment(c, facts[i]) = facts[i].validFrom /\ Moment(c, r) = r.validFrom
      BY <1>1, <2>2 DEF Moment
    <3>2. ~(Moment(c, facts[i]) > Moment(c, r))
      BY <1>1 DEF Later, After
    <3> QED BY <1>2, <3>1, <3>2
  <2> QED BY <2>1, <2>2 DEF Closed, Before
<1>4. facts[i].validFrom <= Now => facts[i].validFrom <= facts[i].validUntil
  BY <1>1 DEF IInv, IntervalsOrdered, Ordered
<1> DEFINE q == Superseded(facts[i], n, r.validFrom)
<1>5. /\ q \in FactRow /\ q.status = "superseded" /\ q.validFrom = facts[i].validFrom
      /\ q.origin = facts[i].origin /\ (q.validFrom <= Now => Ordered(q))
  BY <1>1, <1>2, <1>3, <1>4, SupersededOK
<1> HIDE DEF q
<1>6. RowOK(i, q)
  BY <1>5, ClosedRow DEF Open
<1> QED BY <1>6 DEF q

LEMMA SucceedsOK ==
  ASSUME NEW c, IInv, NEW r, NewRow(r), NEW n \in FactIds, facts[n].status = "absent", Succeeds(c, n, r)
  PROVE  LegalBut(facts', n) /\ NewRow(facts'[n])
<1>0. facts \in [FactIds -> FactRow] /\ TypeOK /\ IntervalsOrdered /\ n \notin Present /\ r \in FactRow
  BY DEF IInv, TypeOK, NewRow, Present
<1> DEFINE new == [i \in FactIds |-> IF i \in Closed(c, r) THEN Superseded(facts[i], n, r.validFrom)
                                     ELSE IF i = n THEN r ELSE facts[i]]
           closed == Stored(facts, new)
<1>1. Closed(c, r) \subseteq Present /\ Peers(c, r) \subseteq Present /\ Later(c, r) = {}
  BY <1>0, CandidateRows DEF Closed, Peers, Succeeds
<1>2. \A i \in Closed(c, r) : RowOK(i, Superseded(facts[i], n, r.validFrom))
  BY <1>1, ClosedRows
<1>3. new \in [FactIds -> FactRow]
  BY <1>0, <1>2 DEF RowOK
<1>4. LegalBut(new, n) /\ NewRow(new[n])
  BY <1>0, <1>1, <1>2, <1>3, RowStays DEF LegalBut
<1>5. LegalBut(closed, n) /\ NewRow(closed[n])
  BY <1>0, <1>4, StoredLegal
<1>6. facts' = [i \in FactIds |-> IF i \in Peers(c, r) THEN [closed[i] EXCEPT !.status = "competing"]
                                  ELSE closed[i]]
  BY DEF Succeeds
<1>7. ASSUME NEW i \in Peers(c, r) PROVE i # n /\ i \in FactIds /\ RowOK(i, [closed[i] EXCEPT !.status = "competing"])
  <2>1. i \in Present /\ i \in FactIds /\ i # n /\ IsOpen(i) /\ i \notin Closed(c, r)
    <3>1. i \in Candidates(r) /\ c.semantics = "bitemporal_event" /\ ~(Moment(c, facts[i]) < Moment(c, r))
      BY <1>0, CandidateRows DEF Peers, Before
    <3>2. Moment(c, facts[i]) \in Int /\ Moment(c, r) \in Int
      <4>1. facts[i] \in FactRow
        BY <1>0, <3>1, CandidateRows
      <4> QED BY <1>0, <4>1, DivFacts, FactAssumption DEF Moment, FactRow, Times
    <3> QED BY <1>0, <1>1, <3>1, <3>2, CandidateRows DEF Closed, Before
  <2>2. new[i] = facts[i]
    BY <2>1
  <2>3. OpenRow(closed[i])
    <3>1. new[i].status \in Open /\ ~new[i].retracted /\ new[i] \in FactRow
      BY <1>0, <2>1, <2>2 DEF IsOpen
    <3>2. closed[i] = new[i] \/ closed[i] = [new[i] EXCEPT !.status = "active"]
      BY <1>3, <2>1, StoredRow
    <3> HIDE DEF new, closed
    <3> QED BY <3>1, <3>2 DEF OpenRow, Open, FactRow
  <2>4. RowOK(i, closed[i])
    BY <1>5, <2>1 DEF LegalBut
  <2>5. "competing" \in Open
    BY DEF Open
  <2> HIDE DEF closed
  <2> QED BY <2>1, <2>3, <2>4, <2>5, OpenFlips DEF OpenRow
<1> HIDE DEF closed
<1>8. facts' \in [FactIds -> FactRow]
  BY <1>5, <1>6, <1>7 DEF LegalBut, RowOK
<1>9. n \notin Peers(c, r)
  BY <1>0, <1>1
<1> QED BY <1>1, <1>5, <1>6, <1>7, <1>8, <1>9 DEF LegalBut

LEMMA SharesDayOK ==
  ASSUME NEW c, IInv, NEW r, NewRow(r), NEW n \in FactIds, facts[n].status = "absent", SharesDay(c, n, r)
  PROVE  LegalBut(facts', n) /\ NewRow(facts'[n])
<1>0. facts \in [FactIds -> FactRow] /\ TypeOK /\ IntervalsOrdered /\ n \notin Present /\ r \in FactRow
  BY DEF IInv, TypeOK, NewRow, Present
<1> DEFINE q == [r EXCEPT !.status = "competing", !.foes = Peers(c, r)]
<1>1. Peers(c, r) \subseteq Present /\ Peers(c, r) \subseteq FactIds /\ \A i \in Peers(c, r) : IsOpen(i)
  BY <1>0, CandidateRows DEF Peers
<1>2. /\ q \in FactRow /\ q.status = "competing" /\ q.validFrom = r.validFrom
      /\ q.validUntil = r.validUntil /\ q.priorValidUntil = r.priorValidUntil
  BY <1>0, <1>1 DEF FactRow, Statuses, Open
<1> HIDE DEF q
<1>3. NewRow(q)
  BY <1>2 DEF NewRow, Ordered
<1>4. ASSUME NEW i \in Peers(c, r) PROVE RowOK(i, [facts[i] EXCEPT !.status = "competing"])
  BY <1>0, <1>1, <1>4, RowStays, OpenFlips DEF IsOpen, OpenRow, Open
<1>5. facts' = [i \in FactIds |-> IF i \in Peers(c, r) THEN [facts[i] EXCEPT !.status = "competing"]
                                  ELSE IF i = n THEN q ELSE facts[i]]
  BY DEF SharesDay, q
<1>6. facts' \in [FactIds -> FactRow]
  BY <1>0, <1>2, <1>4, <1>5 DEF RowOK
<1> QED BY <1>0, <1>1, <1>3, <1>4, <1>5, <1>6, RowStays DEF LegalBut

(* The fact that is entered, whatever settle_fact decides. *)
LEMMA SettleOK ==
  ASSUME NEW c, IInv, NEW r, NewRow(r), NEW n \in FactIds, facts[n].status = "absent",
         SettleFact(c, n, r)
  PROVE  LegalBut(facts', n) /\ NewRow(facts'[n])
<1>1. CASE Confirms(c, n, r)
  BY <1>1, CorroboratingNew, EntersAlone DEF Confirms
<1>2. CASE OpensSlot(c, n, r) \/ AwaitsJudgement(c, n, r)
  BY <1>2, EntersAlone DEF OpensSlot, AwaitsJudgement
<1> QED BY <1>1, <1>2, EndsHeldOK, HistoryOK, SucceedsOK, SharesDayOK DEF SettleFact


-----------------------------------------------------------------------------
(* Every step leaves a legal table: at most one fact is entered, and its   *)
(* number was free.                                                        *)
StepOK == IInv' /\ \E n : n \notin Present /\ LegalBut(facts', n)

(* What a supersession has read stays sane while rows keep their start. *)
LEMMA TailsKept ==
  ASSUME \A t \in tails' : TailSane(t), Present \subseteq Present',
         \A i \in Present : facts'[i].validFrom = facts[i].validFrom
  PROVE  TailsSane'
<1> SUFFICES ASSUME NEW t \in tails' PROVE TailSane(t)'
  BY DEF TailsSane
<1>1. TailSane(t)
  OBVIOUS
<1>2. ASSUME NEW l \in t.losers
      PROVE  /\ l.id \in Present'
             /\ facts'[l.id].validFrom <= Now => facts'[l.id].validFrom <= l.until
  BY <1>1 DEF TailSane
<1> QED BY <1>1, <1>2 DEF TailSane

(* A step that enters no fact. *)
LEMMA LegalStep ==
  ASSUME IInv, Legal(facts'), JudgeSane', \A t \in tails' : TailSane(t),
         retracts' \in [FactIds -> {"idle", "read", "written"}],
         asked' \in [fact : FactIds \cup {0}, sig : SUBSET (FactIds \X Ends), answered : BOOLEAN],
         todo' \subseteq Actions, step' \in {NoStep} \cup StepType
  PROVE  StepOK
<1>1. 0 \notin Present
  BY DEF Present, FactIds
<1>2. /\ Prefix' /\ IntervalsOrdered' /\ facts' \in [FactIds -> FactRow] /\ Present' = Present
      /\ \A i \in Present : facts'[i].validFrom = facts[i].validFrom
  BY LegalKeeps DEF Legal
<1>3. tails' \subseteq Naming
  BY DEF TailSane
<1>4. TypeOK'
  BY <1>2, <1>3 DEF TypeOK, StepType
<1>5. TailsSane'
  BY <1>2, TailsKept
<1> QED BY <1>1, <1>2, <1>4, <1>5 DEF StepOK, IInv, Legal

(* One that touches only the table, or only the retracts. *)
LEMMA TableStep ==
  ASSUME IInv, Legal(facts'), UNCHANGED judging, \A t \in tails' : TailSane(t),
         retracts' \in [FactIds -> {"idle", "read", "written"}],
         \A i \in FactIds : retracts'[i] # "idle" => i \in Present
  PROVE  StepOK
<1>1. asked' = asked /\ todo' = todo /\ step' = step
  BY DEF judging
<1>2. JudgeSane'
  BY LegalKeeps, JudgeKept DEF Legal
<1> QED BY <1>1, <1>2, LegalStep DEF IInv, TypeOK, StepType

LEMMA TableStays ==
  ASSUME IInv, facts' = facts
  PROVE  Legal(facts')
<1>1. TypeOK /\ IntervalsOrdered /\ facts \in [FactIds -> FactRow]
  BY DEF IInv, TypeOK
<1> QED BY <1>1, RowStays DEF Legal, LegalBut

(* One row changes. *)
LEMMA OneRow ==
  ASSUME IInv, NEW i \in Present, NEW q, RowOK(i, q)
  PROVE  Legal([facts EXCEPT ![i] = q])
<1>1. TypeOK /\ IntervalsOrdered /\ facts \in [FactIds -> FactRow] /\ q \in FactRow /\ i \in FactIds
  BY DEF IInv, TypeOK, RowOK, Present
<1> DEFINE F == [facts EXCEPT ![i] = q]
<1>2. F \in [FactIds -> FactRow] /\ F[i] = q /\ \A k \in FactIds \ {i} : F[k] = facts[k]
  BY <1>1
<1> HIDE DEF F
<1>3. Legal(F)
  BY <1>1, <1>2, RowStays DEF Legal, LegalBut
<1> QED BY <1>3 DEF F

(* The row that settle_fact is called with. *)
ActiveRow(r) ==
  /\ NewRow(r) /\ r.status = "active" /\ ~r.retracted
  /\ r = Incoming(r.slot, r.object, r.origin, r.validFrom, r.validUntil)

LEMMA IncomingRow ==
  ASSUME NEW s \in Slots, NEW v \in Values, NEW o \in Origins, NEW from \in Times, NEW until \in Ends,
         from <= Now => from <= until
  PROVE  /\ ActiveRow(Incoming(s, v, o, from, until))
         /\ Incoming(s, v, o, from, until).slot = s
         /\ Incoming(s, v, o, from, until).object = v
         /\ Incoming(s, v, o, from, until).validFrom = from
         /\ Incoming(s, v, o, from, until).validUntil = until
<1> DEFINE r == Incoming(s, v, o, from, until)
<1>1. Forever \in Ends /\ 0 \in FactIds \cup {0} /\ from <= Forever
  BY FactAssumption DEF Times, Ends, Forever
<1>2. /\ r \in FactRow /\ r.status = "active" /\ r.validFrom = from /\ r.validUntil = until
      /\ r.slot = s /\ r.object = v /\ r.origin = o /\ r.priorValidUntil = Forever /\ ~r.retracted
  BY <1>1 DEF Incoming, FactRow, Statuses, Open
<1>3. r = Incoming(r.slot, r.object, r.origin, r.validFrom, r.validUntil)
  BY <1>2
<1> HIDE DEF r
<1>4. NewRow(r)
  BY <1>1, <1>2 DEF NewRow, Ordered
<1>5. ActiveRow(r)
  BY <1>2, <1>3, <1>4 DEF ActiveRow
<1> QED BY <1>2, <1>5 DEF r

LEMMA CallsTyped ==
  ASSUME NEW s \in Slots
  PROVE  CallsOn(s) \subseteq Calls
<1> SUFFICES ASSUME NEW policy \in PoliciesOf[s], NEW path \in PathsOf[s]
             PROVE  ConflictSlotResolution(policy, path) \in Calls
  BY DEF CallsOn
<1>1. policy \in Policies
  BY FactAssumption
<1>2. /\ [semantics |-> policy.semantics, exact |-> FALSE] \in Calls
      /\ [semantics |-> "bitemporal", exact |-> TRUE] \in Calls
      /\ [[semantics |-> policy.semantics, exact |-> FALSE] EXCEPT !.semantics = "bitemporal"] \in Calls
  BY <1>1 DEF Policies, Calls, Semantics
<1> QED BY <1>2 DEF ConflictSlotResolution

(* resolve: the call it makes. *)
LEMMA IngestCall ==
  ASSUME Ingest
  PROVE  \E r, c, named :
           /\ ActiveRow(r) /\ ClosesAt(r) \in Times
           /\ c \in CallsOn(r.slot) /\ c \in Calls
           /\ named \subseteq FactIds
           /\ Settle(c, r, named)
<1>1. PICK s \in Slots, v \in Values, o \in Origins, x \in Spans :
        \E c \in CallsOn(s), named \in SUBSET (Present \cap Nameable) :
          Settle(c, Incoming(s, v, o, x[1], x[2]), named)
  BY DEF Ingest
<1>2. PICK c \in CallsOn(s), named \in SUBSET (Present \cap Nameable) :
        Settle(c, Incoming(s, v, o, x[1], x[2]), named)
  BY <1>1
<1> DEFINE r == Incoming(s, v, o, x[1], x[2])
<1>3. x[1] \in Times /\ x[2] \in Ends /\ x[1] < x[2] /\ x[1] <= x[2]
  <2>1. x[1] \in Times /\ x[2] \in Ends /\ x[1] < x[2]
    BY FactAssumption DEF Times, Ends, Forever
  <2> QED BY <2>1, FactAssumption DEF Times, Ends, Forever
<1>4. ActiveRow(r) /\ r.slot = s /\ r.validFrom = x[1] /\ r.validUntil = x[2]
  BY <1>3, IncomingRow
<1> HIDE DEF r
<1>5. ClosesAt(r) \in Times
  BY <1>3, <1>4, FactAssumption DEF ClosesAt, Times, Ends, Forever
<1>6. c \in Calls /\ named \subseteq FactIds
  BY CallsTyped DEF Present
<1> QED BY <1>2, <1>4, <1>5, <1>6 DEF r

(* resolve, with the fact it enters. *)
LEMMA IngestStep ==
  ASSUME IInv, Ingest
  PROVE  StepOK
<1>1. PICK r, c, named :
        /\ ActiveRow(r) /\ ClosesAt(r) \in Times /\ named \subseteq FactIds /\ Settle(c, r, named)
  BY IngestCall
<1> DEFINE n == Cardinality(Present) + 1
<1>2. /\ n \in FactIds
      /\ SettleFact(c, n, r)
      /\ tails' = tails \cup {[winner |-> n, ids |-> ids, at |-> ClosesAt(r), pc |-> "read", losers |-> {}]
                                : ids \in {named} \ {{}}}
      /\ UNCHANGED <<retracts, judging>>
  BY <1>1 DEF Settle
<1>3. PICK m \in FactIds : m = n
  BY <1>2
<1>4. facts[m].status = "absent" /\ NewRow(r)
  BY <1>1, <1>3, FreshNumber DEF ActiveRow
<1>5. LegalBut(facts', m) /\ NewRow(facts'[m])
  BY <1>2, <1>3, <1>4, SettleOK
<1>6. /\ m \notin Present /\ Present' = Present \cup {m} /\ Prefix' /\ IntervalsOrdered'
      /\ facts' \in [FactIds -> FactRow]
      /\ \A i \in Present : /\ facts'[i].validFrom = facts[i].validFrom
                            /\ facts'[i].origin = facts[i].origin
  BY <1>3, <1>5, EntryKeeps
<1>7. JudgeSane'
  <2>1. \A i \in FactIds : retracts'[i] # "idle" => i \in Present'
    BY <1>2, <1>6 DEF IInv, JudgeSane
  <2> QED BY <1>2, <1>6, <2>1, JudgeKept
<1>8. \A t \in tails' : TailSane(t)
  <2> DEFINE u == [winner |-> m, ids |-> named, at |-> ClosesAt(r), pc |-> "read", losers |-> {}]
  <2>1. TailSane(u)
    BY <1>1 DEF TailSane, Naming
  <2>2. tails' \subseteq tails \cup {u}
    BY <1>2, <1>3
  <2> HIDE DEF u
  <2> QED BY <2>1, <2>2 DEF IInv, TailsSane
<1>9. TailsSane'
  BY <1>6, <1>8, TailsKept
<1>10. TypeOK'
  <2>1. tails' \subseteq Naming
    BY <1>8 DEF TailSane
  <2> QED BY <1>2, <1>6, <2>1 DEF IInv, TypeOK, judging
<1> QED BY <1>5, <1>6, <1>7, <1>9, <1>10 DEF StepOK, IInv


(* The row that applyExplicitSupersession closes by what it has read. *)
NamedRow(t, l) ==
  [facts[l.id] EXCEPT !.status = "superseded", !.reason = "superseded", !.supersededBy = t.winner,
                      !.priorValidUntil = l.until,
                      !.validUntil = ExplicitEnd(facts[l.id].validFrom, l.until, t.at)]

LEMMA NamedRowOK ==
  ASSUME IInv, NEW t \in tails, NEW l \in t.losers
  PROVE  /\ l.id \in FactIds /\ l.id \in Present /\ t.winner \in FactIds
         /\ RowOK(l.id, NamedRow(t, l))
         /\ NamedRow(t, l).status = "superseded" /\ NamedRow(t, l).slot = facts[l.id].slot
         /\ NamedRow(t, l).object = facts[l.id].object /\ NamedRow(t, l).foes = facts[l.id].foes
<1>1. /\ t \in Naming /\ l \in Bounds /\ l.id \in Present
      /\ facts[l.id].validFrom <= Now => facts[l.id].validFrom <= l.until
  BY DEF IInv, TailsSane, TailSane, Naming
<1>2. t.winner \in FactIds /\ t.at \in Times /\ l.id \in FactIds /\ l.until \in Ends
  BY <1>1 DEF Naming, Bounds
<1>3. facts[l.id] \in FactRow /\ facts[l.id].validFrom \in Times
  BY <1>2 DEF IInv, TypeOK, FactRow
<1> DEFINE e == ExplicitEnd(facts[l.id].validFrom, l.until, t.at)
           q == [facts[l.id] EXCEPT !.status = "superseded", !.reason = "superseded",
                   !.supersededBy = t.winner, !.priorValidUntil = l.until, !.validUntil = e]
<1>4. e \in Ends /\ (facts[l.id].validFrom <= Now => facts[l.id].validFrom <= e)
  BY <1>1, <1>2, <1>3, FactAssumption DEF ExplicitEnd, Times, Ends, Forever
<1> HIDE DEF e
<1>5. /\ q \in FactRow /\ q.status = "superseded" /\ q.validFrom = facts[l.id].validFrom
      /\ q.origin = facts[l.id].origin /\ q.slot = facts[l.id].slot /\ q.object = facts[l.id].object
      /\ q.foes = facts[l.id].foes /\ q.validUntil = e /\ q.priorValidUntil = l.until
  BY <1>2, <1>3, <1>4 DEF FactRow, Statuses
<1>6. NamedRow(t, l) = q
  BY DEF NamedRow, e
<1> HIDE DEF q
<1>7. RowOK(l.id, q)
  <2>1. q.validFrom <= Now => Ordered(q)
    BY <1>1, <1>4, <1>5 DEF Ordered
  <2> QED BY <1>5, <2>1, ClosedRow DEF Open
<1> QED BY <1>1, <1>2, <1>5, <1>6, <1>7

(* A supersession that moves on without reading anything new. *)
LEMMA TailMoves ==
  ASSUME IInv, NEW t \in tails, NEW pc \in {"read", "close", "promote"}, NEW losers \in SUBSET t.losers,
         NEW u, u = [t EXCEPT !.pc = pc, !.losers = losers], tails' \subseteq (tails \ {t}) \cup {u}
  PROVE  \A w \in tails' : TailSane(w)
<1>1. TailSane(t) /\ t \in Naming
  BY DEF IInv, TailsSane, TailSane
<1>2. u \in Naming /\ u.losers = losers
  BY <1>1 DEF Naming
<1>3. TailSane(u)
  BY <1>1, <1>2 DEF TailSane
<1> QED BY <1>3 DEF IInv, TailsSane

(* applyExplicitSupersession, statement by statement. *)
LEMMA NamedStep ==
  ASSUME IInv, NEW t \in tails, SupersedeNamed(t)
  PROVE  StepOK
<1>0. /\ TypeOK /\ IntervalsOrdered /\ facts \in [FactIds -> FactRow]
      /\ UNCHANGED <<retracts, judging>>
      /\ t \in Naming /\ t.winner \in FactIds /\ t.ids \subseteq FactIds /\ t.losers \in SUBSET t.losers
      /\ {} \in SUBSET t.losers
      /\ retracts \in [FactIds -> {"idle", "read", "written"}]
      /\ \A i \in FactIds : retracts[i] # "idle" => i \in Present
  <2>1. t \in Naming
    BY DEF IInv, TypeOK
  <2>2. UNCHANGED <<retracts, judging>>
    BY DEF SupersedeNamed, NamingReads, NamingCloses, NamingSkips, NamingPromotes, NamingRetries, NamingFails
  <2> QED BY <2>1, <2>2 DEF IInv, TypeOK, JudgeSane, Naming
<1>1. CASE NamingReads(t)
  <2> DEFINE losers == {[id |-> i, until |-> facts[i].validUntil] : i \in {k \in t.ids : IsOpen(k) /\ k # t.winner}}
             u == [t EXCEPT !.pc = "close", !.losers = losers]
  <2>1. \A l \in losers : /\ l \in Bounds /\ l.id \in Present
                          /\ facts[l.id].validFrom <= Now => facts[l.id].validFrom <= l.until
    <3> SUFFICES ASSUME NEW i \in t.ids, IsOpen(i)
                 PROVE  /\ [id |-> i, until |-> facts[i].validUntil] \in Bounds /\ i \in Present
                        /\ facts[i].validFrom <= Now => facts[i].validFrom <= facts[i].validUntil
      OBVIOUS
    <3>1. i \in FactIds /\ facts[i] \in FactRow /\ i \in Present
      BY <1>0 DEF Present, IsOpen, Open
    <3>2. facts[i].validUntil \in Ends
      BY <3>1 DEF FactRow
    <3> QED BY <1>0, <3>1, <3>2 DEF Bounds, IntervalsOrdered, Ordered
  <2>2. tails' \subseteq tails \cup {u} /\ facts' = facts
    BY <1>1 DEF NamingReads, Moves
  <2> HIDE DEF losers
  <2>3. u \in Naming /\ u.losers = losers
    BY <1>0, <2>1 DEF Naming
  <2>4. TailSane(u)
    BY <2>1, <2>3 DEF TailSane
  <2> HIDE DEF u
  <2>5. \A w \in tails' : TailSane(w)
    BY <2>2, <2>4 DEF IInv, TailsSane
  <2> QED BY <1>0, <2>2, <2>5, TableStays, TableStep
<1>2. ASSUME NEW l \in t.losers, NamingCloses(t, l) PROVE StepOK
  <2>1. /\ l.id \in FactIds /\ l.id \in Present /\ RowOK(l.id, NamedRow(t, l))
    BY NamedRowOK
  <2>2. facts' = Stored(facts, [facts EXCEPT ![l.id] = NamedRow(t, l)])
    BY <1>2 DEF NamingCloses, NamedRow
  <2>3. Legal(facts')
    BY <1>0, <2>1, <2>2, OneRow, StoredLegal DEF Legal
  <2> DEFINE pc == IF t.losers = {l} THEN "promote" ELSE "close"
             u == [t EXCEPT !.pc = pc, !.losers = t.losers \ {l}]
  <2>4. tails' = (tails \ {t}) \cup {u}
    <3>1. tails' = (tails \ {t}) \cup {[t EXCEPT !.losers = t.losers \ {l},
                                          !.pc = IF t.losers = {l} THEN "promote" ELSE "close"]}
      BY <1>2 DEF NamingCloses, Moves
    <3>2. [t EXCEPT !.losers = t.losers \ {l}, !.pc = pc] = u
      BY <1>0 DEF Naming
    <3> QED BY <3>1, <3>2
  <2>5. pc \in {"read", "close", "promote"} /\ t.losers \ {l} \in SUBSET t.losers
    OBVIOUS
  <2>6. \A w \in tails' : TailSane(w)
    <3>1. PICK p \in {"read", "close", "promote"}, rest \in SUBSET t.losers : p = pc /\ rest = t.losers \ {l}
      BY <2>5
    <3>2. tails' \subseteq (tails \ {t}) \cup {[t EXCEPT !.pc = p, !.losers = rest]}
      BY <2>4, <3>1
    <3> HIDE DEF pc, u
    <3> QED BY <3>2, TailMoves
  <2> QED BY <1>0, <2>3, <2>6, TableStep
<1>3. CASE NamingSkips(t) \/ NamingRetries(t) \/ NamingFails(t)
  <2>1. \E pc \in {"read", "promote"} :
          tails' \subseteq (tails \ {t}) \cup {[t EXCEPT !.pc = pc, !.losers = {}]}
    BY <1>3 DEF NamingSkips, NamingRetries, NamingFails, StartsOver, Moves
  <2>2. facts' = facts
    BY <1>3 DEF NamingSkips, NamingRetries, NamingFails
  <2>3. \A w \in tails' : TailSane(w)
    BY <1>0, <2>1, TailMoves
  <2> QED BY <1>0, <2>2, <2>3, TableStays, TableStep
<1>4. CASE NamingPromotes(t)
  <2>1. tails' \subseteq (tails \ {t}) \cup {[t EXCEPT !.pc = "read", !.losers = {}]}
    BY <1>4 DEF NamingPromotes, StartsOver, Moves
  <2>2. \A w \in tails' : TailSane(w)
    BY <1>0, <2>1, TailMoves
  <2>3. Legal(facts')
    <3>1. CASE facts[t.winner].status = "competing"
      <4> DEFINE q == [facts[t.winner] EXCEPT !.status = "active"]
      <4>0. t.winner \in Present
        BY <1>0, <3>1 DEF Present
      <4>1. RowOK(t.winner, q)
        BY <1>0, <3>1, <4>0, RowStays, OpenFlips DEF Open
      <4>2. facts' = [facts EXCEPT ![t.winner] = q]
        BY <1>0, <1>4, <3>1 DEF NamingPromotes
      <4> HIDE DEF q
      <4> QED BY <4>0, <4>1, <4>2, OneRow
    <3>2. CASE facts[t.winner].status # "competing"
      BY <1>4, <3>2, TableStays DEF NamingPromotes
    <3> QED BY <3>1, <3>2
  <2> QED BY <1>0, <2>2, <2>3, TableStep
<1> QED BY <1>1, <1>2, <1>3, <1>4 DEF SupersedeNamed

(* FactsService.retract. *)
LEMMA RetractStep ==
  ASSUME IInv, NEW i \in FactIds,
         RetractRead(i) \/ RetractWrite(i) \/ ReviveSupersededBy(i) \/ RetractDies(i)
  PROVE  StepOK
<1>0. /\ TypeOK /\ IntervalsOrdered /\ facts \in [FactIds -> FactRow] /\ \A t \in tails' : TailSane(t)
      /\ UNCHANGED judging /\ retracts \in [FactIds -> {"idle", "read", "written"}]
      /\ \A k \in FactIds : retracts[k] # "idle" => k \in Present
  BY DEF IInv, TypeOK, JudgeSane, TailsSane, RetractRead, RetractWrite, ReviveSupersededBy, RetractDies
<1>1. i \in Present
  BY <1>0 DEF RetractRead, RetractWrite, ReviveSupersededBy, RetractDies
<1>2. /\ retracts' \in [FactIds -> {"idle", "read", "written"}]
      /\ \A k \in FactIds : retracts'[k] # "idle" => k \in Present
  BY <1>0, <1>1 DEF RetractRead, RetractWrite, ReviveSupersededBy, RetractDies
<1>3. CASE RetractRead(i) \/ RetractDies(i)
  BY <1>0, <1>2, <1>3, TableStays, TableStep DEF RetractRead, RetractDies
<1>4. CASE RetractWrite(i)
  <2> DEFINE q == [facts[i] EXCEPT !.status = "retracted", !.retracted = TRUE, !.reason = "operator",
                                   !.validUntil = Now]
  <2>1. Now \in Ends /\ facts[i] \in FactRow
    BY <1>0, FactAssumption DEF Ends, Forever
  <2>2. /\ q \in FactRow /\ q.status = "retracted" /\ q.validFrom = facts[i].validFrom
        /\ q.origin = facts[i].origin /\ q.validUntil = Now
        /\ q.priorValidUntil = facts[i].priorValidUntil
    BY <2>1 DEF FactRow, Statuses
  <2>3. facts' = Stored(facts, [facts EXCEPT ![i] = q])
    BY <1>4 DEF RetractWrite
  <2> HIDE DEF q
  <2>4. RowOK(i, q)
    <3>1. q.validFrom <= Now => Ordered(q)
      BY <1>0, <2>2 DEF IntervalsOrdered, Ordered
    <3> QED BY <2>2, <3>1, ClosedRow DEF Open
  <2>5. Legal([facts EXCEPT ![i] = q])
    BY <1>1, <2>4, OneRow
  <2>6. Legal(facts')
    BY <1>0, <2>3, <2>5, StoredLegal DEF Legal
  <2> QED BY <1>0, <1>2, <2>6, TableStep
<1>5. CASE ReviveSupersededBy(i)
  <2> DEFINE back(k) == facts[k].supersededBy = i /\ facts[k].status = "superseded"
                        /\ facts[k].reason = "superseded"
  <2>1. facts' = [k \in FactIds |-> IF back(k) THEN Revived(facts[k]) ELSE facts[k]]
    BY <1>5 DEF ReviveSupersededBy
  <2>2. ASSUME NEW k \in FactIds, back(k) PROVE k \in Present /\ RowOK(k, Revived(facts[k]))
    <3>0. facts[k] \in FactRow /\ Forever \in Ends /\ facts[k].validFrom \in Times
      BY <1>0, FactAssumption DEF FactRow, Ends, Forever
    <3> DEFINE q == Revived(facts[k])
    <3>1. /\ q \in FactRow /\ q.status = "active" /\ q.validFrom = facts[k].validFrom
          /\ q.origin = facts[k].origin /\ q.validUntil = facts[k].priorValidUntil
          /\ q.priorValidUntil = Forever
      BY <3>0 DEF Revived, FactRow, Statuses, Open
    <3> HIDE DEF q
    <3>2. q.validFrom <= Now => Ordered(q)
      BY <1>0, <3>0, <3>1, FactAssumption DEF IntervalsOrdered, Ordered, Times, Forever
    <3>3. i # 0 /\ retracts[i] = "written"
      BY <1>5 DEF ReviveSupersededBy, FactIds
    <3>4. RowOK(k, q)
      BY <2>2, <3>1, <3>2, <3>3 DEF RowOK
    <3> QED BY <2>2, <3>4 DEF Present, q
  <2> HIDE DEF back
  <2>3. facts' \in [FactIds -> FactRow]
    BY <1>0, <2>1, <2>2 DEF RowOK
  <2>4. Legal(facts')
    BY <1>0, <2>1, <2>2, <2>3, RowStays DEF Legal, LegalBut
  <2> QED BY <1>0, <1>2, <2>4, TableStep
<1> QED BY <1>3, <1>4, <1>5


-----------------------------------------------------------------------------
(* A step of the judge. *)
ItemType == [fact : FactIds \cup {0}, sig : SUBSET (FactIds \X Ends), answered : BOOLEAN]

ItemSane(z) == /\ z \in ItemType
               /\ z # NoItem => z.fact \in Present /\ \A x \in z.sig : x[1] \in Present

WorkSane(z) ==
  \/ z = NoStep
  \/ /\ z \in StepType /\ z.loser \in Present /\ z.winner \in Present /\ ~OfRecord(z.loser)
     /\ z.kind = "close" => (facts[z.loser].validFrom <= Now => facts[z.loser].validFrom <= z.prior)

LEMMA JudgeHolds ==
  ASSUME IInv
  PROVE  /\ ItemSane(asked) /\ WorkSane(step) /\ todo \subseteq Actions /\ \A x \in todo : Lawful(x)
         /\ ItemSane(NoItem) /\ WorkSane(NoStep)
<1>1. asked \in ItemType /\ step \in {NoStep} \cup StepType /\ todo \subseteq Actions
  BY DEF IInv, TypeOK, ItemType, StepType
<1>2. NoItem \in ItemType
  BY DEF NoItem, ItemType
<1> QED BY <1>1, <1>2 DEF IInv, JudgeSane, ItemSane, WorkSane

LEMMA JudgeStep ==
  ASSUME IInv, Legal(facts'), UNCHANGED <<tails, retracts>>,
         NEW z, NEW y, NEW td, asked' = z, step' = y, todo' = td,
         ItemSane(z), WorkSane(y), td \subseteq Actions, \A x \in td : Lawful(x)
  PROVE  StepOK
<1>1. /\ Present' = Present
      /\ \A i \in Present : /\ facts'[i].validFrom = facts[i].validFrom
                            /\ facts'[i].origin = facts[i].origin
  BY LegalKeeps DEF Legal
<1>2. /\ \A x : Lawful(x) => Lawful(x)'
      /\ \A i \in Present : OfRecord(i)' = OfRecord(i)
  BY <1>1, JudgeKept
<1>3. asked' # NoItem => asked'.fact \in Present' /\ \A x \in asked'.sig : x[1] \in Present'
  BY <1>1 DEF ItemSane
<1>4. \A x \in td : Lawful(x)'
  BY <1>2
<1>5. step' # NoStep => step'.loser \in Present' /\ step'.winner \in Present'
                        /\ facts'[step'.loser].origin \notin RecordOrigins
  BY <1>1 DEF WorkSane, OfRecord
<1>6. step'.kind = "close" =>
        (facts'[step'.loser].validFrom <= Now => facts'[step'.loser].validFrom <= step'.prior)
  BY <1>1 DEF WorkSane, NoStep
<1>7. \A i \in FactIds : retracts'[i] # "idle" => i \in Present'
  BY <1>1 DEF IInv, JudgeSane
<1>8. JudgeSane'
  BY <1>3, <1>4, <1>5, <1>6, <1>7 DEF JudgeSane, OfRecord
<1>9. /\ retracts' \in [FactIds -> {"idle", "read", "written"}] /\ step' \in {NoStep} \cup StepType
      /\ \A t \in tails' : TailSane(t)
  BY DEF IInv, TypeOK, WorkSane, TailsSane
<1> QED BY <1>8, <1>9, LegalStep DEF ItemSane, ItemType

(* nextItems. *)
LEMMA ItemStep ==
  ASSUME IInv, NEW f \in FactIds, TakeItem(f) \/ NothingToJudge(f)
  PROVE  StepOK
<1>0. /\ TypeOK /\ IntervalsOrdered /\ facts \in [FactIds -> FactRow] /\ f \in Present
      /\ UNCHANGED <<tails, retracts>>
  BY DEF IInv, TypeOK, TakeItem, NothingToJudge, IsOpen, Open, Present
<1>1. CASE TakeItem(f)
  <2> DEFINE ids == {f} \cup Shown(f)
             z == [fact |-> f, sig |-> Signature(ids), answered |-> FALSE]
  <2>1. ids \subseteq Present /\ ids \subseteq FactIds
    BY <1>0 DEF Shown, IsOpen, Open, Present
  <2>2. \A i \in ids : <<i, facts[i].validUntil>> \in FactIds \X Ends
    BY <1>0, <2>1 DEF FactRow
  <2> HIDE DEF ids
  <2>3. Signature(ids) \subseteq FactIds \X Ends /\ \A x \in Signature(ids) : x[1] \in Present
    BY <2>1, <2>2 DEF Signature
  <2>4. ItemSane(z)
    BY <1>0, <2>3 DEF ItemSane, ItemType
  <2>5. asked' = z /\ todo' = todo /\ step' = step /\ facts' = facts
    BY <1>1 DEF TakeItem, ids
  <2> HIDE DEF z
  <2> QED BY <1>0, <2>4, <2>5, JudgeHolds, JudgeStep, TableStays
<1>2. CASE NothingToJudge(f)
  <2> DEFINE q == [facts[f] EXCEPT !.checked = TRUE]
  <2>1. /\ q \in FactRow /\ q.status = facts[f].status /\ q.validFrom = facts[f].validFrom
        /\ q.origin = facts[f].origin /\ q.validUntil = facts[f].validUntil
        /\ q.priorValidUntil = facts[f].priorValidUntil
    <3>1. facts[f] \in FactRow
      BY <1>0
    <3> QED BY <3>1 DEF FactRow
  <2>2. facts' = [facts EXCEPT ![f] = q]
    BY <1>0, <1>2 DEF NothingToJudge
  <2> HIDE DEF q
  <2>3. RowOK(f, q)
    <3>1. IsOpen(f) /\ RowOK(f, facts[f])
      BY <1>0, <1>2, RowStays DEF NothingToJudge
    <3> QED BY <2>1, <3>1 DEF RowOK, Ordered
  <2>4. Legal(facts')
    BY <1>0, <2>2, <2>3, OneRow
  <2>5. \A t \in tails' : TailSane(t)
    BY <1>2 DEF NothingToJudge, IInv, TailsSane
  <2> QED BY <1>0, <1>2, <2>4, <2>5, TableStep DEF NothingToJudge, IInv, TypeOK, JudgeSane
<1> QED BY <1>1, <1>2

(* The verdicts on an item are lawful whatever the model answers. *)
LEMMA VerdictsLawful ==
  ASSUME IInv, NEW f \in Present, NEW c \in Present, f # c, NEW verdict \in Verdicts,
         NEW y \in ActionsFor(f, c, verdict), NEW x \in KeepRecordSlots(y)
  PROVE  x \in Actions /\ Lawful(x)
<1>0. f \in FactIds /\ c \in FactIds /\ f \in Int /\ c \in Int
  BY FactAssumption DEF Present, FactIds
<1>1. \E k \in {"supersede", "corroborate", "compete"} :
        y = [kind |-> k, a |-> c, b |-> f] \/ y = [kind |-> k, a |-> f, b |-> c]
  BY <1>0 DEF ActionsFor, Verdicts
<1>2. /\ y.kind \in {"supersede", "corroborate", "compete"} /\ y \in Actions
      /\ y.a \in Present /\ y.b \in Present /\ y.a # y.b
      /\ y.a \in FactIds /\ y.b \in FactIds
  BY <1>0, <1>1 DEF Actions
<1> DEFINE k == y.kind
           ra == OfRecord(y.a)
           rb == OfRecord(y.b)
           against(i, j) == [kind |-> "dispute", a |-> i, b |-> j]
<1>3. ASSUME NEW i \in Present, NEW j \in Present, i # j, ~OfRecord(i), x = against(i, j)
      PROVE  x \in Actions /\ Lawful(x)
  BY <1>3 DEF Actions, Lawful, Present
<1>4. CASE ~ra /\ (k = "compete" => ~rb)
  <2>1. KeepRecordSlots(y) = {y}
    BY <1>2, <1>4 DEF KeepRecordSlots
  <2> QED BY <1>2, <1>4, <2>1 DEF Lawful
<1>5. CASE ~ra /\ k = "compete" /\ rb
  <2>1. KeepRecordSlots(y) = {against(y.a, y.b)}
    BY <1>5 DEF KeepRecordSlots
  <2> QED BY <1>2, <1>3, <1>5, <2>1
<1>6. CASE ra /\ rb
  <2>1. KeepRecordSlots(y) = {}
    BY <1>2, <1>6 DEF KeepRecordSlots
  <2> QED BY <2>1
<1>7. CASE ra /\ ~rb /\ k # "corroborate"
  <2>1. KeepRecordSlots(y) = {against(y.b, y.a)}
    BY <1>2, <1>7 DEF KeepRecordSlots
  <2> QED BY <1>2, <1>3, <1>7, <2>1
<1>8. CASE ra /\ ~rb /\ k = "corroborate"
  <2> DEFINE z == [y EXCEPT !.a = y.b, !.b = y.a]
  <2>1. KeepRecordSlots(y) = {z}
    BY <1>8 DEF KeepRecordSlots
  <2>2. z \in Actions /\ z.a = y.b /\ z.b = y.a /\ z.kind = "corroborate"
    BY <1>2, <1>8 DEF Actions
  <2> HIDE DEF z
  <2> QED BY <1>2, <1>8, <2>1, <2>2 DEF Lawful
<1> QED BY <1>4, <1>5, <1>6, <1>7, <1>8

LEMMA AnswerStep ==
  ASSUME IInv, Judge \/ StaleAnswer \/ JudgeDies
  PROVE  StepOK
<1>0. UNCHANGED <<tails, retracts>> /\ facts' = facts /\ asked # NoItem
  BY DEF Judge, StaleAnswer, JudgeDies
<1>1. CASE JudgeDies
  BY <1>0, <1>1, JudgeHolds, JudgeStep, TableStays DEF JudgeDies
<1>2. CASE StaleAnswer
  BY <1>0, <1>2, JudgeHolds, JudgeStep, TableStays DEF StaleAnswer
<1>3. CASE Judge
  <2>1. PICK verdict \in [Considered -> Verdicts] :
          todo' = UNION {KeepRecordSlots(x) :
                           x \in UNION {ActionsFor(asked.fact, c, verdict[c]) : c \in Considered}}
    BY <1>3 DEF Judge
  <2>2. asked.fact \in Present /\ Considered \subseteq Present /\ asked.fact \notin Considered
        /\ asked \in ItemType
    BY <1>0, JudgeHolds DEF ItemSane, Considered
  <2>3. ASSUME NEW x \in todo' PROVE x \in Actions /\ Lawful(x)
    <3>1. PICK y \in UNION {ActionsFor(asked.fact, c, verdict[c]) : c \in Considered} :
            x \in KeepRecordSlots(y)
      BY <2>1
    <3>2. PICK c \in Considered : y \in ActionsFor(asked.fact, c, verdict[c])
      BY <3>1
    <3>3. verdict[c] \in Verdicts /\ c \in Present /\ c # asked.fact
      BY <2>1, <2>2
    <3> QED BY <2>2, <3>1, <3>2, <3>3, VerdictsLawful
  <2> DEFINE z == [asked EXCEPT !.answered = TRUE]
  <2>4. asked' = z /\ step' = step
    BY <1>3 DEF Judge
  <2>5. ItemSane(z)
    <3>1. z \in ItemType /\ z.fact = asked.fact /\ z.sig = asked.sig
      BY <2>2 DEF ItemType
    <3> QED BY <1>0, <3>1, JudgeHolds DEF ItemSane
  <2> HIDE DEF z
  <2> QED BY <1>0, <2>3, <2>4, <2>5, JudgeHolds, JudgeStep, TableStays
<1> QED BY <1>1, <1>2, <1>3


-----------------------------------------------------------------------------
(* A record that is open is left as it is, or is made active. *)
RecordsKept == \A i \in FactIds : OfRecord(i) /\ IsOpen(i) => facts'[i].status \in {facts[i].status, "active"}

(* Closing one row that is no record touches no record: the event may only *)
(* make it active.                                                         *)
LEMMA CloseKeepsRecords ==
  ASSUME IInv, NEW i \in Present, NEW q, RowOK(i, q), ~OfRecord(i),
         facts' = Stored(facts, [facts EXCEPT ![i] = q])
  PROVE  Legal(facts') /\ RecordsKept
<1>0. /\ TypeOK /\ facts \in [FactIds -> FactRow] /\ i \in FactIds /\ q \in FactRow
  BY DEF IInv, TypeOK, RowOK, Present
<1>1. Legal([facts EXCEPT ![i] = q])
  BY OneRow
<1>2. Legal(facts')
  BY <1>0, <1>1, StoredLegal DEF Legal
<1> DEFINE new == [facts EXCEPT ![i] = q]
<1>3. new \in [FactIds -> FactRow] /\ \A k \in FactIds \ {i} : new[k] = facts[k]
  BY <1>0
<1>4. ASSUME NEW k \in FactIds, OfRecord(k), IsOpen(k)
      PROVE  facts'[k].status \in {facts[k].status, "active"}
  <2>1. k # i /\ new[k] = facts[k] /\ facts[k] \in FactRow
    BY <1>0, <1>3, <1>4
  <2>2. facts' = Stored(facts, new)
    OBVIOUS
  <2> HIDE DEF new
  <2>3. facts'[k] = new[k] \/ facts'[k] = [new[k] EXCEPT !.status = "active"]
    BY <1>3, <2>2, StoredRow
  <2> QED BY <2>1, <2>3 DEF FactRow
<1> QED BY <1>2, <1>4 DEF RecordsKept

(* Marking an open row as competing, with what it competes with. *)
LEMMA CompetingOK ==
  ASSUME IInv, NEW i \in Present, IsOpen(i), NEW S \in SUBSET FactIds
  PROVE  RowOK(i, [facts[i] EXCEPT !.status = "competing", !.foes = S])
<1>0. facts[i] \in FactRow /\ RowOK(i, facts[i])
  BY RowStays DEF IInv, TypeOK, Present
<1> DEFINE q == [facts[i] EXCEPT !.status = "competing", !.foes = S]
<1>1. /\ q \in FactRow /\ q.status = "competing" /\ q.validFrom = facts[i].validFrom
      /\ q.origin = facts[i].origin /\ q.validUntil = facts[i].validUntil
      /\ q.priorValidUntil = facts[i].priorValidUntil
  BY <1>0 DEF FactRow, Statuses, Open
<1> HIDE DEF q
<1>2. RowOK(i, q)
  BY <1>0, <1>1 DEF RowOK, Ordered
<1> QED BY <1>2 DEF q

(* write, of the verdicts that are one statement. *)
LEMMA VerdictStep ==
  ASSUME IInv, NEW x \in todo, WriteVerdict(x)
  PROVE  StepOK /\ RecordsKept
<1>0. /\ TypeOK /\ IntervalsOrdered /\ facts \in [FactIds -> FactRow]
      /\ UNCHANGED <<tails, retracts, asked, step>> /\ todo' = todo \ {x}
  BY DEF IInv, TypeOK, WriteVerdict
<1>1. /\ x.a \in Present /\ x.b \in Present /\ x.a \in FactIds /\ x.b \in FactIds /\ x.a # x.b
      /\ ~OfRecord(x.a) /\ (x.kind = "compete" => ~OfRecord(x.b))
  BY JudgeHolds DEF Lawful, Present
<1>2. SUFFICES Legal(facts') /\ RecordsKept
  BY <1>0, JudgeHolds, JudgeStep
<1>3. CASE facts' = facts
  BY <1>3, TableStays DEF RecordsKept
<1>4. CASE x.kind = "corroborate" /\ facts' = Stored(facts, [facts EXCEPT ![x.a].status = "corroborating"])
  <2> DEFINE q == [facts[x.a] EXCEPT !.status = "corroborating"]
  <2>1. facts[x.a] \in FactRow
    BY <1>0, <1>1
  <2>2. /\ q \in FactRow /\ q.status = "corroborating" /\ q.validFrom = facts[x.a].validFrom
        /\ q.origin = facts[x.a].origin /\ q.validUntil = facts[x.a].validUntil
        /\ q.priorValidUntil = facts[x.a].priorValidUntil
    BY <2>1 DEF FactRow, Statuses
  <2>3. facts' = Stored(facts, [facts EXCEPT ![x.a] = q])
    BY <1>4
  <2> HIDE DEF q
  <2>4. RowOK(x.a, q)
    <3>1. q.validFrom <= Now => Ordered(q)
      BY <1>0, <1>1, <2>2 DEF IntervalsOrdered, Ordered
    <3> QED BY <2>2, <3>1, ClosedRow DEF Open
  <2> QED BY <1>1, <2>3, <2>4, CloseKeepsRecords
<1>5. CASE x.kind = "compete" /\ IsOpen(x.a) /\ IsOpen(x.b) /\ facts' = Compete(x.a, x.b)
  <2> DEFINE q == [facts[x.a] EXCEPT !.status = "competing", !.foes = facts[x.a].foes \cup {x.b}]
             s == [facts[x.b] EXCEPT !.status = "competing", !.foes = facts[x.b].foes \cup {x.a}]
  <2>1. facts[x.a].foes \cup {x.b} \in SUBSET FactIds /\ facts[x.b].foes \cup {x.a} \in SUBSET FactIds
    BY <1>0, <1>1 DEF FactRow
  <2>2. RowOK(x.a, q) /\ RowOK(x.b, s)
    BY <1>1, <1>5, <2>1, CompetingOK
  <2>3. /\ facts'[x.a] = q /\ facts'[x.b] = s /\ DOMAIN facts' = FactIds
        /\ \A k \in FactIds \ {x.a, x.b} : facts'[k] = facts[k]
        /\ facts' = [k \in FactIds |-> facts'[k]]
    BY <1>0, <1>1, <1>5 DEF Compete
  <2> HIDE DEF q, s
  <2>4. facts' \in [FactIds -> FactRow]
    <3>1. \A k \in FactIds : facts'[k] \in FactRow
      BY <1>0, <2>2, <2>3 DEF RowOK
    <3> QED BY <2>3, <3>1
  <2>5. Legal(facts')
    BY <1>0, <1>1, <2>2, <2>3, <2>4, RowStays DEF Legal, LegalBut
  <2>6. RecordsKept
    BY <1>1, <1>5, <2>3 DEF RecordsKept
  <2> QED BY <2>5, <2>6
<1>6. CASE x.kind = "dispute" /\ IsOpen(x.a) /\ facts' = [facts EXCEPT ![x.a].status = "competing", ![x.a].foes = @ \cup {x.b}]
  <2> DEFINE q == [facts[x.a] EXCEPT !.status = "competing", !.foes = facts[x.a].foes \cup {x.b}]
  <2>1. facts[x.a].foes \cup {x.b} \in SUBSET FactIds
    BY <1>0, <1>1 DEF FactRow
  <2>2. RowOK(x.a, q)
    BY <1>1, <1>6, <2>1, CompetingOK
  <2>3. facts' = [facts EXCEPT ![x.a] = q]
    BY <1>0, <1>1, <1>6
  <2> HIDE DEF q
  <2>4. Legal(facts')
    BY <1>1, <2>2, <2>3, OneRow
  <2>5. RecordsKept
    BY <1>0, <1>1, <2>3 DEF RecordsKept
  <2> QED BY <2>4, <2>5
<1> QED BY <1>3, <1>4, <1>5, <1>6 DEF WriteVerdict, Compete, Dispute

(* markSuperseded, and the mark that the fact is judged. *)
LEMMA SupersedeStep ==
  ASSUME IInv, (\E x \in todo : ReadBounds(x)) \/ CloseLoser \/ PromoteWinner
  PROVE  StepOK /\ RecordsKept
<1>0. /\ TypeOK /\ IntervalsOrdered /\ facts \in [FactIds -> FactRow] /\ UNCHANGED <<tails, retracts, asked>>
  BY DEF IInv, TypeOK, ReadBounds, CloseLoser, PromoteWinner
<1>1. ASSUME NEW x \in todo, ReadBounds(x) PROVE StepOK /\ RecordsKept
  <2>1. x.a \in Present /\ x.b \in Present /\ ~OfRecord(x.a) /\ x.a \in FactIds /\ x.b \in FactIds
    BY JudgeHolds DEF Lawful, Present
  <2> DEFINE y == [kind |-> "close", loser |-> x.a, winner |-> x.b, prior |-> facts[x.a].validUntil]
  <2>2. WorkSane(y)
    <3>1. facts[x.a].validUntil \in Ends
      BY <1>0, <2>1 DEF FactRow
    <3>2. y \in StepType
      BY <2>1, <3>1 DEF StepType
    <3>3. facts[x.a].validFrom <= Now => facts[x.a].validFrom <= facts[x.a].validUntil
      BY <1>0, <2>1 DEF IntervalsOrdered, Ordered
    <3> QED BY <2>1, <3>2, <3>3 DEF WorkSane
  <2>3. step' = y /\ todo' = todo \ {x} /\ facts' = facts
    BY <1>1 DEF ReadBounds
  <2> HIDE DEF y
  <2>4. RecordsKept
    BY <2>3 DEF RecordsKept
  <2> QED BY <1>0, <2>2, <2>3, <2>4, JudgeHolds, JudgeStep, TableStays
<1>2. CASE CloseLoser
  <2>1. /\ step \in StepType /\ step.loser \in Present /\ step.winner \in Present /\ ~OfRecord(step.loser)
        /\ step.kind = "close" /\ step.loser \in FactIds /\ step.winner \in FactIds /\ step.prior \in Ends
        /\ facts[step.loser].validFrom <= Now => facts[step.loser].validFrom <= step.prior
    BY <1>2, JudgeHolds DEF CloseLoser, WorkSane, NoStep, StepType
  <2> DEFINE l == facts[step.loser]
             e == CloseAt(step.loser, step.winner)
             p == IF step.prior = Forever THEN l.priorValidUntil ELSE step.prior
             q == [l EXCEPT !.status = "superseded", !.reason = "superseded",
                            !.supersededBy = step.winner, !.priorValidUntil = p, !.validUntil = e]
  <2>2. l \in FactRow /\ facts[step.winner] \in FactRow
    BY <1>0, <2>1
  <2>3. l.validFrom \in Times /\ facts[step.winner].validFrom \in Times /\ l.priorValidUntil \in Ends
    BY <2>2 DEF FactRow
  <2>4. e \in Ends /\ l.validFrom <= e
    BY <2>3, FactAssumption DEF CloseAt, Times, Ends, Forever
  <2>5. p \in Ends /\ (l.validFrom <= Now => l.validFrom <= p)
    BY <1>0, <2>1, <2>3 DEF IntervalsOrdered, Ordered
  <2> HIDE DEF e, p
  <2>6. /\ q \in FactRow /\ q.status = "superseded" /\ q.validFrom = l.validFrom
        /\ q.origin = l.origin /\ q.validUntil = e /\ q.priorValidUntil = p
    BY <2>1, <2>2, <2>4, <2>5 DEF FactRow, Statuses
  <2>7. facts' = Stored(facts, [facts EXCEPT ![step.loser] = q])
    <3> DEFINE new == [facts EXCEPT ![step.loser] =
                        [@ EXCEPT !.status = "superseded", !.reason = "superseded",
                                  !.supersededBy = step.winner,
                                  !.priorValidUntil = p,
                                  !.validUntil = CloseAt(step.loser, step.winner)]]
    <3>1. facts' = Stored(facts, new)
      BY <1>2 DEF CloseLoser, p
    <3>2. new = [facts EXCEPT ![step.loser] = q]
      BY DEF e
    <3> QED BY <3>1, <3>2
  <2> HIDE DEF q
  <2>8. RowOK(step.loser, q)
    <3>1. q.validFrom <= Now => Ordered(q)
      BY <2>4, <2>5, <2>6 DEF Ordered
    <3> QED BY <2>6, <3>1, ClosedRow DEF Open
  <2>9. Legal(facts') /\ RecordsKept
    BY <2>1, <2>7, <2>8, CloseKeepsRecords
  <2> DEFINE y == [step EXCEPT !.kind = "promote"]
  <2>10. WorkSane(y)
    <3>1. y \in StepType /\ y.kind = "promote" /\ y.loser = step.loser /\ y.winner = step.winner
      BY <2>1 DEF StepType
    <3> QED BY <2>1, <3>1 DEF WorkSane
  <2>11. step' = y /\ todo' = todo
    BY <1>2 DEF CloseLoser
  <2> HIDE DEF y
  <2> QED BY <1>0, <2>9, <2>10, <2>11, JudgeHolds, JudgeStep
<1>3. CASE PromoteWinner
  <2>1. step.winner \in Present /\ step.winner \in FactIds
    BY <1>3, JudgeHolds DEF PromoteWinner, WorkSane, NoStep, Present
  <2>2. Legal(facts') /\ RecordsKept
    <3>1. CASE facts[step.winner].status = "competing"
      <4> DEFINE q == [facts[step.winner] EXCEPT !.status = "active"]
      <4>1. RowOK(step.winner, q)
        BY <1>0, <2>1, <3>1, RowStays, OpenFlips DEF Open
      <4>2. facts' = [facts EXCEPT ![step.winner] = q] /\ q.status = "active"
        BY <1>0, <1>3, <2>1, <3>1 DEF PromoteWinner, FactRow
      <4> HIDE DEF q
      <4>3. Legal(facts')
        BY <2>1, <4>1, <4>2, OneRow
      <4>4. RecordsKept
        BY <1>0, <2>1, <4>2 DEF RecordsKept
      <4> QED BY <4>3, <4>4
    <3>2. CASE facts[step.winner].status # "competing"
      <4>1. facts' = facts
        BY <1>3, <3>2 DEF PromoteWinner
      <4> QED BY <4>1, TableStays DEF RecordsKept
    <3> QED BY <3>1, <3>2
  <2>3. step' = NoStep /\ todo' = todo
    BY <1>3 DEF PromoteWinner
  <2> QED BY <1>0, <2>2, <2>3, JudgeHolds, JudgeStep
<1> QED BY <1>1, <1>2, <1>3

LEMMA CheckedStep ==
  ASSUME IInv, MarkChecked
  PROVE  StepOK
<1>0. /\ TypeOK /\ IntervalsOrdered /\ facts \in [FactIds -> FactRow] /\ UNCHANGED <<tails, retracts>>
      /\ asked' = NoItem /\ todo' = todo /\ step' = step
  BY DEF IInv, TypeOK, MarkChecked
<1>1. asked.fact \in Present /\ asked.fact \in FactIds
  BY JudgeHolds DEF MarkChecked, ItemSane, NoItem, Present
<1> DEFINE f == asked.fact
           q == [facts[f] EXCEPT !.checked = TRUE]
<1>2. facts[f] \in FactRow /\ RowOK(f, facts[f])
  BY <1>0, <1>1, RowStays
<1>3. /\ q \in FactRow /\ q.status = facts[f].status /\ q.validFrom = facts[f].validFrom
      /\ q.origin = facts[f].origin /\ q.validUntil = facts[f].validUntil
      /\ q.priorValidUntil = facts[f].priorValidUntil
  BY <1>2 DEF FactRow
<1>4. q.retracted = facts[f].retracted
  BY <1>2 DEF FactRow
<1>5. facts' = [facts EXCEPT ![f] = q]
  BY <1>0, <1>1 DEF MarkChecked
<1> HIDE DEF q
<1>6. RowOK(f, q)
  BY <1>2, <1>3, <1>4 DEF RowOK, Ordered, OpenRow
<1>7. Legal(facts')
  BY <1>1, <1>5, <1>6, OneRow
<1> QED BY <1>0, <1>7, JudgeHolds, JudgeStep


-----------------------------------------------------------------------------
LEMMA InitOK ==
  ASSUME Init
  PROVE  IInv
<1>1. /\ facts = [i \in FactIds |-> Absent] /\ tails = {} /\ retracts = [i \in FactIds |-> "idle"]
      /\ asked = NoItem /\ todo = {} /\ step = NoStep
  BY DEF Init
<1>2. Absent \in FactRow /\ Absent.status = "absent" /\ Ordered(Absent)
  <2>1. /\ (CHOOSE s \in Slots : TRUE) \in Slots
        /\ (CHOOSE v \in Values : TRUE) \in Values
        /\ (CHOOSE o \in Origins : TRUE) \in Origins
    BY FactAssumption
  <2>2. 0 \in Times /\ Forever \in Ends /\ 0 <= Forever
    BY FactAssumption DEF Times, Ends, Forever
  <2> QED BY <2>1, <2>2 DEF Absent, FactRow, Statuses, Ordered
<1>3. NoItem \in ItemType
  BY DEF NoItem, ItemType
<1> HIDE DEF Absent
<1>4. TypeOK
  BY <1>1, <1>2, <1>3 DEF TypeOK, ItemType
<1>5. Present = {}
  BY <1>1, <1>2 DEF Present
<1>6. Prefix
  <2>1. 0 \in 0 .. MaxFacts /\ 1 .. 0 = {}
    BY FactAssumption
  <2> QED BY <1>5, <2>1 DEF Prefix
<1>7. IntervalsOrdered
  BY <1>1, <1>2 DEF IntervalsOrdered
<1>8. JudgeSane
  BY <1>1 DEF JudgeSane, NoStep
<1>9. TailsSane
  BY <1>1 DEF TailsSane
<1> QED BY <1>4, <1>6, <1>7, <1>8, <1>9 DEF IInv

(* A step by which the judge changes its work writes a verdict or no fact. *)
LEMMA NextOK ==
  ASSUME IInv, [Next]_vars
  PROVE  StepOK /\ (todo' # todo \/ step' # step => RecordsKept)
<1>1. CASE Ingest
  <2>1. \E r, c, named : Settle(c, r, named)
    BY <1>1, IngestCall
  <2>2. UNCHANGED judging
    BY <2>1 DEF Settle
  <2> QED BY <1>1, <2>2, IngestStep DEF judging
<1>2. ASSUME NEW t \in tails, SupersedeNamed(t)
      PROVE  StepOK /\ todo' = todo /\ step' = step
  <2>1. UNCHANGED judging
    BY <1>2 DEF SupersedeNamed, NamingReads, NamingCloses, NamingSkips, NamingPromotes, NamingRetries, NamingFails
  <2> QED BY <1>2, <2>1, NamedStep DEF judging
<1>3. ASSUME NEW i \in FactIds,
             RetractRead(i) \/ RetractWrite(i) \/ ReviveSupersededBy(i) \/ RetractDies(i)
      PROVE  StepOK /\ todo' = todo /\ step' = step
  <2>1. UNCHANGED judging
    BY <1>3 DEF RetractRead, RetractWrite, ReviveSupersededBy, RetractDies
  <2> QED BY <1>3, <2>1, RetractStep DEF judging
<1>4. ASSUME NEW i \in FactIds, TakeItem(i) \/ NothingToJudge(i)
      PROVE  StepOK /\ todo' = todo /\ step' = step
  <2>1. todo' = todo /\ step' = step
    BY <1>4 DEF TakeItem, NothingToJudge, judging
  <2> QED BY <1>4, <2>1, ItemStep
<1>5. CASE Judge \/ StaleAnswer \/ JudgeDies
  <2>1. facts' = facts
    BY <1>5 DEF Judge, StaleAnswer, JudgeDies
  <2> QED BY <1>5, <2>1, AnswerStep DEF RecordsKept
<1>6. ASSUME NEW x \in todo, WriteVerdict(x) \/ ReadBounds(x)
      PROVE  StepOK /\ RecordsKept
  BY <1>6, VerdictStep, SupersedeStep
<1>7. CASE CloseLoser \/ PromoteWinner
  BY <1>7, SupersedeStep
<1>8. CASE MarkChecked
  BY <1>8, CheckedStep DEF MarkChecked
<1>9. CASE UNCHANGED vars
  <2>1. facts' = facts /\ tails' = tails /\ retracts' = retracts /\ UNCHANGED judging
        /\ todo' = todo /\ step' = step
    BY <1>9 DEF vars, judging
  <2>2. /\ retracts' \in [FactIds -> {"idle", "read", "written"}] /\ \A t \in tails' : TailSane(t)
        /\ \A i \in FactIds : retracts'[i] # "idle" => i \in Present
    BY <2>1 DEF IInv, TypeOK, JudgeSane, TailsSane
  <2> QED BY <2>1, <2>2, TableStays, TableStep
<1> QED BY <1>1, <1>2, <1>3, <1>4, <1>5, <1>6, <1>7, <1>8, <1>9 DEF Next

(* What a step does to the facts that were there. *)
LEMMA StepRows ==
  ASSUME IInv, [Next]_vars, NEW i \in Present
  PROVE  RowOK(i, facts'[i])
<1>1. PICK n : n \notin Present /\ LegalBut(facts', n)
  BY NextOK DEF StepOK
<1> QED BY <1>1 DEF LegalBut, Present

(* The inductive invariant holds in every behaviour: settle_fact, the named *)
(* supersession, retract, revive and the judge keep the rows well typed,    *)
(* contiguous and ordered, and what the judge has yet to write names rows   *)
(* that exist, no fact of record as the loser, and no end before its start. *)
THEOREM InvariantHolds == Spec => []IInv
<1>1. Init => IInv
  BY InitOK
<1>2. IInv /\ [Next]_vars => IInv'
  BY NextOK DEF StepOK
<1> QED BY <1>1, <1>2, PTL DEF Spec

(* Every row of knowledge_fact keeps its shape, whatever settle_fact, the   *)
(* extractor's supersession, retract and revive, and the judge write.       *)
THEOREM TypeCorrect == Spec => []TypeOK
<1>1. IInv => TypeOK
  BY DEF IInv
<1> QED BY <1>1, InvariantHolds, PTL

(* No writer of validUntil leaves a fact that has started with an end       *)
(* before its start, and none leaves a priorValidUntil there for            *)
(* reviveSupersededBy to copy back, for any dates and any interleaving.     *)
THEOREM IntervalsOrderedCorrect == Spec => []IntervalsOrdered
<1>1. IInv => IntervalsOrdered
  BY DEF IInv
<1> QED BY <1>1, InvariantHolds, PTL

(* keepRecordSlots protects the facts of a system of record through every   *)
(* later write of the judge: what it holds against a record when it answers *)
(* stays lawful while ingests and retracts change the rows.                 *)
THEOREM RecordNotDemotedCorrect == Spec => RecordNotDemoted
<1>1. IInv /\ [Next]_vars =>
        [todo' # todo \/ step' # step
          => \A i \in FactIds : OfRecord(i) /\ IsOpen(i) => facts'[i].status \in {facts[i].status, "active"}]_vars
  BY NextOK DEF RecordsKept
<1> QED BY <1>1, InvariantHolds, PTL DEF Spec, RecordNotDemoted

(* Only the revive of a retract reopens a closed fact: settle_fact, the     *)
(* explicit supersession, the event competing_needs_a_rival and every       *)
(* verdict of the judge, however late, leave a closed fact closed.          *)
THEOREM OnlyReviveReopensCorrect == Spec => OnlyReviveReopens
<1>1. IInv /\ [Next]_vars =>
        [\A i \in FactIds :
           i \in Present /\ ~IsOpen(i) /\ IsOpen(i)'
             => /\ facts[i].status = "superseded"
                /\ facts[i].supersededBy # 0
                /\ retracts[facts[i].supersededBy] = "written"]_vars
  <2> SUFFICES ASSUME IInv, [Next]_vars, NEW i \in FactIds,
                      i \in Present, ~IsOpen(i), IsOpen(i)'
               PROVE  /\ facts[i].status = "superseded"
                      /\ facts[i].supersededBy # 0
                      /\ retracts[facts[i].supersededBy] = "written"
    OBVIOUS
  <2>1. RowOK(i, facts'[i])
    BY StepRows
  <2>2. OpenRow(facts'[i])
    BY DEF IsOpen, OpenRow
  <2> QED BY <2>1, <2>2 DEF RowOK
<1> QED BY <1>1, InvariantHolds, PTL DEF Spec, OnlyReviveReopens

-----------------------------------------------------------------------------
(* The writers as each other's rows see them.  No writer but a revive opens *)
(* a row, stretches an open one, or moves it to another slot, value or      *)
(* start; and a row that is open is not retracted.                          *)

OpenIsLive == \A i \in FactIds : facts[i].status \in Open => ~facts[i].retracted

LInv == IInv /\ OpenIsLive

Carried(i, q) ==
  /\ q \in FactRow
  /\ q.slot = facts[i].slot /\ q.object = facts[i].object /\ q.validFrom = facts[i].validFrom
  /\ facts[i].foes \subseteq q.foes
  /\ q.status \in Open => /\ facts[i].status \in Open /\ ~q.retracted
                          /\ q.validUntil <= facts[i].validUntil

(* A table in which every row but that of n is carried over. *)
CarriedBut(F, n) ==
  /\ F \in [FactIds -> FactRow]
  /\ \A i \in FactIds \ {n} : Carried(i, F[i])

LEMMA RowCarried ==
  ASSUME LInv, NEW i \in FactIds
  PROVE  Carried(i, facts[i])
<1>1. facts[i] \in FactRow /\ (facts[i].status \in Open => ~facts[i].retracted)
  BY DEF LInv, IInv, TypeOK, OpenIsLive
<1>2. facts[i].validUntil <= facts[i].validUntil
  BY <1>1, FactAssumption DEF FactRow, Ends, Forever
<1> QED BY <1>1, <1>2 DEF Carried

LEMMA FlipCarried ==
  ASSUME NEW i, NEW q, Carried(i, q), q.status \in Open, NEW s \in Open
  PROVE  Carried(i, [q EXCEPT !.status = s])
<1> DEFINE z == [q EXCEPT !.status = s]
<1>1. /\ z \in FactRow /\ z.status = s /\ z.slot = q.slot /\ z.object = q.object
      /\ z.validFrom = q.validFrom /\ z.foes = q.foes /\ z.retracted = q.retracted
      /\ z.validUntil = q.validUntil
  BY DEF Carried, FactRow, Statuses
<1> HIDE DEF z
<1>2. Carried(i, z)
  BY <1>1 DEF Carried
<1> QED BY <1>2 DEF z

LEMMA StoredCarried ==
  ASSUME NEW new, NEW n, CarriedBut(new, n)
  PROVE  CarriedBut(Stored(facts, new), n)
<1> DEFINE F == Stored(facts, new)
<1>1. /\ new \in [FactIds -> FactRow] /\ F \in [FactIds -> FactRow]
      /\ \A i \in FactIds : \/ F[i] = new[i]
                            \/ /\ new[i].status = "competing" /\ ~new[i].retracted
                               /\ F[i] = [new[i] EXCEPT !.status = "active"]
  BY StoredRow DEF CarriedBut
<1> HIDE DEF F
<1>2. ASSUME NEW i \in FactIds \ {n} PROVE Carried(i, F[i])
  <2>1. Carried(i, new[i])
    BY DEF CarriedBut
  <2>2. "active" \in Open /\ "competing" \in Open
    BY DEF Open
  <2> QED BY <1>1, <2>1, <2>2, FlipCarried
<1>3. CarriedBut(F, n)
  BY <1>1, <1>2 DEF CarriedBut
<1> QED BY <1>3 DEF F

(* One row is rewritten, or none. *)
LEMMA OneCarried ==
  ASSUME LInv, NEW i \in FactIds, NEW q, Carried(i, q), NEW n
  PROVE  CarriedBut([facts EXCEPT ![i] = q], n)
<1>1. facts \in [FactIds -> FactRow] /\ q \in FactRow
  BY DEF LInv, IInv, TypeOK, Carried
<1> DEFINE F == [facts EXCEPT ![i] = q]
<1>2. F \in [FactIds -> FactRow] /\ F[i] = q /\ \A k \in FactIds \ {i} : F[k] = facts[k]
  BY <1>1
<1> HIDE DEF F
<1>3. CarriedBut(F, n)
  BY <1>2, RowCarried DEF CarriedBut
<1> QED BY <1>3 DEF F

LEMMA SameCarried ==
  ASSUME LInv, NEW n
  PROVE  CarriedBut(facts, n)
  BY RowCarried DEF CarriedBut, LInv, IInv, TypeOK

(* settle_fact's and applyExplicitSupersession's close carries the row over. *)
LEMMA SupersededCarried ==
  ASSUME LInv, NEW i \in FactIds, NEW w \in FactIds, NEW e \in Ends
  PROVE  Carried(i, Superseded(facts[i], w, e))
<1>1. facts[i] \in FactRow
  BY DEF LInv, IInv, TypeOK
<1> DEFINE q == Superseded(facts[i], w, e)
<1>2. /\ q \in FactRow /\ q.status = "superseded" /\ q.slot = facts[i].slot
      /\ q.object = facts[i].object /\ q.validFrom = facts[i].validFrom /\ q.foes = facts[i].foes
  BY <1>1 DEF Superseded, FactRow, Statuses
<1> HIDE DEF q
<1>3. Carried(i, q)
  BY <1>2 DEF Carried, Open
<1> QED BY <1>3 DEF q

-----------------------------------------------------------------------------
(* What a table F leaves of the rivals: no fact that had one competes alone *)
(* unless a rival has become active.                                        *)
Settled(F, i) ==
  \/ HasRival(F, i)
  \/ \E g \in FactIds \ {i} : Rival(facts, g, i) /\ F[g].status = "active"

RivalsSettled(F) ==
  \A i \in FactIds :
    /\ facts[i].status = "competing" /\ HasRival(facts, i)
    /\ F[i].status = "competing" /\ ~F[i].retracted
    => Settled(F, i)

(* Rivalry depends on the slot and on who names whom, and only grows. *)
LEMMA RivalCarried ==
  ASSUME NEW F, NEW i \in FactIds, NEW g \in FactIds, Rival(facts, g, i),
         Carried(i, F[i]), Carried(g, F[g]), F[g].status = "competing"
  PROVE  Rival(F, g, i)
<1>1. ~F[g].retracted
  BY DEF Carried, Open
<1> QED BY <1>1 DEF Rival, Carried

(* The event, inside whichever write closes a competing row. *)
LEMMA EventSettles ==
  ASSUME LInv, NEW new, NEW n, CarriedBut(new, n), n \in FactIds => facts[n].status = "absent"
  PROVE  RivalsSettled(Stored(facts, new))
<1> DEFINE F == Stored(facts, new)
           fires == \E i \in FactIds : facts[i].status = "competing" /\ new[i].status \notin Open
           alone(i) == new[i].status = "competing" /\ ~new[i].retracted /\ ~HasRival(new, i)
<1>0. new \in [FactIds -> FactRow]
  BY DEF CarriedBut
<1> SUFFICES ASSUME NEW i \in FactIds, facts[i].status = "competing", HasRival(facts, i),
                    F[i].status = "competing", ~F[i].retracted
             PROVE  Settled(F, i)
  BY DEF RivalsSettled
<1>1. CASE fires
  <2>1. \A k \in FactIds : F[k] = IF alone(k) THEN [new[k] EXCEPT !.status = "active"] ELSE new[k]
    BY <1>1 DEF Stored
  <2>2. new[i] \in FactRow
    BY <1>0
  <2>3. ~alone(i)
    <3>1. alone(i) => F[i].status = "active"
      BY <2>1, <2>2 DEF FactRow
    <3> QED BY <3>1
  <2>4. F[i] = new[i] /\ HasRival(new, i)
    BY <2>1, <2>3
  <2>5. PICK g \in FactIds \ {i} : Rival(new, g, i)
    BY <2>4 DEF HasRival
  <2>6. Rival(new, i, g)
    BY <2>4, <2>5 DEF Rival
  <2>7. F[g] = new[g]
    BY <2>1, <2>5, <2>6 DEF HasRival
  <2> HIDE DEF F
  <2>8. Rival(F, g, i)
    BY <2>4, <2>5, <2>7 DEF Rival
  <2> QED BY <2>8 DEF Settled, HasRival
<1>2. CASE ~fires
  <2>1. F = new
    BY <1>2 DEF Stored
  <2>2. PICK g \in FactIds \ {i} : Rival(facts, g, i)
    BY DEF HasRival
  <2>3. facts[g].status = "competing" /\ g # n /\ i # n
    BY <2>2 DEF Rival
  <2>4. new[g].status \in Open /\ Carried(g, new[g]) /\ Carried(i, new[i])
    BY <1>2, <2>3 DEF CarriedBut
  <2> HIDE DEF F
  <2>5. CASE new[g].status = "competing"
    BY <2>1, <2>2, <2>4, <2>5, RivalCarried DEF Settled, HasRival
  <2>6. CASE new[g].status = "active"
    BY <2>1, <2>2, <2>6 DEF Settled
  <2> QED BY <2>4, <2>5, <2>6 DEF Open
<1> QED BY <1>1, <1>2

(* A write that closes no competing row: the event does not fire. *)
LEMMA QuietSettles ==
  ASSUME LInv, NEW new, NEW n, CarriedBut(new, n), n \in FactIds => facts[n].status = "absent",
         \A i \in FactIds : facts[i].status = "competing" => new[i].status \in Open
  PROVE  RivalsSettled(new)
<1>1. Stored(facts, new) = new
  BY DEF Stored
<1> QED BY <1>1, EventSettles

(* A competing winner that is made active after the event. *)
LEMMA PromotionSettles ==
  ASSUME LInv, NEW F, CarriedBut(F, 0), RivalsSettled(F), NEW w \in FactIds, F[w].status = "competing",
         \A k \in FactIds : F[k].status = "competing" => F[k] = facts[k]
  PROVE  LET G == [F EXCEPT ![w].status = "active"]
         IN  CarriedBut(G, 0) /\ RivalsSettled(G)
<1> DEFINE G == [F EXCEPT ![w].status = "active"]
           q == [F[w] EXCEPT !.status = "active"]
<1>0. F \in [FactIds -> FactRow] /\ F[w] \in FactRow /\ Carried(w, F[w]) /\ 0 \notin FactIds
  BY DEF CarriedBut, FactIds
<1>1. Carried(w, q) /\ q \in FactRow /\ q.status = "active"
  BY <1>0, FlipCarried DEF Open, Carried, FactRow
<1>2. G = [F EXCEPT ![w] = q]
  OBVIOUS
<1> HIDE DEF q
<1>3. G \in [FactIds -> FactRow] /\ G[w] = q /\ \A k \in FactIds \ {w} : G[k] = F[k]
  BY <1>0, <1>1, <1>2
<1> HIDE DEF G
<1>4. CarriedBut(G, 0)
  BY <1>0, <1>1, <1>3 DEF CarriedBut
<1>5. RivalsSettled(G)
  <2> SUFFICES ASSUME NEW i \in FactIds, facts[i].status = "competing", HasRival(facts, i),
                      G[i].status = "competing", ~G[i].retracted
               PROVE  Settled(G, i)
    BY DEF RivalsSettled
  <2>1. i # w /\ G[i] = F[i] /\ F[i] = facts[i]
    BY <1>1, <1>3
  <2>2. Settled(F, i)
    BY <2>1 DEF RivalsSettled
  <2>3. ASSUME NEW g \in FactIds \ {i}, Rival(F, g, i) PROVE Settled(G, i)
    <3>1. F[g].status = "competing" /\ F[g] = facts[g]
      BY <2>3 DEF Rival
    <3>2. CASE g = w
      <4>1. Rival(facts, w, i)
        BY <2>1, <2>3, <3>1, <3>2 DEF Rival
      <4> QED BY <1>1, <1>3, <3>2, <4>1 DEF Settled
    <3>3. CASE g # w
      <4>1. G[g] = F[g]
        BY <1>3, <3>3
      <4>2. Rival(G, g, i)
        BY <2>1, <2>3, <4>1 DEF Rival
      <4> QED BY <4>2 DEF Settled, HasRival
    <3> QED BY <3>2, <3>3
  <2>4. ASSUME NEW g \in FactIds \ {i}, Rival(facts, g, i), F[g].status = "active" PROVE Settled(G, i)
    <3>1. g # w /\ G[g] = F[g]
      BY <1>3, <2>4
    <3> QED BY <2>4, <3>1 DEF Settled
  <2> QED BY <2>2, <2>3, <2>4 DEF Settled, HasRival
<1> QED BY <1>4, <1>5 DEF G

-----------------------------------------------------------------------------
(* settle_fact: a fact that it leaves open has its slot decided.  Row k of  *)
(* the slot is closed if the fact replaces it, none starts later, and a     *)
(* same-day peer of an event competes.                                      *)
SlotDecided(c, n, r) ==
  facts'[n].status \in Open =>
    /\ facts'[n].slot = r.slot /\ facts'[n].object = r.object
    /\ facts'[n].validFrom = r.validFrom /\ facts'[n].validUntil = r.validUntil
    /\ \A k \in Slot(c, r) : facts'[k].status \in Open =>
         /\ c.semantics # "single_active"
         /\ k \notin Later(c, r) /\ k \notin Closed(c, r)
         /\ k \in Peers(c, r) => facts'[k].status = "competing"

(* The exception of OrphansSettled. *)
OrphansLeft ==
  \A i \in FactIds :
    /\ facts[i].status = "competing" /\ HasRival(facts, i)
    /\ facts'[i].status = "competing" /\ ~facts'[i].retracted
    => \/ Settled(facts', i)
       \/ \E n \in FactIds : DayPeer(i, n)

SettledWell(c, n, r) ==
  /\ CarriedBut(facts', n) /\ SlotDecided(c, n, r) /\ OrphansLeft
  /\ facts'[n].status \in Open => ~facts'[n].retracted

(* The incoming row is written and no other. *)
LEMMA AloneWell ==
  ASSUME NEW c, LInv, NEW r, NEW q \in FactRow, NEW n \in FactIds, facts[n].status = "absent",
         facts' = [facts EXCEPT ![n] = q],
         q.status \notin Open \/ (q = r /\ ~r.retracted /\ Later(c, r) = {} /\ Closed(c, r) = {} /\ Peers(c, r) = {}
                                  /\ (c.semantics = "single_active" => Slot(c, r) = {}))
  PROVE  SettledWell(c, n, r)
<1>0. facts \in [FactIds -> FactRow] /\ facts[n].status = "absent" /\ IInv
  BY DEF LInv, IInv, TypeOK, Present
<1>1. facts' \in [FactIds -> FactRow] /\ facts'[n] = q /\ \A k \in FactIds \ {n} : facts'[k] = facts[k]
  BY <1>0
<1>2. CarriedBut(facts', n)
  BY <1>1, RowCarried DEF CarriedBut
<1>3. \A i \in FactIds : facts[i].status = "competing" => facts'[i].status \in Open
  BY <1>0, <1>1 DEF Open
<1>4. RivalsSettled(facts')
  BY <1>0, <1>2, <1>3, QuietSettles
<1>5. OrphansLeft
  BY <1>4 DEF OrphansLeft, RivalsSettled
<1>6. SlotDecided(c, n, r)
  BY <1>1 DEF SlotDecided
<1> QED BY <1>1, <1>2, <1>5, <1>6 DEF SettledWell

LEMMA EndsHeldWell ==
  ASSUME NEW c, LInv, NEW r, ActiveRow(r), NEW n \in FactIds, facts[n].status = "absent", EndsHeld(n, r)
  PROVE  SettledWell(c, n, r)
<1>0. /\ facts \in [FactIds -> FactRow] /\ facts[n].status = "absent" /\ n \notin Present
      /\ r \in FactRow /\ NewRow(r) /\ IInv
  BY DEF LInv, IInv, TypeOK, Present, NewRow, ActiveRow
<1>1. PICK i \in Ended(r) :
        facts' = [facts EXCEPT ![i].validUntil = r.validUntil, ![n] = Corroborating(r)]
  BY DEF EndsHeld
<1>2. /\ i \in Present /\ i \in FactIds /\ facts[i] \in FactRow /\ i # n /\ facts[i].validUntil = Forever
      /\ IsOpen(i)
  BY <1>0, CandidateRows DEF Ended
<1> DEFINE q == [facts[i] EXCEPT !.validUntil = r.validUntil]
<1>3. /\ q \in FactRow /\ q.status = facts[i].status /\ q.slot = facts[i].slot
      /\ q.object = facts[i].object /\ q.validFrom = facts[i].validFrom /\ q.foes = facts[i].foes
      /\ q.retracted = facts[i].retracted /\ q.validUntil = r.validUntil
  BY <1>0, <1>2 DEF FactRow
<1>4. Corroborating(r) \in FactRow /\ Corroborating(r).status = "corroborating"
  BY <1>0 DEF Corroborating, FactRow, Statuses
<1>5. /\ facts' \in [FactIds -> FactRow] /\ facts'[i] = q /\ facts'[n] = Corroborating(r)
      /\ \A k \in FactIds \ {i, n} : facts'[k] = facts[k]
  BY <1>0, <1>1, <1>2, <1>3, <1>4
<1> HIDE DEF q
<1>6. Carried(i, q)
  <2>1. r.validUntil <= Forever
    BY <1>0, FactAssumption DEF FactRow, Ends, Forever
  <2> QED BY <1>2, <1>3, <2>1 DEF Carried, IsOpen
<1>7. CarriedBut(facts', n)
  BY <1>5, <1>6, RowCarried DEF CarriedBut
<1>8. \A k \in FactIds : facts[k].status = "competing" => facts'[k].status \in Open
  BY <1>0, <1>3, <1>5 DEF Open
<1>9. RivalsSettled(facts')
  BY <1>0, <1>7, <1>8, QuietSettles
<1> QED BY <1>4, <1>5, <1>7, <1>9 DEF SettledWell, SlotDecided, OrphansLeft, RivalsSettled, Open

(* Later, Closed and Peers of a slot. *)
LEMMA MomentType ==
  ASSUME NEW c, NEW q \in FactRow
  PROVE  Moment(c, q) \in Int
  BY DivFacts, FactAssumption DEF Moment, FactRow, Times

LEMMA SlotParts ==
  ASSUME NEW c, LInv, NEW r \in FactRow
  PROVE  /\ \A k \in Peers(c, r) : k \in FactIds /\ IsOpen(k) /\ k \notin Closed(c, r)
                                /\ (Later(c, r) = {} => Moment(c, facts[k]) = Moment(c, r))
                                /\ IsNear(c, facts[k].object, r.object)
                                /\ c.semantics = "bitemporal_event" /\ facts[k].slot = r.slot
         /\ Later(c, r) \subseteq Slot(c, r) /\ Closed(c, r) \subseteq Slot(c, r) /\ Peers(c, r) \subseteq Slot(c, r)
         /\ Slot(c, r) \subseteq FactIds
         /\ c.semantics = "single_active" => Closed(c, r) = Slot(c, r)
<1>1. IInv
  BY DEF LInv
<1>2. ASSUME NEW k \in Peers(c, r)
      PROVE  k \in FactIds /\ IsOpen(k) /\ k \notin Closed(c, r)
             /\ (Later(c, r) = {} => Moment(c, facts[k]) = Moment(c, r))
             /\ IsNear(c, facts[k].object, r.object)
             /\ c.semantics = "bitemporal_event" /\ facts[k].slot = r.slot
  <2>1. k \in Slot(c, r) /\ c.semantics = "bitemporal_event" /\ ~(Moment(c, facts[k]) < Moment(c, r))
    BY DEF Peers, Before
  <2>2. k \in Candidates(r) /\ k \in FactIds /\ facts[k] \in FactRow /\ IsOpen(k) /\ facts[k].slot = r.slot
    BY <1>1, <2>1, CandidateRows
  <2>3. Moment(c, facts[k]) \in Int /\ Moment(c, r) \in Int
    BY <2>2, MomentType
  <2>4. IsNear(c, facts[k].object, r.object)
    BY <2>1 DEF Slot
  <2>5. k \notin Closed(c, r)
    BY <2>1, <2>3 DEF Closed, Before
  <2>6. Later(c, r) = {} => ~(Moment(c, facts[k]) > Moment(c, r))
    BY <2>1 DEF Later, After
  <2> QED BY <2>1, <2>2, <2>3, <2>4, <2>5, <2>6
<1>3. Slot(c, r) \subseteq FactIds
  BY <1>1, CandidateRows
<1> QED BY <1>2, <1>3 DEF Later, Closed, Peers

LEMMA SharesDayWell ==
  ASSUME NEW c, LInv, NEW r, ActiveRow(r), NEW n \in FactIds, facts[n].status = "absent", SharesDay(c, n, r)
  PROVE  SettledWell(c, n, r)
<1>0. /\ facts \in [FactIds -> FactRow] /\ facts[n].status = "absent" /\ r \in FactRow /\ IInv
      /\ ~r.retracted /\ Later(c, r) = {} /\ Closed(c, r) = {} /\ Peers(c, r) # {}
  BY DEF LInv, IInv, TypeOK, Present, NewRow, ActiveRow, SharesDay
<1> DEFINE q == [r EXCEPT !.status = "competing", !.foes = Peers(c, r)]
<1>1. n \notin Peers(c, r) /\ Peers(c, r) \subseteq FactIds /\ \A k \in Peers(c, r) : IsOpen(k)
  BY <1>0, SlotParts DEF IsOpen, Open
<1>2. /\ q \in FactRow /\ q.status = "competing" /\ q.slot = r.slot /\ q.object = r.object
      /\ q.validFrom = r.validFrom /\ q.validUntil = r.validUntil /\ q.retracted = r.retracted
  BY <1>0, <1>1 DEF FactRow, Statuses, Open
<1>3. facts' = [i \in FactIds |-> IF i \in Peers(c, r) THEN [facts[i] EXCEPT !.status = "competing"]
                                  ELSE IF i = n THEN q ELSE facts[i]]
  BY DEF SharesDay
<1> HIDE DEF q
<1>4. ASSUME NEW k \in Peers(c, r)
      PROVE  /\ Carried(k, [facts[k] EXCEPT !.status = "competing"])
             /\ [facts[k] EXCEPT !.status = "competing"].status = "competing"
  <2>1. k \in FactIds /\ facts[k].status \in Open /\ facts[k] \in FactRow
    BY <1>0, <1>1 DEF IsOpen
  <2> QED BY <2>1, RowCarried, FlipCarried DEF Open, FactRow
<1>5. facts' \in [FactIds -> FactRow]
  BY <1>0, <1>2, <1>3, <1>4 DEF Carried
<1>6. facts'[n] = q /\ \A k \in Peers(c, r) : facts'[k].status = "competing"
  BY <1>1, <1>3, <1>4
<1>7. CarriedBut(facts', n)
  BY <1>3, <1>4, <1>5, RowCarried DEF CarriedBut
<1>8. \A k \in FactIds : facts[k].status = "competing" => facts'[k].status \in Open
  BY <1>0, <1>3, <1>6 DEF Open
<1>9. RivalsSettled(facts')
  BY <1>0, <1>7, <1>8, QuietSettles
<1>10. c.semantics # "single_active"
  BY <1>0, SlotParts
<1>11. SlotDecided(c, n, r)
  BY <1>0, <1>2, <1>6, <1>10 DEF SlotDecided
<1> QED BY <1>0, <1>2, <1>6, <1>7, <1>9, <1>11 DEF SettledWell, OrphansLeft, RivalsSettled

LEMMA SucceedsWell ==
  ASSUME NEW c, LInv, NEW r, ActiveRow(r), c \in Calls, c \in CallsOn(r.slot), NEW n \in FactIds, facts[n].status = "absent", Succeeds(c, n, r)
  PROVE  SettledWell(c, n, r)
<1>0. /\ facts \in [FactIds -> FactRow] /\ facts[n].status = "absent" /\ r \in FactRow /\ IInv
      /\ ~r.retracted /\ r.status = "active" /\ Later(c, r) = {} /\ Closed(c, r) # {}
      /\ r.validFrom \in Ends
  <2>1. r.validFrom \in Ends
    BY FactAssumption DEF ActiveRow, NewRow, FactRow, Times, Ends, Forever
  <2> QED BY <2>1 DEF LInv, IInv, TypeOK, Present, NewRow, ActiveRow, Succeeds
<1> DEFINE new == [i \in FactIds |-> IF i \in Closed(c, r) THEN Superseded(facts[i], n, r.validFrom)
                                     ELSE IF i = n THEN r ELSE facts[i]]
           closed == Stored(facts, new)
<1>1. /\ n \notin Peers(c, r) /\ n \notin Closed(c, r) /\ Closed(c, r) \subseteq FactIds
      /\ \A k \in Peers(c, r) : k \in FactIds /\ IsOpen(k) /\ k \notin Closed(c, r)
  <2>1. \A k \in Slot(c, r) : IsOpen(k)
    BY <1>0, CandidateRows
  <2> QED BY <1>0, <2>1, SlotParts DEF IsOpen, Open
<1>2. \A k \in Closed(c, r) : Carried(k, Superseded(facts[k], n, r.validFrom))
  BY <1>0, <1>1, SupersededCarried
<1>3. CarriedBut(new, n)
  <2>1. new \in [FactIds -> FactRow]
    BY <1>0, <1>2 DEF Carried
  <2> QED BY <1>2, <2>1, RowCarried DEF CarriedBut
<1>4. CarriedBut(closed, n) /\ RivalsSettled(closed)
  BY <1>0, <1>3, StoredCarried, EventSettles
<1>5. /\ new \in [FactIds -> FactRow] /\ new[n] = r
      /\ \A k \in Closed(c, r) : new[k].status = "superseded"
      /\ \A k \in Peers(c, r) : new[k] = facts[k]
  <2>1. \A k \in Closed(c, r) : Superseded(facts[k], n, r.validFrom).status = "superseded"
    BY <1>0, <1>1 DEF Superseded, FactRow
  <2> QED BY <1>1, <1>3, <2>1 DEF CarriedBut
<1> HIDE DEF new
<1>6. /\ closed \in [FactIds -> FactRow]
      /\ \A k \in FactIds : \/ closed[k] = new[k]
                            \/ /\ new[k].status = "competing" /\ ~new[k].retracted
                               /\ closed[k] = [new[k] EXCEPT !.status = "active"]
  BY <1>5, StoredRow
<1>7. facts' = [i \in FactIds |-> IF i \in Peers(c, r) THEN [closed[i] EXCEPT !.status = "competing"]
                                  ELSE closed[i]]
  BY DEF Succeeds, new
<1> HIDE DEF closed
<1>8. closed[n] = r /\ \A k \in Closed(c, r) : closed[k].status = "superseded"
  BY <1>0, <1>1, <1>5, <1>6
<1>9. ASSUME NEW k \in Peers(c, r)
      PROVE  /\ Carried(k, [closed[k] EXCEPT !.status = "competing"])
             /\ [closed[k] EXCEPT !.status = "competing"].status = "competing"
  <2>1. k \in FactIds /\ k # n /\ Carried(k, closed[k]) /\ closed[k] \in FactRow
    BY <1>1, <1>4 DEF CarriedBut
  <2>2. closed[k].status \in Open
    <3>1. new[k].status \in Open /\ new[k] \in FactRow
      BY <1>0, <1>1, <1>5 DEF IsOpen
    <3>2. closed[k] = new[k] \/ closed[k] = [new[k] EXCEPT !.status = "active"]
      BY <1>6, <2>1
    <3> QED BY <3>1, <3>2 DEF Open, FactRow
  <2> QED BY <2>1, <2>2, FlipCarried DEF Open, FactRow
<1>10. facts' \in [FactIds -> FactRow]
  BY <1>6, <1>7, <1>9 DEF Carried
<1>11. CarriedBut(facts', n)
  BY <1>4, <1>7, <1>9, <1>10 DEF CarriedBut
<1>12. /\ facts'[n] = r /\ \A k \in Peers(c, r) : facts'[k].status = "competing"
       /\ \A k \in FactIds \ Peers(c, r) : facts'[k] = closed[k]
       /\ \A k \in Closed(c, r) : facts'[k].status = "superseded"
  BY <1>1, <1>7, <1>8, <1>9
<1>13. SlotDecided(c, n, r)
  BY <1>0, <1>12, SlotParts DEF SlotDecided, Open
<1>14. OrphansLeft
  <2> SUFFICES ASSUME NEW i \in FactIds, facts[i].status = "competing", HasRival(facts, i),
                      facts'[i].status = "competing", ~facts'[i].retracted
               PROVE  \/ Settled(facts', i)
                      \/ \E m \in FactIds : DayPeer(i, m)
    BY DEF OrphansLeft
  <2>1. CASE i \in Peers(c, r)
    <3>1. EntersBy(n, c)
      <4>1. r = Incoming(r.slot, r.object, r.origin, r.validFrom, r.validUntil) /\ r.status \in Open
        BY DEF ActiveRow, Open
      <4>2. SettleFact(c, n, r)
        BY DEF SettleFact
      <4> QED BY <1>0, <1>12, <4>1, <4>2 DEF EntersBy
    <3>2. DayPeer(i, n)
      BY <1>0, <1>12, <2>1, <3>1, SlotParts DEF DayPeer
    <3> QED BY <3>2
  <2>2. CASE i \notin Peers(c, r)
    <3>0. facts'[i] = closed[i] /\ i # n
      BY <1>0, <1>12, <2>2
    <3>1. Settled(closed, i)
      BY <1>4, <3>0 DEF RivalsSettled
    <3>2. ASSUME NEW g \in FactIds \ {i}, Rival(closed, g, i) PROVE Settled(facts', i)
      <4>1. closed[g].status = "competing" /\ ~closed[g].retracted /\ closed[g] \in FactRow
        BY <1>6, <3>2 DEF Rival
      <4>2. /\ facts'[g].status = "competing" /\ ~facts'[g].retracted
            /\ facts'[g].slot = closed[g].slot /\ facts'[g].foes = closed[g].foes
        BY <1>7, <1>12, <4>1 DEF FactRow
      <4>3. Rival(facts', g, i)
        BY <3>0, <3>2, <4>2 DEF Rival
      <4> QED BY <4>3 DEF Settled, HasRival
    <3>3. ASSUME NEW g \in FactIds \ {i}, Rival(facts, g, i), closed[g].status = "active"
          PROVE  Settled(facts', i)
      <4>1. CASE g \notin Peers(c, r)
        BY <1>12, <3>3, <4>1 DEF Settled
      <4>2. CASE g \in Peers(c, r)
        <5>1. g # n /\ Carried(g, facts'[g]) /\ Carried(i, facts'[i]) /\ facts'[g].status = "competing"
          BY <1>1, <1>11, <1>12, <3>0, <4>2 DEF CarriedBut
        <5>2. Rival(facts', g, i)
          BY <3>3, <5>1, RivalCarried
        <5> QED BY <5>2 DEF Settled, HasRival
      <4> QED BY <4>1, <4>2
    <3> QED BY <3>1, <3>2, <3>3 DEF Settled, HasRival
  <2> QED BY <2>1, <2>2
<1> QED BY <1>0, <1>11, <1>12, <1>13, <1>14 DEF SettledWell

(* resolve, whatever settle_fact decides. *)
LEMMA SettleWell ==
  ASSUME NEW c, LInv, NEW r, ActiveRow(r), c \in Calls, c \in CallsOn(r.slot), NEW n \in FactIds, facts[n].status = "absent",
         SettleFact(c, n, r)
  PROVE  SettledWell(c, n, r)
<1>0. r \in FactRow /\ ~r.retracted /\ NewRow(r)
  BY DEF ActiveRow, NewRow
<1>1. CASE Confirms(c, n, r)
  <2>1. Corroborating(r) \in FactRow /\ Corroborating(r).status = "corroborating"
    BY <1>0 DEF Corroborating, FactRow, Statuses
  <2> QED BY <1>1, <2>1, AloneWell DEF Confirms, Open
<1>2. CASE OpensSlot(c, n, r)
  <2>1. Later(c, r) = {} /\ Closed(c, r) = {} /\ Peers(c, r) = {} /\ Slot(c, r) = {}
    BY <1>2 DEF OpensSlot, Later, Closed, Peers
  <2> QED BY <1>0, <1>2, <2>1, AloneWell DEF OpensSlot
<1>3. CASE GoesToHistory(c, n, r)
  <2>1. PICK i \in Later(c, r) : facts' = [facts EXCEPT ![n] = Superseded(r, i, facts[i].validFrom)]
    BY <1>3 DEF GoesToHistory
  <2>2. i \in FactIds /\ facts[i].validFrom \in Ends
    <3>1. i \in FactIds /\ facts[i] \in FactRow
      BY <1>0, SlotParts DEF LInv, IInv, TypeOK
    <3> QED BY <3>1, FactAssumption DEF FactRow, Times, Ends, Forever
  <2> DEFINE q == Superseded(r, i, facts[i].validFrom)
  <2>3. q \in FactRow /\ q.status = "superseded"
    BY <1>0, <2>2 DEF Superseded, FactRow, Statuses
  <2>4. facts' = [facts EXCEPT ![n] = q]
    BY <2>1
  <2> HIDE DEF q
  <2> QED BY <2>3, <2>4, AloneWell DEF Open
<1>4. CASE AwaitsJudgement(c, n, r)
  <2>1. /\ Later(c, r) = {} /\ Closed(c, r) = {} /\ Peers(c, r) = {} /\ Slot(c, r) # {}
        /\ facts' = [facts EXCEPT ![n] = r]
    BY <1>4 DEF AwaitsJudgement
  <2>2. c.semantics # "single_active"
    BY <1>0, <2>1, SlotParts
  <2> QED BY <1>0, <2>1, <2>2, AloneWell
<1> QED BY <1>1, <1>2, <1>3, <1>4, EndsHeldWell, SharesDayWell, SucceedsWell DEF SettleFact

(* Beside a fact just entered, no open row of its slot is left undecided. *)
LEMMA NoneUndecided ==
  ASSUME NEW c, LInv, NEW r \in FactRow, NEW n \in FactIds, facts[n].status = "absent",
         SettledWell(c, n, r), facts'[n].status \in Open, NEW k \in FactIds \ {n}
  PROVE  ~Undecided(c, k, n)
<1> SUFFICES ASSUME Undecided(c, k, n) PROVE FALSE
  OBVIOUS
<1> DEFINE s == r.slot
           o == facts[k]
           z == facts'[k]
           m == facts'[n]
<1>1. /\ m.slot = s /\ m.object = r.object /\ m.validFrom = r.validFrom /\ m.validUntil = r.validUntil
      /\ m \in FactRow
  BY DEF SettledWell, SlotDecided, CarriedBut
<1>2. /\ z.slot = o.slot /\ z.object = o.object /\ z.validFrom = o.validFrom /\ z \in FactRow
      /\ o.status \in Open /\ z.validUntil <= o.validUntil /\ o \in FactRow /\ ~o.retracted
  BY DEF Undecided, SettledWell, CarriedBut, Carried, LInv, IInv, TypeOK, OpenIsLive
<1>3. z.status \in Open /\ z.slot = s /\ Overlap(z, m)
  BY <1>1 DEF Undecided
<1>4. /\ z.validFrom < r.validUntil /\ r.validFrom < z.validUntil
  BY <1>1, <1>3 DEF Overlap
<1>5. r.validFrom \in Int /\ z.validUntil \in Int /\ o.validUntil \in Int
  BY <1>2, FactAssumption DEF FactRow, Times, Ends, Forever
<1>6. Overlap(o, r)
  BY <1>2, <1>4, <1>5 DEF Overlap
<1>7. k \in Candidates(r)
  BY <1>2, <1>3 DEF Candidates, IsOpen
<1>8. Moment(c, z) = Moment(c, o) /\ Moment(c, m) = Moment(c, r)
  BY <1>1, <1>2 DEF Moment
<1>9. Moment(c, o) \in Int /\ Moment(c, r) \in Int
  BY <1>2, MomentType
<1>10. k \in Slot(c, r) => /\ c.semantics # "single_active" /\ k \notin Later(c, r) /\ k \notin Closed(c, r)
                        /\ (k \in Peers(c, r) => z.status = "competing")
  BY <1>3 DEF SettledWell, SlotDecided
<1> HIDE DEF o, z, m, s
<1>11. CASE c.semantics = "single_active"
  <2>1. k \in Slot(c, r)
    BY <1>6, <1>7, <1>11 DEF Slot, s, o
  <2> QED BY <1>10, <1>11, <2>1
<1>12. CASE c.semantics = "bitemporal"
  <2>1. IsNear(c, o.object, r.object) /\ o.validFrom # r.validFrom
    BY <1>1, <1>2, <1>12 DEF Undecided, m, z
  <2>2. k \in Slot(c, r)
    BY <1>6, <1>7, <1>12, <2>1 DEF Slot, s, o
  <2>3. Moment(c, o) = o.validFrom /\ Moment(c, r) = r.validFrom
    BY <1>2, <1>3, <1>12 DEF Moment, s
  <2>4. Moment(c, o) > Moment(c, r) \/ Moment(c, o) < Moment(c, r)
    BY <1>9, <2>1, <2>3
  <2>5. k \in Later(c, r) \/ k \in Closed(c, r)
    BY <2>2, <2>4 DEF Later, Closed, Before, After, o
  <2> QED BY <1>10, <2>2, <2>5
<1>13. CASE c.semantics = "bitemporal_event"
  <2>1. IsNear(c, o.object, r.object) /\ (Moment(c, z) # Moment(c, m) \/ z.status # "competing")
    BY <1>1, <1>2, <1>13 DEF Undecided, m, z
  <2>2. k \in Slot(c, r)
    BY <1>6, <1>7, <1>13, <2>1 DEF Slot, s, o
  <2>3. ~(Moment(c, o) > Moment(c, r)) /\ ~(Moment(c, o) < Moment(c, r))
    BY <1>10, <2>2 DEF Later, Closed, Before, After, o
  <2>4. Moment(c, o) = Moment(c, r)
    BY <1>9, <2>3
  <2>5. k \in Peers(c, r)
    BY <1>9, <1>13, <2>2, <2>4 DEF Peers, Before, o
  <2> QED BY <1>8, <1>10, <2>1, <2>2, <2>4, <2>5
<1>14. c.semantics \in {"single_active", "bitemporal", "bitemporal_event"}
  BY <1>1 DEF Undecided, m
<1> QED BY <1>11, <1>12, <1>13, <1>14

-----------------------------------------------------------------------------
(* What every step but a revive does. *)
StepWell ==
  /\ OrphansLeft
  /\ \/ CarriedBut(facts', 0)
     \/ \E n \in FactIds, c \in Calls :
          /\ facts[n].status = "absent" /\ CarriedBut(facts', n)
          /\ facts'[n].status \in Open =>
               /\ ~facts'[n].retracted
               /\ c \in CallsOn(facts'[n].slot)
               /\ \A k \in FactIds \ {n} : ~Undecided(c, k, n)

(* A write that enters no fact. *)
LEMMA WriteWell ==
  ASSUME LInv, NEW new, CarriedBut(new, 0), facts' = Stored(facts, new)
  PROVE  StepWell
<1>1. 0 \notin FactIds
  BY DEF FactIds
<1>2. CarriedBut(facts', 0) /\ RivalsSettled(facts')
  BY <1>1, StoredCarried, EventSettles
<1> QED BY <1>2 DEF StepWell, OrphansLeft, RivalsSettled

LEMMA QuietWell ==
  ASSUME LInv, CarriedBut(facts', 0),
         \A i \in FactIds : facts[i].status = "competing" => facts'[i].status \in Open
  PROVE  StepWell
<1>1. Stored(facts, facts') = facts'
  BY DEF Stored
<1> QED BY <1>1, WriteWell

LEMMA SameWell ==
  ASSUME LInv, facts' = facts
  PROVE  StepWell
  BY SameCarried, QuietWell DEF Open

LEMMA IngestWell ==
  ASSUME LInv, Ingest
  PROVE  StepWell
<1>1. PICK r, c, named : /\ ActiveRow(r) /\ c \in CallsOn(r.slot) /\ c \in Calls /\ Settle(c, r, named)
  BY IngestCall
<1>2. PICK m \in FactIds : m = Cardinality(Present) + 1 /\ SettleFact(c, m, r)
  BY <1>1 DEF Settle
<1>3. facts[m].status = "absent" /\ r \in FactRow
  BY <1>1, <1>2, FreshNumber DEF LInv, ActiveRow, NewRow
<1>4. SettledWell(c, m, r)
  BY <1>1, <1>2, <1>3, SettleWell
<1>5. facts'[m].status \in Open => \A k \in FactIds \ {m} : ~Undecided(c, k, m)
  BY <1>3, <1>4, NoneUndecided
<1> QED BY <1>1, <1>3, <1>4, <1>5 DEF SettledWell, SlotDecided, StepWell

(* A competing row that is declared the winner. *)
LEMMA PromotedWell ==
  ASSUME LInv, NEW w \in FactIds,
         facts' = IF facts[w].status = "competing" THEN [facts EXCEPT ![w].status = "active"] ELSE facts
  PROVE  StepWell
<1>1. CarriedBut(facts, 0) /\ RivalsSettled(facts)
  <2>1. 0 \notin FactIds
    BY DEF FactIds
  <2> QED BY <2>1, SameCarried, QuietSettles DEF Open
<1>2. CASE facts[w].status = "competing"
  <2>1. facts' = [facts EXCEPT ![w].status = "active"]
    BY <1>2
  <2>2. CarriedBut(facts', 0) /\ RivalsSettled(facts')
    BY <1>1, <1>2, <2>1, PromotionSettles
  <2> QED BY <2>2 DEF StepWell, OrphansLeft, RivalsSettled
<1>3. CASE facts[w].status # "competing"
  BY <1>3, SameWell
<1> QED BY <1>2, <1>3

LEMMA NamedWell ==
  ASSUME LInv, NEW t \in tails, SupersedeNamed(t)
  PROVE  StepWell
<1>0. IInv /\ t.winner \in FactIds
  BY DEF LInv, IInv, TypeOK, Naming
<1>1. ASSUME NEW l \in t.losers, NamingCloses(t, l) PROVE StepWell
  <2>1. /\ l.id \in FactIds /\ NamedRow(t, l) \in FactRow
        /\ NamedRow(t, l).status = "superseded" /\ NamedRow(t, l).slot = facts[l.id].slot
        /\ NamedRow(t, l).object = facts[l.id].object /\ NamedRow(t, l).foes = facts[l.id].foes
        /\ NamedRow(t, l).validFrom = facts[l.id].validFrom
    BY <1>0, NamedRowOK DEF RowOK
  <2>2. Carried(l.id, NamedRow(t, l))
    BY <2>1 DEF Carried, Open
  <2>3. facts' = Stored(facts, [facts EXCEPT ![l.id] = NamedRow(t, l)])
    BY <1>1 DEF NamingCloses, NamedRow
  <2> QED BY <2>1, <2>2, <2>3, OneCarried, WriteWell
<1>2. CASE NamingPromotes(t)
  BY <1>0, <1>2, PromotedWell DEF NamingPromotes
<1>3. CASE NamingReads(t) \/ NamingSkips(t) \/ NamingRetries(t) \/ NamingFails(t)
  BY <1>3, SameWell DEF NamingReads, NamingSkips, NamingRetries, NamingFails
<1> QED BY <1>1, <1>2, <1>3 DEF SupersedeNamed

LEMMA RetractWell ==
  ASSUME LInv, NEW i \in FactIds, RetractWrite(i)
  PROVE  StepWell
<1> DEFINE q == [facts[i] EXCEPT !.status = "retracted", !.retracted = TRUE, !.reason = "operator",
                                 !.validUntil = Now]
<1>1. Now \in Ends /\ facts[i] \in FactRow
  BY FactAssumption DEF LInv, IInv, TypeOK, Ends, Forever
<1>2. /\ q \in FactRow /\ q.status = "retracted" /\ q.validFrom = facts[i].validFrom
      /\ q.slot = facts[i].slot /\ q.object = facts[i].object /\ q.foes = facts[i].foes
  BY <1>1 DEF FactRow, Statuses
<1>3. facts' = Stored(facts, [facts EXCEPT ![i] = q])
  BY DEF RetractWrite
<1> HIDE DEF q
<1>4. Carried(i, q)
  BY <1>2 DEF Carried, Open
<1> QED BY <1>3, <1>4, OneCarried, WriteWell

(* An open row that is marked, or checked. *)
LEMMA MarkedWell ==
  ASSUME LInv, NEW i \in FactIds, facts' = [facts EXCEPT ![i].checked = TRUE]
  PROVE  StepWell
<1> DEFINE q == [facts[i] EXCEPT !.checked = TRUE]
<1>1. facts[i] \in FactRow /\ facts \in [FactIds -> FactRow] /\ Carried(i, facts[i])
  BY RowCarried DEF LInv, IInv, TypeOK
<1>2. /\ q \in FactRow /\ q.status = facts[i].status /\ q.validFrom = facts[i].validFrom
      /\ q.slot = facts[i].slot /\ q.object = facts[i].object /\ q.foes = facts[i].foes
      /\ q.validUntil = facts[i].validUntil /\ q.retracted = facts[i].retracted
  BY <1>1 DEF FactRow
<1>3. facts' = [facts EXCEPT ![i] = q]
  OBVIOUS
<1> HIDE DEF q
<1>4. Carried(i, q)
  BY <1>1, <1>2 DEF Carried
<1>5. /\ facts' \in [FactIds -> FactRow] /\ facts'[i] = q
      /\ \A k \in FactIds \ {i} : facts'[k] = facts[k]
  BY <1>1, <1>2, <1>3
<1>6. CarriedBut(facts', 0)
  BY <1>4, <1>5, RowCarried DEF CarriedBut
<1>7. \A k \in FactIds : facts[k].status = "competing" => facts'[k].status \in Open
  BY <1>2, <1>5 DEF Open
<1> QED BY <1>6, <1>7, QuietWell

LEMMA CompetingCarried ==
  ASSUME LInv, NEW i \in FactIds, IsOpen(i), NEW S \in SUBSET FactIds, facts[i].foes \subseteq S
  PROVE  /\ Carried(i, [facts[i] EXCEPT !.status = "competing", !.foes = S])
         /\ [facts[i] EXCEPT !.status = "competing", !.foes = S].status = "competing"
<1>0. facts[i] \in FactRow /\ Carried(i, facts[i])
  BY RowCarried DEF LInv, IInv, TypeOK
<1> DEFINE q == [facts[i] EXCEPT !.status = "competing", !.foes = S]
<1>1. /\ q \in FactRow /\ q.status = "competing" /\ q.validFrom = facts[i].validFrom
      /\ q.slot = facts[i].slot /\ q.object = facts[i].object /\ q.foes = S
      /\ q.validUntil = facts[i].validUntil /\ q.retracted = facts[i].retracted
  BY <1>0 DEF FactRow, Statuses, Open
<1> HIDE DEF q
<1>2. Carried(i, q)
  BY <1>0, <1>1 DEF Carried, IsOpen
<1> QED BY <1>1, <1>2 DEF q

LEMMA VerdictWell ==
  ASSUME LInv, NEW x \in todo, WriteVerdict(x)
  PROVE  StepWell
<1>0. /\ facts \in [FactIds -> FactRow] /\ IInv
  BY DEF LInv, IInv, TypeOK
<1>1. x.a \in FactIds /\ x.b \in FactIds /\ x.a # x.b /\ 0 \notin FactIds
  BY <1>0, JudgeHolds DEF Lawful, Present, FactIds
<1>3. CASE facts' = facts
  BY <1>3, SameWell
<1>4. CASE x.kind = "corroborate" /\ facts' = Stored(facts, [facts EXCEPT ![x.a].status = "corroborating"])
  <2> DEFINE q == [facts[x.a] EXCEPT !.status = "corroborating"]
  <2>1. facts[x.a] \in FactRow
    BY <1>0, <1>1
  <2>2. /\ q \in FactRow /\ q.status = "corroborating" /\ q.validFrom = facts[x.a].validFrom
        /\ q.slot = facts[x.a].slot /\ q.object = facts[x.a].object /\ q.foes = facts[x.a].foes
    BY <2>1 DEF FactRow, Statuses
  <2>3. facts' = Stored(facts, [facts EXCEPT ![x.a] = q])
    BY <1>4
  <2> HIDE DEF q
  <2>4. Carried(x.a, q)
    BY <2>2 DEF Carried, Open
  <2> QED BY <1>1, <2>3, <2>4, OneCarried, WriteWell
<1>5. CASE x.kind = "compete" /\ IsOpen(x.a) /\ IsOpen(x.b) /\ facts' = Compete(x.a, x.b)
  <2> DEFINE q == [facts[x.a] EXCEPT !.status = "competing", !.foes = facts[x.a].foes \cup {x.b}]
             s == [facts[x.b] EXCEPT !.status = "competing", !.foes = facts[x.b].foes \cup {x.a}]
  <2>1. facts[x.a].foes \cup {x.b} \in SUBSET FactIds /\ facts[x.b].foes \cup {x.a} \in SUBSET FactIds
    BY <1>0, <1>1 DEF FactRow
  <2>2. Carried(x.a, q) /\ Carried(x.b, s) /\ q.status = "competing" /\ s.status = "competing"
    BY <1>1, <1>5, <2>1, CompetingCarried
  <2>3. /\ facts'[x.a] = q /\ facts'[x.b] = s /\ DOMAIN facts' = FactIds
        /\ \A k \in FactIds \ {x.a, x.b} : facts'[k] = facts[k]
        /\ facts' = [k \in FactIds |-> facts'[k]]
    BY <1>0, <1>1, <1>5 DEF Compete
  <2> HIDE DEF q, s
  <2>4. facts' \in [FactIds -> FactRow]
    <3>1. \A k \in FactIds : facts'[k] \in FactRow
      BY <1>0, <2>2, <2>3 DEF Carried
    <3> QED BY <2>3, <3>1
  <2>5. CarriedBut(facts', 0)
    BY <1>0, <1>1, <2>2, <2>3, <2>4, RowCarried DEF CarriedBut
  <2>6. \A k \in FactIds : facts[k].status = "competing" => facts'[k].status \in Open
    BY <2>2, <2>3 DEF Open
  <2> QED BY <2>5, <2>6, QuietWell
<1>6. CASE x.kind = "dispute" /\ IsOpen(x.a) /\ facts' = [facts EXCEPT ![x.a].status = "competing", ![x.a].foes = @ \cup {x.b}]
  <2> DEFINE q == [facts[x.a] EXCEPT !.status = "competing", !.foes = facts[x.a].foes \cup {x.b}]
  <2>1. facts[x.a].foes \cup {x.b} \in SUBSET FactIds
    BY <1>0, <1>1 DEF FactRow
  <2>2. Carried(x.a, q) /\ q.status = "competing"
    BY <1>1, <1>6, <2>1, CompetingCarried
  <2>3. facts' = [facts EXCEPT ![x.a] = q]
    BY <1>0, <1>1, <1>6
  <2> HIDE DEF q
  <2>4. \A k \in FactIds : facts[k].status = "competing" => facts'[k].status \in Open
    BY <1>0, <1>1, <2>2, <2>3 DEF Open
  <2> QED BY <1>1, <2>2, <2>3, <2>4, OneCarried, QuietWell
<1> QED BY <1>3, <1>4, <1>5, <1>6 DEF WriteVerdict, Compete, Dispute

LEMMA SupersedeWell ==
  ASSUME LInv, CloseLoser \/ PromoteWinner
  PROVE  StepWell
<1>0. /\ facts \in [FactIds -> FactRow] /\ IInv /\ 0 \notin FactIds
  BY DEF LInv, IInv, TypeOK, FactIds
<1>1. CASE CloseLoser
  <2>1. step \in StepType /\ step.loser \in FactIds /\ step.winner \in FactIds /\ step.prior \in Ends
    BY <1>0, <1>1, JudgeHolds DEF CloseLoser, WorkSane, NoStep, StepType
  <2> DEFINE l == facts[step.loser]
             e == CloseAt(step.loser, step.winner)
             p == IF step.prior = Forever THEN l.priorValidUntil ELSE step.prior
             q == [l EXCEPT !.status = "superseded", !.reason = "superseded",
                            !.supersededBy = step.winner, !.priorValidUntil = p, !.validUntil = e]
  <2>2. l \in FactRow /\ facts[step.winner] \in FactRow
    BY <1>0, <2>1
  <2>3. e \in Ends /\ p \in Ends
    BY <2>1, <2>2, FactAssumption DEF CloseAt, FactRow, Times, Ends, Forever
  <2>4. facts' = Stored(facts, [facts EXCEPT ![step.loser] = q])
    <3> DEFINE new == [facts EXCEPT ![step.loser] =
                        [@ EXCEPT !.status = "superseded", !.reason = "superseded",
                                  !.supersededBy = step.winner,
                                  !.priorValidUntil = p,
                                  !.validUntil = CloseAt(step.loser, step.winner)]]
    <3>1. facts' = Stored(facts, new)
      BY <1>1 DEF CloseLoser
    <3> HIDE DEF p
    <3>2. new = [facts EXCEPT ![step.loser] = q]
      OBVIOUS
    <3> QED BY <3>1, <3>2
  <2> HIDE DEF e, p
  <2>5. /\ q \in FactRow /\ q.status = "superseded" /\ q.validFrom = l.validFrom
        /\ q.slot = l.slot /\ q.object = l.object /\ q.foes = l.foes
    BY <2>1, <2>2, <2>3 DEF FactRow, Statuses
  <2> HIDE DEF q
  <2>6. Carried(step.loser, q)
    BY <2>5 DEF Carried, Open
  <2> QED BY <2>1, <2>4, <2>6, OneCarried, WriteWell
<1>2. CASE PromoteWinner
  <2>1. step.winner \in FactIds
    BY <1>0, <1>2, JudgeHolds DEF PromoteWinner, WorkSane, NoStep, Present
  <2> QED BY <1>2, <2>1, PromotedWell DEF PromoteWinner
<1> QED BY <1>1, <1>2

(* A revive touches closed rows only, so the rivals stay as they were. *)
LEMMA ReviveSettles ==
  ASSUME LInv, NEW i \in FactIds, ReviveSupersededBy(i)
  PROVE  /\ OrphansLeft /\ OpenIsLive'
         /\ \A k \in FactIds : facts[k].status = "absent" => facts'[k] = facts[k]
<1>0. facts \in [FactIds -> FactRow] /\ OpenIsLive
  BY DEF LInv, IInv, TypeOK
<1>1. \A k \in FactIds : \/ facts'[k] = facts[k]
                         \/ facts[k].status = "superseded" /\ facts'[k] = Revived(facts[k])
  BY DEF ReviveSupersededBy
<1>2. \A k \in FactIds : ~Revived(facts[k]).retracted /\ Revived(facts[k]).status = "active"
  BY <1>0 DEF Revived, FactRow
<1>3. OpenIsLive'
  BY <1>0, <1>1, <1>2 DEF OpenIsLive
<1>4. \A k \in FactIds : facts[k].status = "absent" => facts'[k] = facts[k]
  BY <1>1
<1>5. OrphansLeft
  <2> SUFFICES ASSUME NEW k \in FactIds, facts[k].status = "competing", HasRival(facts, k)
               PROVE  Settled(facts', k)
    BY DEF OrphansLeft
  <2>1. PICK g \in FactIds \ {k} : Rival(facts, g, k)
    BY DEF HasRival
  <2>2. facts'[k] = facts[k] /\ facts'[g] = facts[g]
    BY <1>1, <2>1 DEF Rival
  <2>3. Rival(facts', g, k)
    BY <2>1, <2>2 DEF Rival
  <2> QED BY <2>3 DEF Settled, HasRival
<1> QED BY <1>3, <1>4, <1>5

LEMMA NextWell ==
  ASSUME LInv, [Next]_vars
  PROVE  StepWell \/ \E i \in FactIds : ReviveSupersededBy(i)
<1>0. IInv
  BY DEF LInv
<1>1. ASSUME NEW t \in tails, SupersedeNamed(t) PROVE StepWell
  BY <1>1, NamedWell
<1>2. ASSUME NEW i \in FactIds,
             RetractRead(i) \/ RetractWrite(i) \/ RetractDies(i) \/ TakeItem(i) \/ NothingToJudge(i)
      PROVE  StepWell
  <2>1. RetractRead(i) \/ RetractDies(i) \/ TakeItem(i) => facts' = facts
    BY DEF RetractRead, RetractDies, TakeItem
  <2>2. NothingToJudge(i) => facts' = [facts EXCEPT ![i].checked = TRUE]
    BY DEF NothingToJudge
  <2> QED BY <1>2, <2>1, <2>2, RetractWell, MarkedWell, SameWell
<1>3. ASSUME NEW x \in todo, WriteVerdict(x) \/ ReadBounds(x) PROVE StepWell
  BY <1>3, VerdictWell, SameWell DEF ReadBounds
<1>4. CASE Judge \/ StaleAnswer \/ JudgeDies \/ UNCHANGED vars
  BY <1>4, SameWell DEF Judge, StaleAnswer, JudgeDies, vars
<1>5. CASE MarkChecked
  <2>1. asked.fact \in FactIds
    BY <1>0, <1>5, JudgeHolds DEF MarkChecked, ItemSane, NoItem, Present
  <2> QED BY <1>5, <2>1, MarkedWell DEF MarkChecked
<1> QED BY <1>1, <1>2, <1>3, <1>4, <1>5, IngestWell, SupersedeWell DEF Next

LEMMA StepLive ==
  ASSUME LInv, StepWell
  PROVE  OpenIsLive'
<1>1. PICK n : CarriedBut(facts', n) /\ (n \in FactIds /\ facts'[n].status \in Open => ~facts'[n].retracted)
  <2>1. 0 \notin FactIds
    BY DEF FactIds
  <2> QED BY <2>1 DEF StepWell
<1>2. ASSUME NEW i \in FactIds, facts'[i].status \in Open PROVE ~facts'[i].retracted
  BY <1>1, <1>2 DEF CarriedBut, Carried
<1> QED BY <1>2 DEF OpenIsLive

(* An open row is not retracted, whatever the judge, the extractor and the  *)
(* operator write to it in whatever order: retract's merge sets retractedAt *)
(* and the status in one write, and no later write opens the row without    *)
(* clearing it.                                                             *)
THEOREM LiveHolds == Spec => []LInv
<1>1. Init => OpenIsLive
  <2>1. Absent.status \notin Open
    BY DEF Absent, Open
  <2> HIDE DEF Absent
  <2> QED BY <2>1 DEF Init, OpenIsLive
<1>2. LInv /\ [Next]_vars => LInv'
  <2>1. LInv /\ [Next]_vars => IInv'
    BY NextOK DEF LInv, StepOK
  <2>2. LInv /\ [Next]_vars => OpenIsLive'
    BY NextWell, StepLive, ReviveSettles
  <2> QED BY <2>1, <2>2 DEF LInv
<1>3. Init => LInv
  BY <1>1, InitOK DEF LInv
<1> QED BY <1>2, <1>3, PTL DEF Spec

(* settle_fact decides the slot of the fact it leaves open against every    *)
(* open row of the pool, disputed ones included, for any semantics, dates,  *)
(* nearness of values and day length: Later, Closed and Peers leave no near *)
(* overlapping row out but one of the same moment, which waits for the      *)
(* judge or competes.                                                       *)
THEOREM SettleDecidesCorrect == Spec => SettleDecides
<1>1. LInv /\ [Next]_vars =>
        [\A i \in FactIds, c \in Calls :
           EntersBy(i, c) => ~\E k \in FactIds \ {i} : Undecided(c, k, i)]_vars
  <2> SUFFICES ASSUME LInv, [Next]_vars, NEW i \in FactIds, NEW c \in Calls, EntersBy(i, c),
                      NEW k \in FactIds \ {i}
               PROVE  ~Undecided(c, k, i)
    OBVIOUS
  <2> DEFINE q == facts'[i]
             r == Incoming(q.slot, q.object, q.origin, q.validFrom, q.validUntil)
  <2>1. /\ facts[i].status = "absent" /\ q.status \in Open /\ c \in CallsOn(q.slot)
        /\ SettleFact(c, i, r)
    BY DEF EntersBy
  <2>2. IInv'
    BY NextOK DEF LInv, StepOK
  <2>3. q \in FactRow /\ (q.validFrom <= Now => q.validFrom <= q.validUntil)
    BY <2>2 DEF IInv, TypeOK, IntervalsOrdered, Ordered
  <2>4. ActiveRow(r) /\ r.slot = q.slot /\ r \in FactRow
    <3>1. /\ q.slot \in Slots /\ q.object \in Values /\ q.origin \in Origins
          /\ q.validFrom \in Times /\ q.validUntil \in Ends
      BY <2>3 DEF FactRow
    <3> QED BY <2>3, <3>1, IncomingRow DEF ActiveRow, NewRow
  <2> HIDE DEF r
  <2>5. SettledWell(c, i, r)
    BY <2>1, <2>4, SettleWell
  <2> QED BY <2>1, <2>4, <2>5, NoneUndecided
<1> QED BY <1>1, LiveHolds, PTL DEF Spec, SettleDecides

(* competing_needs_a_rival: no write, of whichever writer, that closes a    *)
(* competing fact leaves another competing alone, for any number of facts   *)
(* and any conflict traces, with the two exceptions the code has: the rival *)
(* was declared the winner, or settle_fact flips the same-day peer of the   *)
(* fact it enters.                                                          *)
THEOREM OrphansSettledCorrect == Spec => OrphansSettled
<1>1. LInv /\ [Next]_vars =>
        [\A i \in FactIds :
           /\ facts[i].status = "competing" /\ HasRival(facts, i)
           /\ facts'[i].status = "competing" /\ IsOpen(i)'
           => \/ HasRival(facts', i)
              \/ \E g \in FactIds \ {i} : Rival(facts, g, i) /\ facts'[g].status = "active"
              \/ \E n \in FactIds : DayPeer(i, n)]_vars
  <2> SUFFICES ASSUME LInv, [Next]_vars, NEW i \in FactIds,
                      facts[i].status = "competing", HasRival(facts, i),
                      facts'[i].status = "competing", IsOpen(i)'
               PROVE  \/ HasRival(facts', i)
                      \/ \E g \in FactIds \ {i} : Rival(facts, g, i) /\ facts'[g].status = "active"
                      \/ \E n \in FactIds : DayPeer(i, n)
    OBVIOUS
  <2>1. OrphansLeft
    BY NextWell, ReviveSettles DEF StepWell
  <2>2. ~facts'[i].retracted
    BY DEF IsOpen
  <2> QED BY <2>1, <2>2 DEF OrphansLeft, Settled
<1> QED BY <1>1, LiveHolds, PTL DEF Spec, OrphansSettled

-----------------------------------------------------------------------------
(* An exclusive slot holds one value at a time until a revive brings        *)
(* another one back.                                                        *)
LEMMA SingleStep ==
  ASSUME LInv, StepWell, SingleActive
  PROVE  SingleActive'
<1> SUFFICES ASSUME NEW i \in FactIds, NEW k \in FactIds, i # k,
                    facts'[i].status \in Open, ~facts'[i].retracted,
                    facts'[k].status \in Open, ~facts'[k].retracted,
                    facts'[i].slot = facts'[k].slot, Exclusive(facts'[i].slot),
                    Overlap(facts'[i], facts'[k])
             PROVE  FALSE
  BY DEF SingleActive, IsOpen, Overlap
<1>1. PICK n, c : /\ CarriedBut(facts', n)
                  /\ n \in FactIds /\ facts'[n].status \in Open =>
                       /\ c \in CallsOn(facts'[n].slot)
                       /\ \A m \in FactIds \ {n} : ~Undecided(c, m, n)
  <2>1. 0 \notin FactIds
    BY DEF FactIds
  <2> QED BY <2>1 DEF StepWell
<1>2. CASE i # n /\ k # n
  <2>1. Carried(i, facts'[i]) /\ Carried(k, facts'[k])
    BY <1>1, <1>2 DEF CarriedBut
  <2>2. IsOpen(i) /\ IsOpen(k)
    BY <2>1 DEF Carried, IsOpen, LInv, OpenIsLive
  <2>3. /\ facts[i].slot = facts[k].slot /\ Exclusive(facts[i].slot)
        /\ facts[i].validFrom = facts'[i].validFrom /\ facts[k].validFrom = facts'[k].validFrom
        /\ facts'[i].validUntil <= facts[i].validUntil /\ facts'[k].validUntil <= facts[k].validUntil
        /\ facts'[i] \in FactRow /\ facts'[k] \in FactRow /\ facts[i] \in FactRow /\ facts[k] \in FactRow
    BY <2>1 DEF Carried, LInv, IInv, TypeOK
  <2>4. /\ facts[i].validFrom \in Int /\ facts[k].validFrom \in Int
        /\ facts[i].validUntil \in Int /\ facts[k].validUntil \in Int
        /\ facts'[i].validUntil \in Int /\ facts'[k].validUntil \in Int
    BY <2>3, FactAssumption DEF FactRow, Times, Ends, Forever
  <2>5. Overlap(facts[i], facts[k])
    BY <2>3, <2>4 DEF Overlap
  <2> QED BY <2>2, <2>3, <2>5 DEF SingleActive
<1>3. CASE i = n
  <2>0. c.semantics = "single_active"
    BY <1>1, <1>3 DEF Exclusive
  <2>1. Undecided(c, k, i)
    BY <2>0 DEF Undecided, Overlap
  <2> QED BY <1>1, <1>3, <2>1
<1>4. CASE k = n
  <2>0. c.semantics = "single_active"
    BY <1>1, <1>4 DEF Exclusive
  <2>1. Undecided(c, i, k)
    BY <2>0 DEF Undecided
  <2> QED BY <1>1, <1>4, <2>1
<1> QED BY <1>2, <1>3, <1>4

(* Only the revive of a retract puts a second value into a slot whose calls *)
(* are all single_active: settle_fact, the extractor's supersession, the    *)
(* event and the judge never do, whatever they interleave with.  (A slot    *)
(* that a promoted call of conflictSlotResolution writes too is not         *)
(* exclusive: that call leaves another value of the same start active.)     *)
THEOREM OnlyReviveDoubles ==
  Spec => [][SingleActive /\ ~SingleActive' => \E i \in FactIds : ReviveSupersededBy(i)]_vars
<1>1. LInv /\ [Next]_vars =>
        [SingleActive /\ ~SingleActive' => \E i \in FactIds : ReviveSupersededBy(i)]_vars
  BY NextWell, SingleStep
<1> QED BY <1>1, LiveHolds, PTL DEF Spec

(* A slot whose calls are all single_active holds one value at a time, for  *)
(* any number of facts, any values and dates, whatever the extractor names  *)
(* and the judge answers, where no operator retracts: of its writers        *)
(* reviveSupersededBy alone breaks it.                                      *)
THEOREM SingleActiveCorrect ==
  ASSUME Retractable = {}
  PROVE  Spec => []SingleActive
<1> DEFINE Quiet == \A i \in FactIds : retracts[i] = "idle"
           SInv == LInv /\ Quiet /\ SingleActive
<1>1. Init => Quiet /\ SingleActive
  <2>1. Absent.status \notin Open
    BY DEF Absent, Open
  <2> HIDE DEF Absent
  <2> QED BY <2>1 DEF Init, SingleActive, IsOpen
<1>2. SInv /\ [Next]_vars => SInv'
  <2> SUFFICES ASSUME SInv, [Next]_vars PROVE SInv'
    OBVIOUS
  <2>1. ASSUME NEW i \in FactIds
        PROVE  ~(RetractRead(i) \/ RetractWrite(i) \/ ReviveSupersededBy(i) \/ RetractDies(i))
    BY DEF RetractRead, RetractWrite, ReviveSupersededBy, RetractDies
  <2>2. retracts' = retracts
    <3>1. ASSUME NEW i \in FactIds, TakeItem(i) \/ NothingToJudge(i) PROVE retracts' = retracts
      BY <3>1 DEF TakeItem, NothingToJudge
    <3>2. ASSUME NEW t \in tails, SupersedeNamed(t) PROVE retracts' = retracts
      BY <3>2 DEF SupersedeNamed, NamingReads, NamingCloses, NamingSkips, NamingPromotes, NamingRetries, NamingFails
    <3>3. ASSUME NEW x \in todo, WriteVerdict(x) \/ ReadBounds(x) PROVE retracts' = retracts
      BY <3>3 DEF WriteVerdict, ReadBounds
    <3>4. Ingest => retracts' = retracts
      BY DEF Ingest, Settle
    <3>5. Judge \/ StaleAnswer \/ CloseLoser \/ PromoteWinner \/ MarkChecked \/ JudgeDies
          \/ UNCHANGED vars => retracts' = retracts
      BY DEF Judge, StaleAnswer, CloseLoser, PromoteWinner, MarkChecked, JudgeDies, vars
    <3> QED BY <2>1, <3>1, <3>2, <3>3, <3>4, <3>5 DEF Next
  <2>3. StepWell
    BY <2>1, NextWell
  <2>4. SingleActive' /\ OpenIsLive'
    BY <2>3, SingleStep, StepLive
  <2>5. IInv'
    BY NextOK DEF LInv, StepOK
  <2> QED BY <2>2, <2>4, <2>5 DEF LInv
<1>3. Init => SInv
  BY <1>1, InitOK DEF LInv, Init, Absent, OpenIsLive, Open
<1> QED BY <1>2, <1>3, PTL DEF Spec
=============================================================================
