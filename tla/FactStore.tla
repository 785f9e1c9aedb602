----------------------------- MODULE FactStore ------------------------------
(***************************************************************************)
(* The facts of one entity and who changes their status: fn::settle_fact   *)
(* (migration 0177) and the extractor's explicit supersession after it     *)
(* (fact-resolver.service.ts), the judge of dreams/fact-resolution.service *)
(* .ts, retract and revive (facts.service.ts), and the event               *)
(* competing_needs_a_rival (0175) that runs inside each of their writes.   *)
(*                                                                         *)
(* A slot stands for a canonical predicate; user, groups and derivedVersion *)
(* are those of one pool, the one both settle_fact and the judge read.      *)
(* Facts are numbered in the order of recordedAt.  NONE of validUntil and  *)
(* priorValidUntil is Forever, NONE of supersededBy is 0.  Valid times lie *)
(* before and after Now, the instant of the run; the clock stands still.   *)
(* Rows with derivedFrom (summaries) are not modelled, so retract's        *)
(* cascade finds none.                                                     *)
(***************************************************************************)
EXTENDS Integers, FiniteSets

CONSTANTS
  Slots,          \* slots of the entity
  PoliciesOf,     \* the policies the registry gives the predicate, over time
  PathsOf,        \* the paths the slot is written by
  DirectSlot,     \* CONFLICT_DIRECT_FACT_SLOT
  MentionSlot,    \* CONFLICT_MENTION_FACT_SLOT
  Values,         \* objects
  Near,           \* pairs of values whose embeddings reach the threshold
  Alike,          \* pairs of values with fn::same_value
  Origins,        \* origin keys of sources
  RecordOrigins,  \* those of systems of record
  Now,            \* the present instant
  Horizon,        \* the last instant a fact may be dated (bound)
  DayLength,      \* instants in a day
  Harness,        \* whether an agent judges (submit) or the server (runPending)
  Spans,          \* the valid intervals facts are stated with (bound)
  Nameable,       \* facts the extractor may name as replaced (bound)
  Retractable,    \* facts an operator may retract (bound)
  MaxFacts        \* bound on the facts entered

Semantics == {"append_only", "single_active", "bitemporal", "bitemporal_event"}
Policies  == [semantics : Semantics, status : {"seeded", "proposed", "fallback"}]
Paths     == {"direct", "mention"}

(* How settle_fact is called: its $semantics, and whether the similarity    *)
(* floor of a promoted slot makes all its values near.                      *)
Calls == [semantics : Semantics, exact : BOOLEAN]

ASSUME FactAssumption ==
  /\ Slots # {} /\ Values # {} /\ Origins # {}
  /\ PoliciesOf \in [Slots -> SUBSET Policies]
  /\ PathsOf \in [Slots -> SUBSET Paths]
  /\ DirectSlot \in BOOLEAN /\ MentionSlot \in BOOLEAN
  /\ Near \subseteq Values \X Values
  /\ Alike \subseteq Values \X Values
  /\ RecordOrigins \subseteq Origins
  /\ Horizon \in Nat
  /\ Now \in 0..Horizon
  /\ DayLength \in Nat \ {0}
  /\ Harness \in BOOLEAN
  /\ MaxFacts \in Nat
  /\ Spans \subseteq {x \in (0..Horizon) \X (0..Horizon + 1) : x[1] < x[2]}
  /\ Nameable \subseteq 1..MaxFacts
  /\ Retractable \subseteq 1..MaxFacts

VARIABLES
  facts,     \* facts[i]: row i of knowledge_fact
  tails,     \* explicit supersessions their requests have still to write
  retracts,  \* retracts[i]: how far a retract of i is
  asked,     \* the item the judge was given, or NoItem
  todo,      \* the verdicts of that item still to be written
  step       \* what markSuperseded has still to do for the verdict in hand

judging == <<asked, todo, step>>
vars == <<facts, tails, retracts, asked, todo, step>>

Forever == Horizon + 1
Times   == 0..Horizon
Ends    == 0..Forever
UnknownStart == 0          \* UNKNOWN_START: only the end was stated
FactIds == 1..MaxFacts
NoItem  == [fact |-> 0, sig |-> {}, answered |-> FALSE]
NoStep  == [kind |-> "none", loser |-> 0, winner |-> 0, prior |-> 0]

Open     == {"active", "competing"}
Statuses == Open \cup {"absent", "corroborating", "superseded", "retracted"}

FactRow == [ status : Statuses, slot : Slots, object : Values, origin : Origins,
             validFrom : Times, validUntil : Ends, priorValidUntil : Ends,
             supersededBy : FactIds \cup {0},
             retracted : BOOLEAN,      \* retractedAt is set
             reason : {"none", "superseded", "operator"},
             foes : SUBSET FactIds,    \* conflictTrace.competingFactIds
             checked : BOOLEAN ]       \* resolutionCheckedAt is set

(* An explicit supersession: what it has read and where it is. *)
Bounds == [id : FactIds, until : Ends]
Naming == [winner : FactIds, ids : SUBSET FactIds, at : Times,
         pc : {"read", "close", "promote"}, losers : SUBSET Bounds]

Actions == [kind : {"supersede", "corroborate", "compete", "dispute"}, a : FactIds, b : FactIds]

TypeOK ==
  /\ facts \in [FactIds -> FactRow]
  /\ tails \subseteq Naming
  /\ retracts \in [FactIds -> {"idle", "read", "written"}]
  /\ asked \in [fact : FactIds \cup {0}, sig : SUBSET (FactIds \X Ends), answered : BOOLEAN]
  /\ todo \subseteq Actions
  /\ step \in {NoStep} \cup [kind : {"close", "promote"}, loser : FactIds, winner : FactIds, prior : Ends]

Absent == [ status |-> "absent", slot |-> CHOOSE s \in Slots : TRUE,
            object |-> CHOOSE v \in Values : TRUE, origin |-> CHOOSE o \in Origins : TRUE,
            validFrom |-> 0, validUntil |-> Forever, priorValidUntil |-> Forever,
            supersededBy |-> 0, retracted |-> FALSE, reason |-> "none",
            foes |-> {}, checked |-> FALSE ]

Init ==
  /\ facts = [i \in FactIds |-> Absent]
  /\ tails = {}
  /\ retracts = [i \in FactIds |-> "idle"]
  /\ asked = NoItem
  /\ todo = {}
  /\ step = NoStep

Present == {i \in FactIds : facts[i].status # "absent"}
IsOpen(i) == facts[i].status \in Open /\ ~facts[i].retracted

-----------------------------------------------------------------------------
(* competing_needs_a_rival.                                                 *)

(* fn::fact_has_rival. *)
Rival(fs, g, i) ==
  /\ fs[g].status = "competing"
  /\ ~fs[g].retracted
  /\ fs[g].slot = fs[i].slot \/ i \in fs[g].foes \/ g \in fs[i].foes

HasRival(fs, i) == \E g \in FactIds \ {i} : Rival(fs, g, i)

(* Faulty variant: the event does not fire. *)
NoEvent(fs, new) == new

(* A write that turns the table fs into new; when a competing row closes,   *)
(* every competing row left without a rival becomes active.                 *)
Stored(fs, new) ==
  IF \E i \in FactIds : fs[i].status = "competing" /\ new[i].status \notin Open
  THEN [i \in FactIds |->
          IF new[i].status = "competing" /\ ~new[i].retracted /\ ~HasRival(new, i)
          THEN [new[i] EXCEPT !.status = "active"] ELSE new[i]]
  ELSE new

-----------------------------------------------------------------------------
(* conflictSlotResolution: the call a write by this path makes under this   *)
(* policy.  A single_active guess of the direct path and every              *)
(* single_active slot of the mention path are promoted to bitemporal, all   *)
(* their values being near.                                                 *)
ConflictSlotResolution(policy, path) ==
  LET plain    == [semantics |-> policy.semantics, exact |-> FALSE]
      promoted == [semantics |-> "bitemporal", exact |-> TRUE]
      single   == policy.semantics = "single_active"
  IN CASE path = "direct" /\ DirectSlot /\ single /\ policy.status = "proposed" -> promoted
       [] path = "direct" /\ DirectSlot /\ policy.status = "fallback" -> [plain EXCEPT !.semantics = "bitemporal"]
       [] path = "mention" /\ MentionSlot /\ single -> promoted
       [] OTHER -> plain

CallsOn(s) == {ConflictSlotResolution(policy, path) : policy \in PoliciesOf[s], path \in PathsOf[s]}

-----------------------------------------------------------------------------
(* fn::settle_fact: r is the incoming row, n its id; the call c decides how *)
(* the rows of the slot are read, whatever calls entered them.              *)

(* Faulty variant: a disputed value is not in the pool. *)
CandidatesActive(r) == {i \in FactIds : facts[i].status = "active" /\ facts[i].slot = r.slot}

Candidates(r) == {i \in FactIds : IsOpen(i) /\ facts[i].slot = r.slot}

Overlap(q, r) == q.validFrom < r.validUntil /\ r.validFrom < q.validUntil

IsNear(c, v, w) == c.exact \/ <<v, w>> \in Near

Slot(c, r) ==
  {i \in Candidates(r) :
     /\ c.semantics # "append_only"
     /\ c.semantics # "single_active" => IsNear(c, facts[i].object, r.object)
     /\ Overlap(facts[i], r)}

(* The granularity at which a call compares valid times. *)
Moment(c, q) == IF c.semantics = "bitemporal_event" THEN q.validFrom \div DayLength ELSE q.validFrom

Before(c, r, i) == Moment(c, facts[i]) < Moment(c, r)
After(c, r, i)  == Moment(c, facts[i]) > Moment(c, r)

(* Held values of which r states the end. *)
Ended(r) ==
  {i \in Candidates(r) : /\ r.validUntil # Forever
                         /\ facts[i].validUntil = Forever
                         /\ facts[i].validFrom < r.validUntil
                         /\ <<facts[i].object, r.object>> \in Alike}

(* The same claim from another origin, and again from its own. *)
Confirmed(c, r) ==
  {i \in (IF c.semantics = "append_only" THEN Candidates(r) ELSE Slot(c, r)) :
     facts[i].object = r.object /\ facts[i].origin # r.origin}
Restated(c, r) == {i \in Slot(c, r) : facts[i].object = r.object /\ facts[i].origin = r.origin}

Known(c, r) == Ended(r) \cup Confirmed(c, r) \cup Restated(c, r)

Later(c, r) == {i \in Slot(c, r) : After(c, r, i)}

(* Faulty variant: single_active closes only what started earlier. *)
ClosedEarlierOnly(c, r) == {i \in Slot(c, r) : Before(c, r, i)}

Closed(c, r) == {i \in Slot(c, r) : c.semantics = "single_active" \/ Before(c, r, i)}

Peers(c, r) == {i \in Slot(c, r) : c.semantics = "bitemporal_event" /\ ~Before(c, r, i)}

Superseded(q, winner, end) ==
  [q EXCEPT !.status = "superseded", !.reason = "superseded", !.supersededBy = winner,
            !.priorValidUntil = q.validUntil, !.validUntil = end]

Corroborating(r) == [r EXCEPT !.status = "corroborating"]

(* An ended restatement of a held value is that value's end. *)
EndsHeld(n, r) ==
  \E i \in Ended(r) :
    /\ \A k \in Ended(r) : facts[k].validFrom <= facts[i].validFrom
    /\ facts' = [facts EXCEPT ![i].validUntil = r.validUntil, ![n] = Corroborating(r)]

(* The same object again corroborates the row that has it. *)
Confirms(c, n, r) ==
  /\ Ended(r) = {}
  /\ Confirmed(c, r) \cup Restated(c, r) # {}
  /\ facts' = [facts EXCEPT ![n] = Corroborating(r)]

OpensSlot(c, n, r) ==
  /\ Known(c, r) = {}
  /\ Slot(c, r) = {}
  /\ facts' = [facts EXCEPT ![n] = r]

(* A value that starts strictly later makes the incoming one history. *)
GoesToHistory(c, n, r) ==
  /\ Known(c, r) = {}
  /\ \E i \in Later(c, r) :
       /\ \A k \in Later(c, r) : facts[i].validFrom <= facts[k].validFrom
       /\ facts' = [facts EXCEPT ![n] = Superseded(r, i, facts[i].validFrom)]

(* Valid-time succession; same-day peers of an event flip competing. *)
Succeeds(c, n, r) ==
  /\ Known(c, r) = {}
  /\ Later(c, r) = {}
  /\ Closed(c, r) # {}
  /\ LET closed == Stored(facts, [i \in FactIds |->
                     IF i \in Closed(c, r) THEN Superseded(facts[i], n, r.validFrom)
                     ELSE IF i = n THEN r ELSE facts[i]])
     IN facts' = [i \in FactIds |->
                    IF i \in Peers(c, r) THEN [closed[i] EXCEPT !.status = "competing"] ELSE closed[i]]

(* A same-day value of an event is a genuine ambiguity. *)
SharesDay(c, n, r) ==
  /\ Known(c, r) = {}
  /\ Later(c, r) = {}
  /\ Closed(c, r) = {}
  /\ Peers(c, r) # {}
  /\ facts' = [i \in FactIds |->
                 IF i \in Peers(c, r) THEN [facts[i] EXCEPT !.status = "competing"]
                 ELSE IF i = n THEN [r EXCEPT !.status = "competing", !.foes = Peers(c, r)]
                 ELSE facts[i]]

(* Another value of the same moment is left to the judge. *)
AwaitsJudgement(c, n, r) ==
  /\ Known(c, r) = {}
  /\ Slot(c, r) # {}
  /\ Later(c, r) \cup Closed(c, r) \cup Peers(c, r) = {}
  /\ facts' = [facts EXCEPT ![n] = r]

Incoming(s, v, o, from, until) ==
  [ status |-> "active", slot |-> s, object |-> v, origin |-> o,
    validFrom |-> from, validUntil |-> until, priorValidUntil |-> Forever,
    supersededBy |-> 0, retracted |-> FALSE, reason |-> "none",
    foes |-> {}, checked |-> FALSE ]

(* Faulty variant: a value without a known start closes at its end, stated or not. *)
ClosesAtEnd(r) == IF r.validFrom = UnknownStart THEN r.validUntil ELSE r.validFrom

(* When the rows named as replaced by r end: at its start, or at its end if *)
(* only that was stated.                                                    *)
ClosesAt(r) ==
  IF r.validUntil # Forever /\ r.validFrom = UnknownStart THEN r.validUntil ELSE r.validFrom

SettleFact(c, n, r) ==
  \/ EndsHeld(n, r) \/ Confirms(c, n, r) \/ OpensSlot(c, n, r) \/ GoesToHistory(c, n, r)
  \/ Succeeds(c, n, r) \/ SharesDay(c, n, r) \/ AwaitsJudgement(c, n, r)

(* resolve: settle the fact; the rows the extractor named come after.       *)
Settle(c, r, named) ==
  LET n == Cardinality(Present) + 1 IN
  /\ n \in FactIds
  /\ SettleFact(c, n, r)
  /\ tails' = tails \cup {[winner |-> n, ids |-> ids, at |-> ClosesAt(r), pc |-> "read", losers |-> {}]
                            : ids \in {named} \ {{}}}
  /\ UNCHANGED <<retracts, judging>>

Ingest ==
  /\ Present # FactIds    \* the bound on facts
  /\ \E s \in Slots, v \in Values, o \in Origins, x \in Spans :
       \E c \in CallsOn(s), named \in SUBSET (Present \cap Nameable) :
         Settle(c, Incoming(s, v, o, x[1], x[2]), named)

(* Faulty variant: the loser is closed at the winner's start, whatever it is. *)
ExplicitEndUnguarded(from, until, at) == at

(* Never before the loser's own start, never stretching an ended value. *)
ExplicitEnd(from, until, at) ==
  IF until < at THEN until ELSE IF at > from THEN at ELSE from

Moves(t, u) == tails' = (tails \ {t}) \cup {u}
StartsOver(t) == Moves(t, [t EXCEPT !.pc = "read", !.losers = {}])

(* applyExplicitSupersession, one statement after the other and in no       *)
(* transaction: the named rows that are open, with their ends, ...          *)
NamingReads(t) ==
  LET losers == {[id |-> i, until |-> facts[i].validUntil] : i \in {k \in t.ids : IsOpen(k) /\ k # t.winner}}
  IN
  /\ t.pc = "read"
  /\ IF losers = {} THEN tails' = tails \ {t} ELSE Moves(t, [t EXCEPT !.pc = "close", !.losers = losers])
  /\ UNCHANGED <<facts, retracts, judging>>

(* ... the FOR over them, each closed by the bounds that were read and      *)
(* whatever has become of it, ...                                           *)
NamingCloses(t, l) ==
  /\ t.pc = "close"
  /\ facts' = Stored(facts, [facts EXCEPT ![l.id] =
                [@ EXCEPT !.status = "superseded", !.reason = "superseded", !.supersededBy = t.winner,
                          !.priorValidUntil = l.until,
                          !.validUntil = ExplicitEnd(facts[l.id].validFrom, l.until, t.at)]])
  /\ Moves(t, [t EXCEPT !.losers = t.losers \ {l}, !.pc = IF t.losers = {l} THEN "promote" ELSE "close"])
  /\ UNCHANGED <<retracts, judging>>

(* ... which fails and is passed over, the statements after it being run, ... *)
NamingSkips(t) ==
  /\ t.pc = "close"
  /\ Moves(t, [t EXCEPT !.pc = "promote", !.losers = {}])
  /\ UNCHANGED <<facts, retracts, judging>>

(* ... and the winner, if it competes.  If a statement met a conflict the   *)
(* whole block is run again (retryOnReadConflict), ...                      *)
NamingPromotes(t) ==
  /\ t.pc = "promote"
  /\ facts' = IF facts[t.winner].status = "competing"
              THEN [facts EXCEPT ![t.winner].status = "active"] ELSE facts
  /\ tails' = tails \ {t} \/ StartsOver(t)
  /\ UNCHANGED <<retracts, judging>>

NamingRetries(t) ==
  /\ StartsOver(t)
  /\ UNCHANGED <<facts, retracts, judging>>

(* ... or the failure is logged, and what is not closed is left open.       *)
NamingFails(t) ==
  /\ tails' = tails \ {t}
  /\ UNCHANGED <<facts, retracts, judging>>

SupersedeNamed(t) ==
  \/ NamingReads(t) \/ (\E l \in t.losers : NamingCloses(t, l)) \/ NamingSkips(t)
  \/ NamingPromotes(t) \/ NamingRetries(t) \/ NamingFails(t)

-----------------------------------------------------------------------------
(* FactsService.retract: read, write, revive, with awaits in between.       *)

RetractRead(i) ==
  /\ i \in Present \cap Retractable
  /\ ~facts[i].retracted
  /\ retracts[i] = "idle"
  /\ retracts' = [retracts EXCEPT ![i] = "read"]
  /\ UNCHANGED <<facts, tails, judging>>

(* The merge; the read did not select validUntil, so the end is always now. *)
RetractWrite(i) ==
  /\ retracts[i] = "read"
  /\ retracts' = [retracts EXCEPT ![i] = "written"]
  /\ facts' = Stored(facts, [facts EXCEPT ![i] =
                [@ EXCEPT !.status = "retracted", !.retracted = TRUE, !.reason = "operator",
                          !.validUntil = Now]])
  /\ UNCHANGED <<tails, judging>>

(* reviveSupersededBy: what i superseded comes back as it was. *)
Revived(q) ==
  [q EXCEPT !.status = "active", !.retracted = FALSE, !.reason = "none", !.supersededBy = 0,
            !.validUntil = q.priorValidUntil, !.priorValidUntil = Forever]

ReviveSupersededBy(i) ==
  /\ retracts[i] = "written"
  /\ retracts' = [retracts EXCEPT ![i] = "idle"]
  /\ facts' = [k \in FactIds |->
                 IF facts[k].supersededBy = i /\ facts[k].status = "superseded"
                    /\ facts[k].reason = "superseded"
                 THEN Revived(facts[k]) ELSE facts[k]]
  /\ UNCHANGED <<tails, judging>>

(* The request ends between its writes; a retry of what is written returns early. *)
RetractDies(i) ==
  /\ retracts[i] # "idle"
  /\ retracts' = [retracts EXCEPT ![i] = "idle"]
  /\ UNCHANGED <<facts, tails, judging>>

-----------------------------------------------------------------------------
(* FactResolutionService: the judge.                                        *)

OfRecord(i) == facts[i].origin \in RecordOrigins

(* resolutionActions: what a verdict on candidate c calls for. *)
Verdicts == {"same", "replaces", "contradicts", "unrelated"}

EarlierValid(c, f) ==
  facts[c].validFrom < facts[f].validFrom \/ (facts[c].validFrom = facts[f].validFrom /\ c < f)

ActionsFor(f, c, verdict) ==
  CASE verdict = "replaces"    -> IF EarlierValid(c, f)
                                  THEN {[kind |-> "supersede", a |-> c, b |-> f]}
                                  ELSE {[kind |-> "supersede", a |-> f, b |-> c]}
    [] verdict = "same"        -> IF c < f THEN {[kind |-> "corroborate", a |-> f, b |-> c]}
                                           ELSE {[kind |-> "corroborate", a |-> c, b |-> f]}
    [] verdict = "contradicts" -> {[kind |-> "compete", a |-> c, b |-> f]}
    [] OTHER                   -> {}

(* Faulty variant: the judge treats records like any other claim. *)
KeepNothing(x) == {x}

(* keepRecordSlots: a record is never closed, absorbed or disputed in place. *)
KeepRecordSlots(x) ==
  LET dispute(c, r) == [kind |-> "dispute", a |-> c, b |-> r]
      ra == OfRecord(x.a)
      rb == OfRecord(x.b)
  IN CASE x.kind = "supersede" /\ ra   -> IF rb THEN {} ELSE {dispute(x.b, x.a)}
       [] x.kind = "corroborate" /\ ra -> IF rb THEN {} ELSE {[x EXCEPT !.a = x.b, !.b = x.a]}
       [] x.kind = "compete" /\ ra     -> IF rb THEN {} ELSE {dispute(x.b, x.a)}
       [] x.kind = "compete" /\ ~ra /\ rb -> {dispute(x.a, x.b)}
       [] OTHER                        -> {x}

Shown(f) == {i \in FactIds \ {f} : IsOpen(i)}
Signature(ids) == {<<i, facts[i].validUntil>> : i \in ids}

(* nextItems: an open fact not yet judged, with the entity's open facts ... *)
TakeItem(f) ==
  /\ asked = NoItem
  /\ IsOpen(f)
  /\ ~facts[f].checked
  /\ Shown(f) # {}
  /\ asked' = [fact |-> f, sig |-> Signature({f} \cup Shown(f)), answered |-> FALSE]
  /\ UNCHANGED <<facts, tails, retracts, todo, step>>

(* ... or nothing to compare it with: judged without a call. *)
NothingToJudge(f) ==
  /\ asked = NoItem
  /\ IsOpen(f)
  /\ ~facts[f].checked
  /\ Shown(f) = {}
  /\ facts' = [facts EXCEPT ![f].checked = TRUE]
  /\ UNCHANGED <<tails, retracts, judging>>

Considered == {p[1] : p \in asked.sig} \ {asked.fact}

(* reload: the facts of the item that are still open, as they stand now.    *)
Fresh == Signature({i \in Considered \cup {asked.fact} : IsOpen(i)}) = asked.sig

(* The verdicts arrive; submit checks the evidence, runPending does not.  A *)
(* failed call is an answer with no verdicts.                               *)
Judge ==
  /\ asked # NoItem
  /\ ~asked.answered
  /\ Harness => Fresh
  /\ \E verdict \in [Considered -> Verdicts] :
       todo' = UNION {KeepRecordSlots(x) : x \in UNION {ActionsFor(asked.fact, c, verdict[c]) : c \in Considered}}
  /\ asked' = [asked EXCEPT !.answered = TRUE]
  /\ UNCHANGED <<facts, tails, retracts, step>>

StaleAnswer ==
  /\ Harness
  /\ asked # NoItem
  /\ ~asked.answered
  /\ ~Fresh
  /\ asked' = NoItem
  /\ UNCHANGED <<facts, tails, retracts, todo, step>>

(* Faulty variant: the pair is not checked before it is marked. *)
CompeteUnchecked(a, b) ==
  [facts EXCEPT ![a].status = "competing", ![b].status = "competing",
                ![a].foes = @ \cup {b}, ![b].foes = @ \cup {a}]

(* Both must still be open. *)
Compete(a, b) ==
  IF IsOpen(a) /\ IsOpen(b)
  THEN [facts EXCEPT ![a].status = "competing", ![b].status = "competing",
                     ![a].foes = @ \cup {b}, ![b].foes = @ \cup {a}]
  ELSE facts

(* The claim competes, linked to the record; the record is not touched. *)
Dispute(claim, record) ==
  IF IsOpen(claim) /\ IsOpen(record)
  THEN [facts EXCEPT ![claim].status = "competing", ![claim].foes = @ \cup {record}]
  ELSE facts

(* write, of the verdicts that are one statement. *)
WriteVerdict(x) ==
  /\ x \in todo
  /\ step = NoStep
  /\ \/ x.kind = "corroborate" /\ facts' = Stored(facts, [facts EXCEPT ![x.a].status = "corroborating"])
     \/ x.kind = "compete" /\ facts' = Compete(x.a, x.b)
     \/ x.kind = "dispute" /\ facts' = Dispute(x.a, x.b)
  /\ todo' = todo \ {x}
  /\ UNCHANGED <<tails, retracts, asked, step>>

(* markSuperseded reads the bounds of loser and winner, ...                 *)
ReadBounds(x) ==
  /\ x \in todo
  /\ step = NoStep
  /\ x.kind = "supersede"
  /\ step' = [kind |-> "close", loser |-> x.a, winner |-> x.b, prior |-> facts[x.a].validUntil]
  /\ todo' = todo \ {x}
  /\ UNCHANGED <<facts, tails, retracts, asked>>

CloseAt(l, w) ==
  IF facts[w].validFrom > facts[l].validFrom THEN facts[w].validFrom ELSE facts[l].validFrom

(* ... closes the loser, whatever has become of it, ...                     *)
CloseLoser ==
  /\ step.kind = "close"
  /\ facts' = Stored(facts, [facts EXCEPT ![step.loser] =
                [@ EXCEPT !.status = "superseded", !.reason = "superseded", !.supersededBy = step.winner,
                          !.priorValidUntil = IF step.prior = Forever
                                               THEN facts[step.loser].priorValidUntil ELSE step.prior,
                          !.validUntil = CloseAt(step.loser, step.winner)]])
  /\ step' = [step EXCEPT !.kind = "promote"]
  /\ UNCHANGED <<tails, retracts, asked, todo>>

(* ... and makes a competing winner active.                                 *)
PromoteWinner ==
  /\ step.kind = "promote"
  /\ facts' = IF facts[step.winner].status = "competing"
              THEN [facts EXCEPT ![step.winner].status = "active"] ELSE facts
  /\ step' = NoStep
  /\ UNCHANGED <<tails, retracts, asked, todo>>

(* Everything is written: the fact is judged. *)
MarkChecked ==
  /\ asked.answered
  /\ todo = {}
  /\ step = NoStep
  /\ facts' = [facts EXCEPT ![asked.fact].checked = TRUE]
  /\ asked' = NoItem
  /\ UNCHANGED <<tails, retracts, todo, step>>

(* The process that judges dies, between any two of its writes. *)
JudgeDies ==
  /\ asked # NoItem
  /\ asked' = NoItem
  /\ todo' = {}
  /\ step' = NoStep
  /\ UNCHANGED <<facts, tails, retracts>>

-----------------------------------------------------------------------------
Next ==
  \/ Ingest
  \/ \E t \in tails : SupersedeNamed(t)
  \/ \E i \in FactIds : \/ RetractRead(i) \/ RetractWrite(i) \/ ReviveSupersededBy(i) \/ RetractDies(i)
                        \/ TakeItem(i) \/ NothingToJudge(i)
  \/ Judge \/ StaleAnswer
  \/ \E x \in todo : WriteVerdict(x) \/ ReadBounds(x)
  \/ CloseLoser \/ PromoteWinner \/ MarkChecked \/ JudgeDies

Spec == Init /\ [][Next]_vars

-----------------------------------------------------------------------------
(* Properties.                                                              *)

(* No fact that has started ends before it starts, now or after a revive:   *)
(* each writer of validUntil here (settle_fact, applyExplicitSupersession,  *)
(* markSuperseded, retract) and the priorValidUntil that reviveSupersededBy *)
(* copies back.                                                             *)
Ordered(q) == q.validFrom <= q.validUntil /\ q.validFrom <= q.priorValidUntil

IntervalsOrdered == \A i \in FactIds : facts[i].validFrom <= Now => Ordered(facts[i])

(* The row i enters open by call c. *)
EntersBy(i, c) ==
  LET row == facts'[i] IN
  /\ facts[i].status = "absent" /\ row.status \in Open
  /\ c \in CallsOn(row.slot)
  /\ SettleFact(c, i, Incoming(row.slot, row.object, row.origin, row.validFrom, row.validUntil))

(* settle_fact decides the slot by the semantics it is called with: beside  *)
(* a fact it leaves open, an open near fact of the slot that overlaps it    *)
(* starts at the same moment, and if the call is an event's it competes;    *)
(* single_active leaves none, whatever calls entered the others.            *)
Undecided(c, k, i) ==
  /\ facts'[k].status \in Open
  /\ facts'[k].slot = facts'[i].slot
  /\ Overlap(facts'[k], facts'[i])
  /\ CASE c.semantics = "single_active" -> TRUE
       [] c.semantics = "bitemporal" ->
            /\ IsNear(c, facts'[k].object, facts'[i].object)
            /\ facts'[k].validFrom # facts'[i].validFrom
       [] c.semantics = "bitemporal_event" ->
            /\ IsNear(c, facts'[k].object, facts'[i].object)
            /\ \/ Moment(c, facts'[k]) # Moment(c, facts'[i])
               \/ facts'[k].status # "competing"
       [] OTHER -> FALSE

SettleDecides ==
  [][\A i \in FactIds, c \in Calls :
       EntersBy(i, c) => ~\E k \in FactIds \ {i} : Undecided(c, k, i)]_vars

(* A system of record decides its own slot: no write of the judge closes,   *)
(* absorbs or disputes an open fact of record (keepRecordSlots).            *)
RecordNotDemoted ==
  [][todo' # todo \/ step' # step
       => \A i \in FactIds : OfRecord(i) /\ IsOpen(i) => facts'[i].status \in {facts[i].status, "active"}]_vars

(* A closed fact comes back only by the revive of the retract of the fact   *)
(* that superseded it; no late verdict of the judge reopens one.            *)
OnlyReviveReopens ==
  [][\A i \in FactIds :
       i \in Present /\ ~IsOpen(i) /\ IsOpen(i)'
         => /\ facts[i].status = "superseded"
            /\ facts[i].supersededBy # 0
            /\ retracts[facts[i].supersededBy] = "written"]_vars

(* The event competing_needs_a_rival: whichever writer closes a competing   *)
(* fact, no fact is left competing by it alone.  A rival that was declared  *)
(* the winner is not closed but active, which the event does not watch; and *)
(* settle_fact flips the same-day peers of the fact it enters back to       *)
(* competing after the event has run, while that fact is active.            *)
DayPeer(i, n) ==
  \E c \in Calls :
    /\ EntersBy(n, c) /\ facts'[n].status = "active"
    /\ facts'[n].slot = facts[i].slot /\ c.semantics = "bitemporal_event"
    /\ IsNear(c, facts[i].object, facts'[n].object)
    /\ Moment(c, facts'[n]) = Moment(c, facts[i])

OrphansSettled ==
  [][\A i \in FactIds :
       /\ facts[i].status = "competing" /\ HasRival(facts, i)
       /\ facts'[i].status = "competing" /\ IsOpen(i)'
       => \/ HasRival(facts', i)
          \/ \E g \in FactIds \ {i} : Rival(facts, g, i) /\ facts'[g].status = "active"
          \/ \E n \in FactIds : DayPeer(i, n)]_vars

(* single_active: one value at a time, in a slot all of whose writes are    *)
(* settled as single_active.  With the flags at their default that is a     *)
(* seeded or operator-promoted predicate that only the direct path writes:  *)
(* a promoted call leaves another value of the same start active beside its *)
(* own, and the next single_active call is the one that closes it.          *)
Exclusive(s) == \A c \in CallsOn(s) : c.semantics = "single_active"

SingleActive ==
  \A i, k \in FactIds :
    /\ i # k
    /\ IsOpen(i) /\ IsOpen(k)
    /\ facts[i].slot = facts[k].slot
    /\ Exclusive(facts[i].slot)
    => ~Overlap(facts[i], facts[k])
=============================================================================
