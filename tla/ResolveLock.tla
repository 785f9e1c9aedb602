---------------------------- MODULE ResolveLock -----------------------------
(***************************************************************************)
(* Concurrent resolves of single_active values: KeyedMutex (keyed-mutex.ts)*)
(* around fn::settle_fact as FactResolverService.resolveFactCall uses it.  *)
(*                                                                         *)
(* The mutex is per process.  The statement inside reads the slot on a     *)
(* snapshot and commits later.  Two commits that close the same row always *)
(* conflict and the loser is retried; that a row was inserted since the    *)
(* snapshot the database may or may not notice, as keyed-mutex.ts says of  *)
(* SurrealDB 3.x.                                                          *)
(***************************************************************************)
EXTENDS Integers

CONSTANTS
  Callers,     \* calls of resolveFactCall, each with a value of its own
  Pods,        \* processes
  Keys,        \* (company, entity, predicate)
  PodOf,       \* the process of a call
  KeyOf,       \* the key of a call
  Nobody       \* no holder

ASSUME LockAssumption ==
  /\ PodOf \in [Callers -> Pods]
  /\ KeyOf \in [Callers -> Keys]
  /\ Nobody \notin Callers

VARIABLES
  pc,          \* where each call is
  locks,       \* locks[p][k]: whose promise the map of process p holds under k
  awaits,      \* the holder whose promise a call waits for
  seen,        \* the active rows a call's snapshot holds
  active       \* active[k]: calls whose row is active in the slot

vars == <<pc, locks, awaits, seen, active>>

TypeOK ==
  /\ pc \in [Callers -> {"start", "waiting", "woken", "locked", "read", "leaving", "done"}]
  /\ locks \in [Pods -> [Keys -> Callers \cup {Nobody}]]
  /\ awaits \in [Callers -> Callers \cup {Nobody}]
  /\ seen \in [Callers -> SUBSET Callers]
  /\ active \in [Keys -> SUBSET Callers]

Init ==
  /\ pc = [c \in Callers |-> "start"]
  /\ locks = [p \in Pods |-> [k \in Keys |-> Nobody]]
  /\ awaits = [c \in Callers |-> Nobody]
  /\ seen = [c \in Callers |-> {}]
  /\ active = [k \in Keys |-> {}]

Holder(c) == locks[PodOf[c]][KeyOf[c]]
Inside(c) == pc[c] \in {"locked", "read", "leaving"}

-----------------------------------------------------------------------------
(* KeyedMutex.run.                                                          *)

(* Faulty variant: the map is not looked at again after the await. *)
FreeOrWoken(c) == Holder(c) = Nobody \/ pc[c] = "woken"

(* this.locks.has(key) is false. *)
Free(c) == Holder(c) = Nobody

(* The check and the set run without an await in between. *)
Acquire(c) ==
  /\ pc[c] \in {"start", "woken"}
  /\ Free(c)
  /\ locks' = [locks EXCEPT ![PodOf[c]][KeyOf[c]] = c]
  /\ pc' = [pc EXCEPT ![c] = "locked"]
  /\ UNCHANGED <<awaits, seen, active>>

Await(c) ==
  /\ pc[c] \in {"start", "woken"}
  /\ ~Free(c)
  /\ awaits' = [awaits EXCEPT ![c] = Holder(c)]
  /\ pc' = [pc EXCEPT ![c] = "waiting"]
  /\ UNCHANGED <<locks, seen, active>>

(* Every waiter of a resolved promise wakes. *)
Wake(c) ==
  /\ pc[c] = "waiting"
  /\ pc[awaits[c]] = "done"
  /\ pc' = [pc EXCEPT ![c] = "woken"]
  /\ UNCHANGED <<locks, awaits, seen, active>>

(* finally: the key leaves the map and the promise resolves. *)
Leave(c) ==
  /\ pc[c] = "leaving"
  /\ locks' = [locks EXCEPT ![PodOf[c]][KeyOf[c]] = Nobody]
  /\ pc' = [pc EXCEPT ![c] = "done"]
  /\ UNCHANGED <<awaits, seen, active>>

-----------------------------------------------------------------------------
(* RETURN fn::settle_fact, in retryOnUniqueViolation.                       *)

ReadSlot(c) ==
  /\ pc[c] = "locked"
  /\ seen' = [seen EXCEPT ![c] = active[KeyOf[c]]]
  /\ pc' = [pc EXCEPT ![c] = "read"]
  /\ UNCHANGED <<locks, awaits, active>>

(* The row is active and every row of the snapshot superseded. *)
Commit(c) ==
  /\ pc[c] = "read"
  /\ seen[c] \subseteq active[KeyOf[c]]
  /\ active' = [active EXCEPT ![KeyOf[c]] = (@ \ seen[c]) \cup {c}]
  /\ pc' = [pc EXCEPT ![c] = "leaving"]
  /\ UNCHANGED <<locks, awaits, seen>>

(* A conflict the database notices: the closure runs again. *)
Retry(c) ==
  /\ pc[c] = "read"
  /\ seen[c] # active[KeyOf[c]]
  /\ pc' = [pc EXCEPT ![c] = "locked"]
  /\ UNCHANGED <<locks, awaits, seen, active>>

(* Faulty variant: the lock is only given back on success. *)
FailLeaks(c) ==
  /\ pc[c] \in {"locked", "read"}
  /\ pc' = [pc EXCEPT ![c] = "done"]
  /\ UNCHANGED <<locks, awaits, seen, active>>

(* Attempts run out, or the statement fails for another reason. *)
Fail(c) ==
  /\ pc[c] \in {"locked", "read"}
  /\ pc' = [pc EXCEPT ![c] = "leaving"]
  /\ UNCHANGED <<locks, awaits, seen, active>>

Step(c) ==
  \/ Acquire(c) \/ Await(c) \/ Wake(c) \/ Leave(c)
  \/ ReadSlot(c) \/ Commit(c) \/ Retry(c)

AllDone == (\A c \in Callers : pc[c] = "done") /\ UNCHANGED vars

Next ==
  \/ \E c \in Callers : Step(c) \/ Fail(c)
  \/ AllDone

Spec == Init /\ [][Next]_vars

(* The event loop runs every continuation and the database answers.         *)
FairSpec == Spec /\ \A c \in Callers : WF_vars(Step(c))

-----------------------------------------------------------------------------
(* One call at a time is inside the section of a key, in each process: a    *)
(* woken waiter that finds a newcomer's lock waits again.                   *)
MutualExclusion ==
  \A c, d \in Callers :
    Inside(c) /\ Inside(d) /\ PodOf[c] = PodOf[d] /\ KeyOf[c] = KeyOf[d] => c = d

(* A key is in the map only while its holder is inside, so the map never    *)
(* grows and no waiter waits for a promise nobody will resolve.             *)
KeysHaveHolders ==
  \A p \in Pods, k \in Keys : locks[p][k] # Nobody => Inside(locks[p][k])

(* All resolves of k run in one process. *)
OneProcess(k) ==
  \A c, d \in Callers : KeyOf[c] = k /\ KeyOf[d] = k => PodOf[c] = PodOf[d]

(* At most one active row is left in a single_active slot that one process  *)
(* serves, however resolves of it overlap.                                  *)
OneActive == \A k \in Keys : OneProcess(k) => \A c, d \in active[k] : c = d

(* No call waits for ever: every resolve ends. *)
EveryoneServed == \A c \in Callers : <>(pc[c] = "done")
=============================================================================
