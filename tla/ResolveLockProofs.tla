------------------------- MODULE ResolveLockProofs --------------------------
(***************************************************************************)
(* MutualExclusion and KeysHaveHolders for any callers, processes and      *)
(* keys, and OneActive of the keys that one process serves: the invariant  *)
(* is that who is inside is who the map names (Named), and that a snapshot *)
(* taken inside is still the slot (SnapshotCurrent), because in one        *)
(* process nobody else can have committed since.                           *)
(***************************************************************************)
EXTENDS ResolveLock, TLAPS

Named ==
  /\ \A c \in Callers : Inside(c) => Holder(c) = c
  /\ \A p \in Pods, k \in Keys :
       locks[p][k] # Nobody => /\ Inside(locks[p][k])
                               /\ PodOf[locks[p][k]] = p
                               /\ KeyOf[locks[p][k]] = k

IInv == TypeOK /\ Named

SnapshotCurrent ==
  \A c \in Callers : OneProcess(KeyOf[c]) /\ pc[c] = "read" => seen[c] = active[KeyOf[c]]

(* Types and Named are kept by every step. *)
LEMMA NextIInv == IInv /\ [Next]_vars => IInv'
<1> SUFFICES ASSUME IInv, [Next]_vars PROVE IInv'
  OBVIOUS
<1> USE LockAssumption DEF IInv
<1>1. ASSUME NEW c \in Callers, Acquire(c) PROVE IInv'
  <2>1. TypeOK'
    BY <1>1 DEF Acquire, TypeOK
  <2>2. /\ pc'[c] = "locked" /\ \A d \in Callers \ {c} : pc'[d] = pc[d]
        /\ locks'[PodOf[c]][KeyOf[c]] = c
        /\ \A p \in Pods, k \in Keys : p # PodOf[c] \/ k # KeyOf[c] => locks'[p][k] = locks[p][k]
    BY <1>1 DEF Acquire, TypeOK
  <2>3. locks[PodOf[c]][KeyOf[c]] = Nobody
    BY <1>1 DEF Acquire, Free, Holder
  <2>4. \A d \in Callers : Inside(d)' => Holder(d)' = d
    BY <2>2, <2>3 DEF Named, Inside, Holder
  <2>5. \A p \in Pods, k \in Keys :
          locks'[p][k] # Nobody => /\ Inside(locks[p][k])'
                                   /\ PodOf[locks'[p][k]] = p
                                   /\ KeyOf[locks'[p][k]] = k
    <3> SUFFICES ASSUME NEW p \in Pods, NEW k \in Keys, locks'[p][k] # Nobody
                 PROVE  Inside(locks[p][k])' /\ PodOf[locks'[p][k]] = p /\ KeyOf[locks'[p][k]] = k
      OBVIOUS
    <3>1. CASE p = PodOf[c] /\ k = KeyOf[c]
      BY <2>2, <3>1 DEF Inside
    <3>2. CASE ~(p = PodOf[c] /\ k = KeyOf[c])
      <4>1. locks'[p][k] = locks[p][k] /\ locks[p][k] \in Callers
        BY <2>2, <3>2 DEF TypeOK
      <4>2. locks[p][k] # c
        BY <2>3, <3>2, <4>1 DEF Named
      <4> QED
        BY <2>2, <4>1, <4>2 DEF Named, Inside
    <3> QED
      BY <3>1, <3>2
  <2> QED
    BY <2>1, <2>4, <2>5 DEF Named
<1>2. ASSUME NEW c \in Callers, Leave(c) PROVE IInv'
  <2>1. TypeOK'
    BY <1>2 DEF Leave, TypeOK
  <2>2. /\ pc'[c] = "done" /\ \A d \in Callers \ {c} : pc'[d] = pc[d]
        /\ locks'[PodOf[c]][KeyOf[c]] = Nobody
        /\ \A p \in Pods, k \in Keys : p # PodOf[c] \/ k # KeyOf[c] => locks'[p][k] = locks[p][k]
    BY <1>2 DEF Leave, TypeOK
  <2>3. locks[PodOf[c]][KeyOf[c]] = c
    BY <1>2 DEF Leave, Named, Inside, Holder
  <2>4. \A d \in Callers : Inside(d)' => Holder(d)' = d
    BY <2>2, <2>3 DEF Named, Inside, Holder
  <2>5. \A p \in Pods, k \in Keys :
          locks'[p][k] # Nobody => /\ Inside(locks[p][k])'
                                   /\ PodOf[locks'[p][k]] = p
                                   /\ KeyOf[locks'[p][k]] = k
    <3> SUFFICES ASSUME NEW p \in Pods, NEW k \in Keys, locks'[p][k] # Nobody
                 PROVE  Inside(locks[p][k])' /\ PodOf[locks'[p][k]] = p /\ KeyOf[locks'[p][k]] = k
      OBVIOUS
    <3>1. locks'[p][k] = locks[p][k] /\ locks[p][k] \in Callers /\ ~(p = PodOf[c] /\ k = KeyOf[c])
      BY <2>2 DEF TypeOK
    <3>2. locks[p][k] # c
      BY <3>1 DEF Named
    <3> QED
      BY <2>2, <3>1, <3>2 DEF Named, Inside
  <2> QED
    BY <2>1, <2>4, <2>5 DEF Named
<1>3. ASSUME NEW c \in Callers, Await(c) \/ Wake(c) PROVE IInv'
  <2>1. TypeOK'
    <3>1. Holder(c) \in Callers \cup {Nobody}
      BY DEF TypeOK, Holder
    <3>2. CASE Await(c)
      BY <3>1, <3>2 DEF Await, TypeOK
    <3>3. CASE Wake(c)
      BY <3>3 DEF Wake, TypeOK
    <3> QED
      BY <1>3, <3>2, <3>3
  <2>2. \A d \in Callers : Inside(d)' <=> Inside(d)
    BY <1>3 DEF Await, Wake, TypeOK, Inside
  <2>3. locks' = locks
    BY <1>3 DEF Await, Wake
  <2> QED
    BY <2>1, <2>2, <2>3 DEF Named, Holder, TypeOK
<1>4. ASSUME NEW c \in Callers, ReadSlot(c) \/ Commit(c) \/ Retry(c) \/ Fail(c) PROVE IInv'
  <2>1. TypeOK'
    <3>1. KeyOf[c] \in Keys /\ active[KeyOf[c]] \in SUBSET Callers
      BY DEF TypeOK
    <3>2. CASE ReadSlot(c)
      BY <3>1, <3>2 DEF ReadSlot, TypeOK
    <3>3. CASE Commit(c)
      <4>1. (active[KeyOf[c]] \ seen[c]) \cup {c} \in SUBSET Callers
        BY <3>1
      <4> QED
        BY <3>3, <4>1 DEF Commit, TypeOK
    <3>4. CASE Retry(c) \/ Fail(c)
      BY <3>4 DEF Retry, Fail, TypeOK
    <3> QED
      BY <1>4, <3>2, <3>3, <3>4
  <2>2. \A d \in Callers : Inside(d)' <=> Inside(d)
    BY <1>4 DEF ReadSlot, Commit, Retry, Fail, TypeOK, Inside
  <2>3. locks' = locks
    BY <1>4 DEF ReadSlot, Commit, Retry, Fail
  <2> QED
    BY <2>1, <2>2, <2>3 DEF Named, Holder, TypeOK
<1>5. CASE UNCHANGED vars
  BY <1>5 DEF vars, TypeOK, Named, Inside, Holder
<1> QED
  BY <1>1, <1>2, <1>3, <1>4, <1>5 DEF Next, Step, AllDone

(* Types and Named hold of every behaviour. *)
THEOREM Inductive == Spec => []IInv
<1>1. Init => IInv
  BY LockAssumption DEF Init, IInv, TypeOK, Named, Inside
<1> QED
  BY <1>1, NextIInv, PTL DEF Spec

(* KeyedMutex.run is a mutual exclusion for each key of a process, and      *)
(* keeps no key without a holder, whatever fails inside the section.        *)
THEOREM LockCorrect == Spec => [](MutualExclusion /\ KeysHaveHolders)
<1>1. IInv => MutualExclusion /\ KeysHaveHolders
  BY DEF IInv, Named, MutualExclusion, KeysHaveHolders, Holder
<1> QED
  BY <1>1, Inductive, PTL

(* The map of KeyedMutex.run does not leak: every key it holds has its      *)
(* holder inside the section, so a section that throws gives its key back.  *)
THEOREM KeysHaveHoldersCorrect == Spec => []KeysHaveHolders
  BY LockCorrect, PTL

-----------------------------------------------------------------------------
(* In one process per key, snapshots stay current and one row is active.    *)
LEMMA NextOneActive ==
  IInv /\ SnapshotCurrent /\ OneActive /\ [Next]_vars => SnapshotCurrent' /\ OneActive'
<1> SUFFICES ASSUME IInv, SnapshotCurrent, OneActive, [Next]_vars
             PROVE  SnapshotCurrent' /\ OneActive'
  OBVIOUS
<1> USE LockAssumption
<1>1. ASSUME NEW c \in Callers, Acquire(c) \/ Await(c) \/ Wake(c) \/ Leave(c) \/ Retry(c) \/ Fail(c)
      PROVE  SnapshotCurrent' /\ OneActive'
  <2>1. active' = active /\ seen' = seen
    BY <1>1 DEF Acquire, Await, Wake, Leave, Retry, Fail
  <2>2. \A d \in Callers : pc'[d] = "read" => pc[d] = "read"
    BY <1>1 DEF Acquire, Await, Wake, Leave, Retry, Fail, IInv, TypeOK
  <2> QED
    BY <2>1, <2>2 DEF SnapshotCurrent, OneActive
<1>2. ASSUME NEW c \in Callers, ReadSlot(c) PROVE SnapshotCurrent' /\ OneActive'
  <2>1. /\ active' = active
        /\ seen'[c] = active[KeyOf[c]]
        /\ \A d \in Callers \ {c} : seen'[d] = seen[d] /\ pc'[d] = pc[d]
    BY <1>2 DEF ReadSlot, IInv, TypeOK
  <2> QED
    BY <2>1 DEF SnapshotCurrent, OneActive
<1>3. ASSUME NEW c \in Callers, Commit(c) PROVE SnapshotCurrent' /\ OneActive'
  <2>1. /\ pc[c] = "read" /\ pc'[c] = "leaving"
        /\ seen' = seen
        /\ \A d \in Callers \ {c} : pc'[d] = pc[d]
    BY <1>3 DEF Commit, IInv, TypeOK
  <2>2. /\ active'[KeyOf[c]] = (active[KeyOf[c]] \ seen[c]) \cup {c}
        /\ \A k \in Keys \ {KeyOf[c]} : active'[k] = active[k]
    BY <1>3 DEF Commit, IInv, TypeOK
  <2>3. ASSUME NEW d \in Callers \ {c}, OneProcess(KeyOf[d]), pc[d] = "read"
        PROVE  KeyOf[d] # KeyOf[c]
    <3> SUFFICES ASSUME KeyOf[d] = KeyOf[c] PROVE FALSE
      OBVIOUS
    <3>1. PodOf[d] = PodOf[c]
      BY <2>3 DEF OneProcess
    <3>2. Holder(d) = d /\ Holder(c) = c
      BY <2>1, <2>3 DEF IInv, Named, Inside
    <3> QED
      BY <3>1, <3>2 DEF Holder
  <2>4. SnapshotCurrent'
    <3> SUFFICES ASSUME NEW d \in Callers, OneProcess(KeyOf[d]), pc'[d] = "read"
                 PROVE  seen'[d] = active'[KeyOf[d]]
      BY DEF SnapshotCurrent, OneProcess
    <3>1. d # c /\ pc[d] = "read"
      BY <2>1
    <3>2. KeyOf[d] \in Keys \ {KeyOf[c]}
      BY <2>3, <3>1
    <3> QED
      BY <2>1, <2>2, <3>1, <3>2 DEF SnapshotCurrent
  <2>5. OneActive'
    <3> SUFFICES ASSUME NEW k \in Keys, OneProcess(k), NEW x \in active'[k], NEW y \in active'[k]
                 PROVE  x = y
      BY DEF OneActive, OneProcess
    <3>1. CASE k = KeyOf[c]
      <4>1. seen[c] = active[k]
        BY <2>1, <3>1 DEF SnapshotCurrent
      <4> QED
        BY <2>2, <3>1, <4>1
    <3>2. CASE k # KeyOf[c]
      BY <2>2, <3>2 DEF OneActive, IInv, TypeOK
    <3> QED
      BY <3>1, <3>2
  <2> QED
    BY <2>4, <2>5
<1>4. CASE UNCHANGED vars
  BY <1>4 DEF vars, SnapshotCurrent, OneActive
<1> QED
  BY <1>1, <1>2, <1>3, <1>4 DEF Next, Step, AllDone

(* Concurrent resolves leave at most one active row in a single_active slot *)
(* that one process serves, although the database need not notice that a    *)
(* row was inserted after a snapshot.                                       *)
THEOREM OneActiveCorrect == Spec => []OneActive
<1>1. Init => SnapshotCurrent /\ OneActive
  BY DEF Init, SnapshotCurrent, OneActive
<1> QED
  BY <1>1, NextOneActive, Inductive, PTL DEF Spec
=============================================================================
