--------------------------- MODULE MigratorProofs ---------------------------
(* Proofs about Migrator, for any pods, manifests and bounds.               *)
EXTENDS Migrator, TLAPS

(* What a pod knows: its list holds files of its own image; every file of   *)
(* the image that is not on the list any more is in the ledger; and a       *)
(* migrate that is about to answer `ready' has seen the whole image there.  *)
(* None of it speaks of the lease: two pods that both believe they hold it  *)
(* keep it just the same.                                                   *)
TodoOfImage == \A p \in Pods : todo[p] \subseteq Manifest[p]

DoneIsRecorded ==
  \A p \in Pods : pc[p] \in {"next", "exec", "check"} => Manifest[p] \ todo[p] \subseteq ledger

ReadyOutcome ==
  \A p \in Pods : pc[p] = "release" /\ outcome[p] = "ready" => Manifest[p] \subseteq ledger

IInv == TodoOfImage /\ DoneIsRecorded /\ ReadyOutcome /\ ReadyIsMigrated

(* Initially nothing is listed and no pod has come up. *)
LEMMA InitInv == Init => TypeOK /\ IInv
  BY MigratorAssumption
  DEF Init, TypeOK, IInv, TodoOfImage, DoneIsRecorded, ReadyOutcome, ReadyIsMigrated,
      NoLock, Running, Applying, Outcomes

(* The values a step may give the lease row. *)
LEMMA LockTypes ==
  ASSUME TypeOK
  PROVE  /\ lock \in [holder : Pods \cup {NoPod}, live : BOOLEAN]
         /\ NoLock \in [holder : Pods \cup {NoPod}, live : BOOLEAN]
         /\ [lock EXCEPT !.live = FALSE] \in [holder : Pods \cup {NoPod}, live : BOOLEAN]
         /\ \A p \in Pods : TakeLock(p) => lock' \in [holder : Pods \cup {NoPod}, live : BOOLEAN]
<1>1. NoLock \in [holder : Pods \cup {NoPod}, live : BOOLEAN]
  BY DEF NoLock
<1>2. [lock EXCEPT !.live = FALSE] \in [holder : Pods \cup {NoPod}, live : BOOLEAN]
  BY DEF TypeOK
<1>3. ASSUME NEW p \in Pods, TakeLock(p)
      PROVE  lock' \in [holder : Pods \cup {NoPod}, live : BOOLEAN]
  BY <1>3 DEF TakeLock
<1> QED BY <1>1, <1>2, <1>3 DEF TypeOK

(* Every step keeps the types. *)
LEMMA TypeStep == TypeOK /\ TodoOfImage /\ [Next]_vars => TypeOK'
<1> SUFFICES ASSUME TypeOK, TodoOfImage, [Next]_vars PROVE TypeOK'
  OBVIOUS
<1> USE MigratorAssumption DEF TypeOK, Running, Applying, Outcomes
<1>1. ASSUME NEW p \in Pods, Start(p) PROVE TypeOK'
  BY <1>1 DEF Start, Goto
<1>2. ASSUME NEW p \in Pods, Acquire(p) PROVE TypeOK'
  BY <1>2 DEF Acquire, TakeLock, Goto
<1>3. ASSUME NEW p \in Pods, Refused(p) PROVE TypeOK'
  <2>1. lock' \in [holder : Pods \cup {NoPod}, live : BOOLEAN]
    BY <1>3, LockTypes DEF Refused
  <2>2. faults' \in 0 .. MaxFaults
    BY <1>3 DEF Refused, Fault
  <2> QED BY <1>3, <2>1, <2>2 DEF Refused, Goto
<1>4. ASSUME NEW p \in Pods, Peek(p) PROVE TypeOK'
  BY <1>4 DEF Peek, Goto
<1>5. ASSUME NEW p \in Pods, ReadPending(p) PROVE TypeOK'
  BY <1>5 DEF ReadPending, Pending, Finish, Goto
<1>6. ASSUME NEW p \in Pods, NextFile(p) PROVE TypeOK'
  <2>1. lock' \in [holder : Pods \cup {NoPod}, live : BOOLEAN]
    BY <1>6, LockTypes DEF NextFile
  <2>2. faults' \in 0 .. MaxFaults
    BY <1>6 DEF NextFile, Fault
  <2>3. pc' \in [Pods -> Running \cup Outcomes \cup {"dead"}] /\ outcome' \in [Pods -> Outcomes]
    BY <1>6 DEF NextFile, Finish, Goto
  <2> QED BY <1>6, <2>1, <2>2, <2>3 DEF NextFile
<1>7. ASSUME NEW p \in Pods, Commit(p) PROVE TypeOK'
  <2> PICK m \in todo[p] : ledger' = ledger \cup {m} /\ Advance(p, m)
    BY <1>7 DEF Commit
  <2>1. m \in UNION {Manifest[q] : q \in Pods}
    BY DEF TodoOfImage
  <2>2. ledger' \subseteq UNION {Manifest[q] : q \in Pods}
    BY <2>1
  <2> QED BY <1>7, <2>2 DEF Commit, Advance, Finish, Goto
<1>8. ASSUME NEW p \in Pods, CommitError(p) PROVE TypeOK'
  <2>1. ledger' \subseteq UNION {Manifest[q] : q \in Pods}
    BY <1>8 DEF CommitError, TodoOfImage
  <2> QED BY <1>8, <2>1 DEF CommitError, Fault, Goto
<1>9. ASSUME NEW p \in Pods, Check(p) PROVE TypeOK'
  <2>1. CASE \E m \in todo[p] : Advance(p, m) /\ UNCHANGED faults
    BY <1>9, <2>1 DEF Check, Advance, Finish, Goto
  <2>2. CASE \E m \in todo[p] : RetryOrThrow(p, m) /\ (UNCHANGED faults \/ Fault)
    <3>1. faults' \in 0 .. MaxFaults
      BY <2>2 DEF Fault
    <3>2. attempts' \in [Pods -> 0 .. MaxAttempts - 1]
      BY <2>2 DEF RetryOrThrow
    <3>3. pc' \in [Pods -> Running \cup Outcomes \cup {"dead"}] /\ outcome' \in [Pods -> Outcomes]
      BY <2>2 DEF RetryOrThrow, Finish, Goto
    <3> QED BY <1>9, <2>2, <3>1, <3>2, <3>3 DEF Check, RetryOrThrow
  <2> QED BY <1>9, <2>1, <2>2 DEF Check
<1>10. ASSUME NEW p \in Pods, Release(p) PROVE TypeOK'
  <2>1. lock' \in [holder : Pods \cup {NoPod}, live : BOOLEAN]
    BY <1>10, LockTypes DEF Release
  <2>2. faults' \in 0 .. MaxFaults
    BY <1>10 DEF Release, Fault
  <2> QED BY <1>10, <2>1, <2>2 DEF Release, Goto
<1>11. ASSUME NEW p \in Pods, Retry(p) PROVE TypeOK'
  BY <1>11 DEF Retry, Goto
<1>12. ASSUME NEW p \in Pods, Crash(p) PROVE TypeOK'
  BY <1>12 DEF Crash, Goto
<1>13. CASE Lapse
  <2>1. lock' \in [holder : Pods \cup {NoPod}, live : BOOLEAN]
    BY <1>13, LockTypes DEF Lapse
  <2>2. lapses' \in 0 .. MaxLapses
    BY <1>13 DEF Lapse
  <2> QED BY <1>13, <2>1, <2>2 DEF Lapse
<1>14. CASE UNCHANGED vars
  BY <1>14 DEF vars
<1> QED
  BY <1>1, <1>2, <1>3, <1>4, <1>5, <1>6, <1>7, <1>8, <1>9, <1>10, <1>11, <1>12, <1>13, <1>14
  DEF Next, PodStep

(* The ledger only grows. *)
LEMMA LedgerGrows == [Next]_vars => ledger \subseteq ledger'
  BY DEF Next, PodStep, vars, Start, Acquire, Refused, Peek, ReadPending, NextFile, Commit,
         CommitError, Check, Release, Retry, Crash, Lapse

(* A pod's step past file m: what it is rid of is recorded. *)
LEMMA AdvanceInv ==
  ASSUME TypeOK, IInv, NEW p \in Pods, NEW m \in todo[p], Advance(p, m),
         pc[p] \in {"exec", "check"}, ledger \subseteq ledger', m \in ledger'
  PROVE  IInv'
<1> USE DEF TypeOK, Running, Applying, Outcomes, IInv, Advance, Finish, Goto
<1>1. TodoOfImage'
  BY DEF TodoOfImage
<1>2. DoneIsRecorded'
  BY DEF DoneIsRecorded
<1>3. ReadyOutcome'
  BY DEF ReadyOutcome, DoneIsRecorded, TodoOfImage
<1>4. ReadyIsMigrated'
  BY DEF ReadyIsMigrated
<1> QED BY <1>1, <1>2, <1>3, <1>4

(* Every step keeps what the pods know. *)
LEMMA InvStep == TypeOK /\ IInv /\ [Next]_vars => IInv'
<1> SUFFICES ASSUME TypeOK, IInv, [Next]_vars PROVE IInv'
  OBVIOUS
<1> USE LedgerGrows
<1> USE DEF TypeOK, Running, Applying, Outcomes, IInv, TodoOfImage, DoneIsRecorded,
            ReadyOutcome, ReadyIsMigrated
<1>1. ASSUME NEW p \in Pods, Start(p) PROVE IInv'
  BY <1>1 DEF Start, Goto, Pending
<1>2. ASSUME NEW p \in Pods, Acquire(p) PROVE IInv'
  BY <1>2 DEF Acquire, Goto
<1>3. ASSUME NEW p \in Pods, Refused(p) PROVE IInv'
  BY <1>3 DEF Refused, Goto
<1>4. ASSUME NEW p \in Pods, Peek(p) PROVE IInv'
  BY <1>4 DEF Peek, Goto, Pending
<1>5. ASSUME NEW p \in Pods, ReadPending(p) PROVE IInv'
  BY <1>5 DEF ReadPending, Pending, Finish, Goto
<1>6. ASSUME NEW p \in Pods, NextFile(p) PROVE IInv'
  BY <1>6 DEF NextFile, Finish, Goto
<1>7. ASSUME NEW p \in Pods, Commit(p) PROVE IInv'
  <2> PICK m \in todo[p] : ledger' = ledger \cup {m} /\ Advance(p, m)
    BY <1>7 DEF Commit
  <2>1. pc[p] = "exec"
    BY <1>7 DEF Commit
  <2> QED BY <2>1, AdvanceInv
<1>8. ASSUME NEW p \in Pods, CommitError(p) PROVE IInv'
  BY <1>8 DEF CommitError, Goto
<1>9. ASSUME NEW p \in Pods, Check(p) PROVE IInv'
  <2>0. pc[p] = "check" /\ ledger' = ledger
    BY <1>9 DEF Check
  <2>1. ASSUME NEW m \in todo[p], m \in ledger, Advance(p, m) PROVE IInv'
    BY <2>0, <2>1, AdvanceInv
  <2>2. ASSUME NEW m \in todo[p], RetryOrThrow(p, m) PROVE IInv'
    BY <2>0, <2>2 DEF RetryOrThrow, Finish, Goto
  <2> QED BY <1>9, <2>1, <2>2 DEF Check
<1>10. ASSUME NEW p \in Pods, Release(p) PROVE IInv'
  BY <1>10 DEF Release, Goto
<1>11. ASSUME NEW p \in Pods, Retry(p) PROVE IInv'
  BY <1>11 DEF Retry, Goto
<1>12. ASSUME NEW p \in Pods, Crash(p) PROVE IInv'
  BY <1>12 DEF Crash, Goto
<1>13. CASE Lapse
  BY <1>13 DEF Lapse
<1>14. CASE UNCHANGED vars
  BY <1>14 DEF vars
<1> QED
  BY <1>1, <1>2, <1>3, <1>4, <1>5, <1>6, <1>7, <1>8, <1>9, <1>10, <1>11, <1>12, <1>13, <1>14
  DEF Next, PodStep

(* The invariant holds in every state of every behaviour. *)
LEMMA Invariance == Spec => [](TypeOK /\ IInv)
<1>1. TypeOK /\ IInv /\ [Next]_vars => (TypeOK /\ IInv)'
  BY TypeStep, InvStep DEF IInv
<1> QED BY <1>1, InitInv, PTL DEF Spec

(* The variables of the migrator keep their types. *)
THEOREM TypeCorrect == Spec => []TypeOK
  BY Invariance, PTL

(* A pod that ensureSchema lets through has its whole image applied, for    *)
(* any pods, images and numbers of faults, lapsed leases and crashes.       *)
THEOREM ReadyIsMigratedCorrect == Spec => []ReadyIsMigrated
<1>1. IInv => ReadyIsMigrated
  BY DEF IInv
<1> QED BY <1>1, Invariance, PTL

(* A step that adds a row adds the first missing file of some image. *)
LEMMA OrderedStep ==
  ASSUME TypeOK, IInv, [Next]_vars, NEW m \in ledger' \ ledger
  PROVE  \E p \in Pods : m \in Manifest[p] /\ \A k \in Manifest[p] : k < m => k \in ledger
<1>1. PICK p \in Pods : /\ pc[p] = "exec" /\ m \in todo[p]
                        /\ \A k \in todo[p] : m <= k
  BY DEF Next, PodStep, vars, Start, Acquire, Refused, Peek, ReadPending, NextFile, Commit,
         CommitError, Check, Release, Retry, Crash, Lapse, IsNext
<1>2. m \in Manifest[p] /\ Manifest[p] \subseteq Nat
  BY <1>1, MigratorAssumption DEF IInv, TodoOfImage
<1>3. ASSUME NEW k \in Manifest[p], k < m PROVE k \in ledger
  BY <1>1, <1>2, <1>3 DEF IInv, DoneIsRecorded
<1> QED BY <1>2, <1>3

(* Files are recorded in the order of the image that brings them and never  *)
(* taken back, whoever holds the lease or believes to.                      *)
THEOREM AppliedInOrderCorrect == Spec => AppliedInOrder
<1> DEFINE Step == /\ ledger \subseteq ledger'
                   /\ \A m \in ledger' \ ledger :
                        \E p \in Pods : /\ m \in Manifest[p]
                                        /\ \A k \in Manifest[p] : k < m => k \in ledger
<1>1. TypeOK /\ IInv /\ [Next]_vars => [Step]_vars
  BY LedgerGrows, OrderedStep
<1> QED BY <1>1, Invariance, PTL DEF Spec, AppliedInOrder
=============================================================================
