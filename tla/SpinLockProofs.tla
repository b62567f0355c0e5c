---------------------------- MODULE SpinLockProofs ----------------------------
(***************************************************************************)
(* Proofs about SpinLock, for every set of threads: mutual exclusion, and  *)
(* that the spin lock implements the abstract lock of module Mutex.        *)
(***************************************************************************)
EXTENDS SpinLock, TLAPS

LEMMA InitIInv == Init => IInv
  BY DEF Init, IInv, TypeOK, MutualExclusion, WordTellsInside, Inside, Pcs

\* One step per access of Lock() and Unlock(): the type, the exclusion and the
\* meaning of the word are kept together, for none of them is inductive alone.
LEMMA StepIInv == IInv /\ [Next]_vars => IInv'
  <1> SUFFICES ASSUME IInv, [Next]_vars PROVE IInv'
    OBVIOUS
  <1> USE DEF IInv, TypeOK, MutualExclusion, WordTellsInside, Inside, Pcs,
              Transition
  <1>1. ASSUME NEW t \in Threads, Enter(t) PROVE IInv'
    BY <1>1 DEF Enter
  <1>2. ASSUME NEW t \in Threads, TestAndSet(t) PROVE IInv'
    <2>1. CASE mutex = 0
      BY <1>2, <2>1 DEF TestAndSet
    <2>2. CASE mutex = 1
      BY <1>2, <2>2 DEF TestAndSet
    <2>3. QED BY <2>1, <2>2
  <1>3. ASSUME NEW t \in Threads, SpinRead(t) PROVE IInv'
    BY <1>3 DEF SpinRead
  <1>4. ASSUME NEW t \in Threads, Leave(t) PROVE IInv'
    <2>1. CASE Barrier(t)
      BY <2>1 DEF Barrier
    <2>2. CASE Store(t)
      BY <2>2 DEF Store
    <2>3. QED BY <1>4, <2>1, <2>2 DEF Leave
  <1>5. CASE UNCHANGED vars
    BY <1>5 DEF vars
  <1>6. QED BY <1>1, <1>2, <1>3, <1>4, <1>5 DEF Next, Step

\* The lock word stays 0 or 1 and every thread stays at a known place.
THEOREM TypeCorrect == Spec => []TypeOK
  <1>1. IInv => TypeOK BY DEF IInv
  <1>2. QED BY <1>1, InitIInv, StepIInv, PTL DEF Spec

\* At most one thread is between SP_LOCK and SP_UNLOCK (common/utils.cc Lock).
THEOREM MutualExclusionHolds == Spec => []MutualExclusion
  <1>1. IInv => MutualExclusion BY DEF IInv
  <1>2. QED BY <1>1, InitIInv, StepIInv, PTL DEF Spec

\* The word is 1 exactly while somebody is inside: no unlock is ever lost.
THEOREM WordTellsInsideHolds == Spec => []WordTellsInside
  <1>1. IInv => WordTellsInside BY DEF IInv
  <1>2. QED BY <1>1, InitIInv, StepIInv, PTL DEF Spec

-----------------------------------------------------------------------------
\* Who holds the abstract lock, from the places of the threads.
LEMMA HolderIsInside ==
  ASSUME IInv, NEW t \in Threads, Inside(t)
  PROVE  holder = t
  BY DEF IInv, MutualExclusion, holder

LEMMA HolderIsNobody ==
  ASSUME \A t \in Threads : ~ Inside(t)
  PROVE  holder = NoThread
  BY DEF holder

LEMMA InitRefines == Init => Lock!Init
  <1> SUFFICES ASSUME Init PROVE Lock!Init
    OBVIOUS
  <1>1. \A t \in Threads : ~ Inside(t) /\ ~ Waiting(t)
    BY DEF Init, Inside, Waiting
  <1>2. holder = NoThread
    BY <1>1, HolderIsNobody
  <1>3. waiting = {}
    BY <1>1 DEF waiting
  <1>4. QED BY <1>2, <1>3 DEF Lock!Init

\* A step that moves nobody in or out leaves the abstract holder alone.
LEMMA HolderUnchanged ==
  ASSUME IInv, IInv', \A t \in Threads : Inside(t) <=> Inside(t)'
  PROVE  holder' = holder
  <1>1. CASE \E t \in Threads : Inside(t)
    <2>1. PICK t \in Threads : Inside(t)
      BY <1>1
    <2>2. Inside(t)'
      BY <2>1
    <2>3. holder = t
      BY <2>1, HolderIsInside
    <2>4. holder' = t
      <3>1. \A u \in Threads : Inside(u)' => u = t
        BY <2>2 DEF IInv, MutualExclusion
      <3>2. QED BY <2>2, <3>1 DEF holder
    <2>5. QED BY <2>3, <2>4
  <1>2. CASE \A t \in Threads : ~ Inside(t)
    BY <1>2 DEF holder
  <1>3. QED BY <1>1, <1>2

\* Enter is Ask, the winning exchange is Acquire, the store is Release, and
\* the other accesses change nothing a user of the lock can see.
LEMMA StepRefines ==
  ASSUME IInv, IInv', [Next]_vars
  PROVE  [Lock!Next]_(Lock!vars)
  <1> USE ThreadsAssumption DEF IInv, TypeOK, Pcs, Transition
  <1> USE DEF Lock!vars
  <1>1. ASSUME NEW t \in Threads, Enter(t) PROVE Lock!Ask(t)
    <2>1. pc[t] = "out" /\ pc' = [pc EXCEPT ![t] = "exchange"]
      BY <1>1 DEF Enter
    <2>2. \A u \in Threads : Inside(u) <=> Inside(u)'
      BY <2>1 DEF Inside
    <2>3. holder' = holder
      BY <2>2, HolderUnchanged
    <2>4. t \notin waiting /\ waiting' = waiting \union {t}
      BY <2>1 DEF waiting, Waiting
    <2>5. holder # t
      <3>1. CASE \E u \in Threads : Inside(u)
        BY <3>1, <2>1, HolderIsInside DEF Inside
      <3>2. CASE \A u \in Threads : ~ Inside(u)
        BY <3>2, HolderIsNobody
      <3>3. QED BY <3>1, <3>2
    <2>6. QED BY <2>3, <2>4, <2>5 DEF Lock!Ask
  <1>2. ASSUME NEW t \in Threads, TestAndSet(t)
        PROVE Lock!Acquire(t) \/ UNCHANGED Lock!vars
    <2>1. CASE mutex = 0
      <3>1. pc[t] = "exchange" /\ pc' = [pc EXCEPT ![t] = "in"]
        BY <1>2, <2>1 DEF TestAndSet
      <3>2. \A u \in Threads : ~ Inside(u)
        BY <2>1 DEF WordTellsInside
      <3>3. holder = NoThread
        BY <3>2, HolderIsNobody
      <3>4. Inside(t)' /\ \A u \in Threads : Inside(u)' => u = t
        BY <3>1, <3>2 DEF Inside
      <3>5. holder' = t
        BY <3>4 DEF holder
      <3>6. t \in waiting /\ waiting' = waiting \ {t}
        BY <3>1 DEF waiting, Waiting
      <3>7. QED BY <3>3, <3>5, <3>6 DEF Lock!Acquire
    <2>2. CASE mutex = 1
      <3>1. pc[t] = "exchange" /\ pc' = [pc EXCEPT ![t] = "spin"]
        BY <1>2, <2>2 DEF TestAndSet
      <3>2. \A u \in Threads : Inside(u) <=> Inside(u)'
        BY <3>1 DEF Inside
      <3>3. holder' = holder
        BY <3>2, HolderUnchanged
      <3>4. waiting' = waiting
        BY <3>1 DEF waiting, Waiting
      <3>5. QED BY <3>3, <3>4
    <2>3. QED BY <2>1, <2>2
  <1>3. ASSUME NEW t \in Threads, SpinRead(t) \/ Barrier(t)
        PROVE UNCHANGED Lock!vars
    <2>1. \A u \in Threads : (Inside(u) <=> Inside(u)') /\ (Waiting(u) <=> Waiting(u)')
      BY <1>3 DEF SpinRead, Barrier, Inside, Waiting
    <2>2. holder' = holder
      BY <2>1, HolderUnchanged
    <2>3. waiting' = waiting
      BY <2>1 DEF waiting
    <2>4. QED BY <2>2, <2>3
  <1>4. ASSUME NEW t \in Threads, Store(t) PROVE Lock!Release(t)
    <2>1. pc[t] = "store" /\ pc' = [pc EXCEPT ![t] = "out"]
      BY <1>4 DEF Store
    <2>2. holder = t
      BY <2>1, HolderIsInside DEF Inside
    <2>3. \A u \in Threads : ~ Inside(u)'
      BY <2>1 DEF Inside, MutualExclusion
    <2>4. holder' = NoThread
      BY <2>3 DEF holder
    <2>5. waiting' = waiting
      BY <2>1 DEF waiting, Waiting
    <2>6. QED BY <2>2, <2>4, <2>5 DEF Lock!Release
  <1>5. CASE UNCHANGED vars
    BY <1>5 DEF vars, holder, waiting, Inside, Waiting
  <1>6. QED
    BY <1>1, <1>2, <1>3, <1>4, <1>5 DEF Next, Step, Leave, Lock!Next

\* Whatever a user of the lock can see of Lock() and Unlock() is a behaviour
\* of the abstract lock: the agent's modules may take it as one atomic step.
THEOREM SpinLockImplementsMutex == Spec => ImplementsMutex
  <1>1. IInv /\ IInv' /\ [Next]_vars => [Lock!Next]_(Lock!vars)
    BY StepRefines
  <1>2. QED
    BY <1>1, InitIInv, StepIInv, InitRefines, PTL
    DEF Spec, ImplementsMutex, Lock!Spec
=============================================================================
