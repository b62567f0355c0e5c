------------------------------- MODULE SpinLock -------------------------------
(***************************************************************************)
(* Lock() and Unlock() of common/utils.cc, one memory access per step, and *)
(* the SP_LOCK / SP_UNLOCK brackets every public interface of the agent    *)
(* puts around its body.  Lock() is a test-and-test-and-set spin lock:     *)
(* the outer loop exchanges 1 into the word, the inner loop only reads it. *)
(* Unlock() is a full barrier and a plain store of 0: it does not look at  *)
(* who is calling.                                                         *)
(***************************************************************************)
EXTENDS Naturals

CONSTANTS
  Threads,
  NoThread

ASSUME ThreadsAssumption == NoThread \notin Threads

VARIABLES
  mutex,   \* SpLock.mutex
  pc       \* where each thread is

vars == <<mutex, pc>>

Transition(t, from, to) ==
  /\ pc[t] = from
  /\ pc' = [pc EXCEPT ![t] = to]

\* InitLock(), which Agent::Go calls before any payload exists.
Init ==
  /\ mutex = 0
  /\ pc = [t \in Threads |-> "out"]

\* SP_LOCK calls Lock().
Enter(t) ==
  /\ Transition(t, "out", "exchange")
  /\ UNCHANGED mutex

\* Slip: the old value is read, the new one is not written by the exchange.
ReadOnlyExchange(t) ==
  /\ Transition(t, "exchange", IF mutex = 0 THEN "in" ELSE "spin")
  /\ UNCHANGED mutex

\* __sync_lock_test_and_set: the old value decides, the new one is 1.
TestAndSet(t) ==
  /\ Transition(t, "exchange", IF mutex = 0 THEN "in" ELSE "spin")
  /\ mutex' = 1

\* Slip: having read 0, the thread takes the lock without the exchange.
SpinReadEnters(t) ==
  /\ mutex = 0
  /\ Transition(t, "spin", "in")
  /\ UNCHANGED mutex

\* while (lock->mutex);  leaves only when it reads 0.
SpinRead(t) ==
  /\ mutex = 0
  /\ Transition(t, "spin", "exchange")
  /\ UNCHANGED mutex

\* SP_UNLOCK calls Unlock(): __sync_synchronize().
Barrier(t) ==
  /\ Transition(t, "in", "store")
  /\ UNCHANGED mutex

\* Slip: Unlock() returns without the store.
StoreLost(t) ==
  /\ Transition(t, "store", "out")
  /\ UNCHANGED mutex

\* lock->mutex = 0
Store(t) ==
  /\ Transition(t, "store", "out")
  /\ mutex' = 0

Leave(t) == Barrier(t) \/ Store(t)

Step(t) == Enter(t) \/ TestAndSet(t) \/ SpinRead(t) \/ Leave(t)

Next == \E t \in Threads : Step(t)

Spec == Init /\ [][Next]_vars

(***************************************************************************)
(* A thread the kernel keeps running leaves its critical section and keeps *)
(* trying to enter; nothing makes the exchange win.                        *)
(***************************************************************************)
Fairness ==
  \A t \in Threads : WF_vars(TestAndSet(t) \/ SpinRead(t) \/ Leave(t))

FairSpec == Spec /\ Fairness

-----------------------------------------------------------------------------
Pcs == {"out", "exchange", "spin", "in", "store"}

Inside(t)  == pc[t] \in {"in", "store"}
Waiting(t) == pc[t] \in {"exchange", "spin"}

\* The lock word is 0 or 1 and each thread is at one of the five places.
TypeOK ==
  /\ mutex \in {0, 1}
  /\ pc \in [Threads -> Pcs]

\* Between SP_LOCK and SP_UNLOCK there is one thread at most: the test and
\* the set of the outer loop are one access, the inner read decides nothing.
MutualExclusion ==
  \A t, u \in Threads : Inside(t) /\ Inside(u) => t = u

\* The word is 1 exactly while somebody is inside, so no Unlock() is lost
\* under a late exchange and the lock is never left taken by nobody.
WordTellsInside ==
  mutex = 1 <=> \E t \in Threads : Inside(t)

\* What the word and the places say of each other: the inductive invariant.
IInv == TypeOK /\ MutualExclusion /\ WordTellsInside

\* While somebody waits, somebody gets in: the spin never stalls everyone.
\* (That a given thread gets in is not promised: the lock is not fair.)
SomebodyEnters ==
  (\E t \in Threads : Waiting(t)) ~> (\E t \in Threads : Inside(t))

-----------------------------------------------------------------------------
\* The lock as its users see it.
holder == IF \E t \in Threads : Inside(t)
            THEN CHOOSE t \in Threads : Inside(t)
            ELSE NoThread

waiting == {t \in Threads : Waiting(t)}

Lock == INSTANCE Mutex WITH Threads <- Threads, NoThread <- NoThread,
                           holder <- holder, waiting <- waiting

\* Every step of Lock() and Unlock() is a step of the abstract lock or no
\* step of it at all.
ImplementsMutex == Lock!Spec
=============================================================================
