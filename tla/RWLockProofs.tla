---------------------------- MODULE RWLockProofs -----------------------------
(* Proofs about the readers-writer lock, for any number of threads. *)
EXTENDS RWLock, TLAPS

(* The note and the pthread lock agree: only the holder's id is written    *)
(* there, it stands there whenever the holder is outside wr_lock and       *)
(* unlock, and it is wiped before the lock is given back.                  *)
NoteAgrees ==
    /\ wr_owner \in Threads \cup {NoOwner}
    /\ \A t \in Threads :
          /\ wr_owner = t => writer = t /\ pc[t] # "unlock"
          /\ writer = t => /\ pc[t] \in {"idle", "own", "unlock", "thrown"}
                           /\ pc[t] \in {"idle", "thrown"} => wr_owner = t
          /\ pc[t] \in {"own", "thrown"} => writer = t

(* Readers and a writer exclude each other, and whoever is past            *)
(* pthread_rwlock_rdlock, or about to unlock, holds the lock; a thread in  *)
(* rd_lock has not reached the bound on nested read locks.                 *)
Exclusion ==
    /\ writer # NoOwner => \A t \in Threads : rd[t] = 0
    /\ \A t \in Threads :
          /\ pc[t] = "rdlock" => rd[t] < MaxDepth
          /\ pc[t] = "assert" => rd[t] > 0
          /\ pc[t] = "unlock" => writer = t \/ rd[t] > 0

IInv == TypeOK /\ NoteAgrees /\ Exclusion

(* A lock whose note starts as 0 starts in a state of the invariant.       *)
LEMMA InitIInv ==
    ASSUME InitOwner = NoOwner, Init
    PROVE  IInv
BY RWLockAssumption DEF Init, IInv, TypeOK, NoteAgrees, Exclusion

(* Every step of rd_lock, wr_lock and unlock preserves the invariant.      *)
LEMMA NextIInv ==
    ASSUME InitOwner = NoOwner, IInv, [Next]_vars
    PROVE  IInv'
<1> USE RWLockAssumption
<1>1. CASE UNCHANGED vars
  BY <1>1 DEF vars, IInv, TypeOK, NoteAgrees, Exclusion
<1>2. CASE Next
  <2> PICK t \in Threads : ThreadStep(t)
    BY <1>2 DEF Next
  <2>1. CASE RdLock(t)
    BY <2>1 DEF RdLock, Goto, IInv, TypeOK, NoteAgrees, Exclusion
  <2>2. CASE RdAcquire(t)
    BY <2>2 DEF RdAcquire, Goto, IInv, TypeOK, NoteAgrees, Exclusion
  <2>3. CASE RdAssert(t)
    <3>1. wr_owner = NoOwner
      BY <2>3 DEF RdAssert, IInv, TypeOK, NoteAgrees, Exclusion
    <3> QED BY <2>3, <3>1 DEF RdAssert, Goto, IInv, TypeOK, NoteAgrees, Exclusion
  <2>4. CASE Catch(t)
    BY <2>4 DEF Catch, Goto, IInv, TypeOK, NoteAgrees, Exclusion
  <2>5. CASE WrLock(t)
    BY <2>5 DEF WrLock, Goto, IInv, TypeOK, NoteAgrees, Exclusion
  <2>6. CASE WrOwn(t)
    BY <2>6 DEF WrOwn, Goto, IInv, TypeOK, NoteAgrees, Exclusion
  <2>7. CASE Unlock(t)
    BY <2>7 DEF Unlock, Goto, IInv, TypeOK, NoteAgrees, Exclusion
  <2>8. CASE Release(t)
    BY <2>8 DEF Release, Goto, IInv, TypeOK, NoteAgrees, Exclusion
  <2> QED BY <2>1, <2>2, <2>3, <2>4, <2>5, <2>6, <2>7, <2>8 DEF ThreadStep
<1> QED BY <1>1, <1>2

(* The invariant holds in every state of a lock whose note starts as 0.    *)
LEMMA SpecIInv ==
    ASSUME InitOwner = NoOwner
    PROVE  Spec => []IInv
BY InitIInv, NextIInv, PTL DEF Spec

(* The assertion in rd_lock (Mutex.h:59) never fails when the object has   *)
(* static storage, whatever the number of threads and however deep they    *)
(* nest their read locks.                                                  *)
THEOREM AssertNeverFails ==
    ASSUME InitOwner = NoOwner
    PROVE  Spec => [](TypeOK /\ AssertHolds)
<1>1. IInv => TypeOK /\ AssertHolds
  BY RWLockAssumption DEF IInv, TypeOK, NoteAgrees, Exclusion, AssertHolds
<1> QED BY <1>1, SpecIInv, PTL

(* rd_lock throws for the writing thread only, and never lets it wait for  *)
(* its own lock (Mutex.h:56).                                              *)
THEOREM RefusalIsExact ==
    ASSUME InitOwner = NoOwner
    PROVE  Spec => []RefusesTheWriterOnly
<1>1. IInv => RefusesTheWriterOnly
  BY RWLockAssumption DEF IInv, NoteAgrees, RefusesTheWriterOnly
<1> QED BY <1>1, SpecIInv, PTL
-----------------------------------------------------------------------------
(* Whatever _wr_owner holds in a new object, the calls of pthread are      *)
(* balanced: nobody reads while somebody writes, and nobody gives back a   *)
(* lock it does not hold.                                                  *)
LEMMA NextExclusion ==
    ASSUME TypeOK, Exclusion, [Next]_vars
    PROVE  TypeOK' /\ Exclusion'
<1> USE RWLockAssumption DEF TypeOK, Exclusion, Goto
<1>1. CASE UNCHANGED vars
  BY <1>1 DEF vars
<1>2. ASSUME NEW t \in Threads, ThreadStep(t)
      PROVE  TypeOK' /\ Exclusion'
  <2>1. CASE RdLock(t) \/ RdAcquire(t) \/ RdAssert(t) \/ Catch(t)
    BY <2>1 DEF RdLock, RdAcquire, RdAssert, Catch
  <2>2. CASE WrLock(t) \/ WrOwn(t)
    BY <2>2 DEF WrLock, WrOwn
  <2>3. CASE Unlock(t) \/ Release(t)
    BY <2>3 DEF Unlock, Release
  <2> QED BY <1>2, <2>1, <2>2, <2>3 DEF ThreadStep
<1> QED BY <1>1, <1>2 DEF Next

(* Readers and a writer exclude each other and the counts of read locks    *)
(* stay natural numbers, for every initial value of _wr_owner: what an     *)
(* uninitialized note can break is the assertion, never the exclusion.     *)
THEOREM ReadersExcludeWriter == Spec => [](TypeOK /\ Exclusion)
<1>1. Init => TypeOK /\ Exclusion
  BY RWLockAssumption DEF Init, TypeOK, Exclusion
<1> QED BY <1>1, NextExclusion, PTL DEF Spec
=============================================================================
