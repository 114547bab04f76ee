-------------------------------- MODULE RWLock --------------------------------
(***************************************************************************)
(* The readers-writer lock of include/kingpin/Mutex.h: pthread_rwlock_t    *)
(* with a note of the writing thread, _wr_owner, that is read and written  *)
(* outside the lock.  A step is one access to _wr_owner or one pthread     *)
(* call.                                                                   *)
(***************************************************************************)
EXTENDS Naturals

CONSTANTS
    Threads,
    NoOwner,    \* 0, which is no thread's id
    InitOwner,  \* the value _wr_owner starts with: no constructor assigns it
    MaxDepth    \* bound: read locks a thread holds at once

ASSUME RWLockAssumption ==
    /\ NoOwner \notin Threads /\ MaxDepth \in Nat

VARIABLES
    writer,     \* the thread that holds the pthread lock for writing
    rd,         \* how often each thread holds it for reading
    wr_owner,   \* _wr_owner
    pc          \* the next step of each thread

vars == <<writer, rd, wr_owner, pc>>

TypeOK ==
    /\ writer \in Threads \cup {NoOwner} /\ rd \in [Threads -> 0..MaxDepth]
    /\ wr_owner \in Threads \cup {NoOwner, InitOwner}
    /\ pc \in [Threads -> {"idle", "rdlock", "assert", "own", "unlock", "thrown",
                           "aborted"}]

\* The object is new: for one with static storage InitOwner is NoOwner.
Init ==
    /\ writer = NoOwner /\ rd = [t \in Threads |-> 0] /\ wr_owner = InitOwner
    /\ pc = [t \in Threads |-> "idle"]

Goto(t, l) == pc' = [pc EXCEPT ![t] = l]
-----------------------------------------------------------------------------
\* rd_lock: refuses a thread that would wait for itself.
RdLock(t) ==
    /\ pc[t] = "idle" /\ rd[t] < MaxDepth
    /\ Goto(t, IF wr_owner = t THEN "thrown" ELSE "rdlock")
    /\ UNCHANGED <<writer, rd, wr_owner>>

\* pthread_rwlock_rdlock
RdAcquire(t) ==
    /\ pc[t] = "rdlock" /\ writer = NoOwner
    /\ rd' = [rd EXCEPT ![t] = @ + 1] /\ Goto(t, "assert")
    /\ UNCHANGED <<writer, wr_owner>>

\* assert(_wr_owner == 0): a failure aborts the process.
RdAssert(t) ==
    /\ pc[t] = "assert"
    /\ IF wr_owner = NoOwner
       THEN Goto(t, "idle")
       ELSE pc' = [u \in Threads |-> "aborted"]
    /\ UNCHANGED <<writer, rd, wr_owner>>

\* The caller catches the exception of rd_lock.
Catch(t) ==
    /\ pc[t] = "thrown"
    /\ Goto(t, "idle")
    /\ UNCHANGED <<writer, rd, wr_owner>>

\* wr_lock; a thread that reads does not ask for it.
WrLock(t) ==
    /\ pc[t] = "idle" /\ writer = NoOwner /\ \A u \in Threads : rd[u] = 0
    /\ writer' = t /\ Goto(t, "own")
    /\ UNCHANGED <<rd, wr_owner>>

\* Mutant: the note is not written.
WrOwn_Forgets(t) ==
    /\ pc[t] = "own"
    /\ Goto(t, "idle")
    /\ UNCHANGED <<writer, rd, wr_owner>>

WrOwn(t) ==
    /\ pc[t] = "own"
    /\ wr_owner' = t /\ Goto(t, "idle")
    /\ UNCHANGED <<writer, rd>>

\* Mutant: the note is not wiped.
Unlock_KeepsOwner(t) ==
    /\ pc[t] = "idle"
    /\ writer = t \/ rd[t] > 0
    /\ Goto(t, "unlock")
    /\ UNCHANGED <<writer, rd, wr_owner>>

\* unlock: the note is wiped before the lock is released.
Unlock(t) ==
    /\ pc[t] = "idle"
    /\ writer = t \/ rd[t] > 0
    /\ wr_owner' = IF wr_owner = t THEN NoOwner ELSE wr_owner
    /\ Goto(t, "unlock")
    /\ UNCHANGED <<writer, rd>>

\* Mutant: a writer gives back a read lock.
Release_Read(t) ==
    /\ pc[t] = "unlock"
    /\ rd' = [rd EXCEPT ![t] = @ - 1] /\ Goto(t, "idle")
    /\ UNCHANGED <<writer, wr_owner>>

\* pthread_rwlock_unlock
Release(t) ==
    /\ pc[t] = "unlock"
    /\ IF writer = t
       THEN writer' = NoOwner /\ UNCHANGED rd
       ELSE rd' = [rd EXCEPT ![t] = @ - 1] /\ UNCHANGED writer
    /\ Goto(t, "idle")
    /\ UNCHANGED wr_owner

ThreadStep(t) ==
    \/ RdLock(t)
    \/ RdAcquire(t)
    \/ RdAssert(t)
    \/ Catch(t)
    \/ WrLock(t)
    \/ WrOwn(t)
    \/ Unlock(t)
    \/ Release(t)

Next == \E t \in Threads : ThreadStep(t)

Spec == Init /\ [][Next]_vars
-----------------------------------------------------------------------------
(* Mutex.h:59 "assert(_wr_owner == 0)": whoever has just got the lock for  *)
(* reading finds no note of a writer, although writers set and wipe the    *)
(* note in steps of their own.                                             *)
AssertHolds ==
    \A t \in Threads : pc[t] = "assert" => wr_owner = NoOwner

(* Mutex.h:56 "cannot rd_lock() when already wr_lock()": the check throws  *)
(* for the thread that holds the lock for writing and for no other, and    *)
(* that thread never goes on to wait for its own lock.                     *)
RefusesTheWriterOnly ==
    \A t \in Threads :
        /\ pc[t] = "thrown" => writer = t
        /\ pc[t] = "rdlock" => writer # t
=============================================================================
