----------------------------- MODULE AsyncLogger -----------------------------
(***************************************************************************)
(* The asynchronous logger (lib/AsyncLogger.cc): every thread that logs    *)
(* appends to a buffer of its own, guarded by a RecursiveLock that is held *)
(* from the first << of a line to its END; a backend thread writes the     *)
(* buffers out, drops the entries of threads that have been silent for     *)
(* longer than _expired, and sleeps on a condition variable.  The map of   *)
(* entries is guarded by a readers-writer lock.                            *)
(*                                                                         *)
(* A step is a critical section of the map lock or a part of one between   *)
(* two blocking calls.  Sections under the write lock are one step, taken  *)
(* when nobody holds the lock.  Text is abstracted to tokens: the header   *)
(* _write_debug puts in front of a line, a part, the newline of END.       *)
(***************************************************************************)
EXTENDS Naturals, Sequences

CONSTANTS
    Tids,      \* the threads that log
    Backend,   \* _thr_ptr
    Expired,   \* _expired
    MaxOps,    \* bound: calls of operator<< per thread
    MaxTime    \* bound: the clock stops here

ASSUME LoggerAssumption ==
    /\ Backend \notin Tids /\ Expired \in Nat /\ MaxOps \in Nat
    /\ MaxTime \in Nat

VARIABLES
    entries,      \* the keys of _t_buffers
    buf,          \* get<0>: the buffer of an entry
    depth,        \* get<1>: how often its thread has locked the RecursiveLock
    count,        \* get<2>: operator<< calls since the last END
    stamp,        \* get<3>: time of the last END
    readers,      \* who holds _map_lock for reading
    pc,           \* next step of each thread
    op,           \* the operator<< a logging thread is executing: "put" or "end"
    todo,         \* the backend's iterator: entries still to be visited
    remove_list,
    shall_delay,
    stop,         \* _stop
    main,         \* the destructor: "run", "notify", "join", "done"
    out,          \* what has been written to _level, in order
    sent,         \* history: operator<< calls each thread has made
    now           \* scTime()

entryVars == <<entries, buf, depth, count, stamp>>
backendVars == <<todo, remove_list, shall_delay>>
clientVars == <<op, sent>>
vars == <<entryVars, readers, pc, clientVars, backendVars, stop, main, out, now>>

Token == {"head", "part", "end"}
LoggerPc == {"idle", "locked", "init", "relock", "notify"}
BackendPc == {"start", "scan", "remove", "check", "wait", "asleep", "woken", "exit"}

TypeOK ==
    /\ entries \in SUBSET Tids /\ buf \in [Tids -> Seq(Token)]
    /\ depth \in [Tids -> Nat] /\ count \in [Tids -> Nat]
    /\ stamp \in [Tids -> Nat] /\ readers \in SUBSET (Tids \cup {Backend})
    /\ pc \in [Tids \cup {Backend} -> LoggerPc \cup BackendPc \cup {"dead"}]
    /\ op \in [Tids -> {"put", "end"}] /\ todo \in SUBSET Tids
    /\ remove_list \in SUBSET Tids /\ shall_delay \in BOOLEAN
    /\ stop \in BOOLEAN /\ main \in {"run", "notify", "join", "done"}
    /\ out \in Seq(Tids \X Token) /\ sent \in [Tids -> 0..MaxOps]
    /\ now \in 0..MaxTime

Init ==
    /\ entries = {} /\ buf = [t \in Tids |-> <<>>] /\ depth = [t \in Tids |-> 0]
    /\ count = [t \in Tids |-> 0] /\ stamp = [t \in Tids |-> 0] /\ readers = {}
    /\ pc = [p \in Tids \cup {Backend} |-> IF p = Backend THEN "start" ELSE "idle"]
    /\ op = [t \in Tids |-> "put"] /\ todo = {} /\ remove_list = {}
    /\ shall_delay = TRUE /\ stop = FALSE /\ main = "run"
    /\ out = <<>> /\ sent = [t \in Tids |-> 0] /\ now = 0

Goto(p, l) == pc' = [pc EXCEPT ![p] = l]

(* A null pointer dereference ends the process, with all its threads.      *)
Crash == pc' = [p \in DOMAIN pc |-> "dead"]

WriterWaiting ==
    \/ \E t \in Tids : pc[t] = "init"
    \/ pc[Backend] \in {"remove", "check"}

\* Mutant: a lock that makes new readers queue behind a waiting writer.
CanRead_WriterFirst == ~WriterWaiting

\* pthread_rwlock_rdlock with the default attributes: a waiting writer does not
\* keep a reader out, and no write section is in progress between two steps.
CanRead == TRUE

CanWrite == readers = {}
-----------------------------------------------------------------------------
(* operator<<, for a part of a line and for END. *)

\* The application writes whole lines: after a part, the statement goes on to END.
NextOps(t) ==
    {o \in {"put", "end"} : sent[t] + (IF o = "put" THEN 1 ELSE 0) < MaxOps}

Enter(t) ==
    /\ pc[t] = "idle" /\ CanRead
    /\ \E o \in NextOps(t) : op' = [op EXCEPT ![t] = o]
    /\ sent' = [sent EXCEPT ![t] = @ + 1]
    /\ IF t \in entries
       THEN readers' = readers \cup {t} /\ Goto(t, "locked")
       ELSE Goto(t, "init") /\ UNCHANGED readers
    /\ UNCHANGED <<entryVars, backendVars, stop, main, out, now>>

\* _init_buffer
InitBuffer(t) ==
    /\ pc[t] = "init" /\ CanWrite
    /\ entries' = entries \cup {t} /\ buf' = [buf EXCEPT ![t] = <<>>]
    /\ depth' = [depth EXCEPT ![t] = 0] /\ count' = [count EXCEPT ![t] = 0]
    /\ stamp' = [stamp EXCEPT ![t] = now] /\ Goto(t, "relock")
    /\ UNCHANGED <<readers, clientVars, backendVars, stop, main, out, now>>

Relock(t) ==
    /\ pc[t] = "relock" /\ CanRead
    /\ readers' = readers \cup {t} /\ Goto(t, "locked")
    /\ UNCHANGED <<entryVars, clientVars, backendVars, stop, main, out, now>>

\* The map is not searched again after the relock: operator[] makes an entry of
\* null pointers when the backend has removed the thread's meanwhile.
NullEntry(t) ==
    /\ pc[t] = "locked" /\ t \notin entries /\ Crash
    /\ UNCHANGED <<entryVars, readers, clientVars, backendVars, stop, main, out, now>>

appendToBuffer(t, toks) == buf' = [buf EXCEPT ![t] = @ \o toks]

\* _write_debug puts the level, the time and the thread in front of a line.
Text(t) == IF count[t] = 0 THEN <<"head", "part">> ELSE <<"part">>

\* The body of operator<<(const char *).  The thread's own RecursiveLock is
\* taken at once: the backend holds it only within a step of its own.
Put(t) ==
    /\ pc[t] = "locked" /\ op[t] = "put" /\ t \in entries
    /\ depth' = [depth EXCEPT ![t] = @ + 1]
    /\ count' = [count EXCEPT ![t] = @ + 1]
    /\ appendToBuffer(t, Text(t))
    /\ readers' = readers \ {t} /\ Goto(t, "idle")
    /\ UNCHANGED <<entries, stamp, op, sent, backendVars, stop, main, out, now>>

\* Mutant: the lock END itself has taken is not counted.
Unlocks_Keeps(t) == count[t]

\* Mutant: one unlock too many.
Unlocks_Twice(t) == count[t] + 2

\* recur_num: the locks of the line, and the one END has taken itself.
Unlocks(t) == count[t] + 1

\* The body of operator<<(const AsyncLogger &).
End(t) ==
    /\ pc[t] = "locked" /\ op[t] = "end" /\ t \in entries
    /\ depth' = [depth EXCEPT ![t] = @ + 1 - Unlocks(t)]
    /\ count' = [count EXCEPT ![t] = 0]
    /\ appendToBuffer(t, <<"end">>)
    /\ stamp' = [stamp EXCEPT ![t] = now] /\ readers' = readers \ {t}
    /\ Goto(t, "notify")
    /\ UNCHANGED <<entries, op, sent, backendVars, stop, main, out, now>>

\* The backend's next step after somebody has called notify_one.
Notified == IF pc[Backend] = "asleep" THEN "woken" ELSE pc[Backend]

NotifyOne(t) ==
    /\ pc[t] = "notify"
    /\ pc' = [pc EXCEPT ![t] = "idle", ![Backend] = Notified]
    /\ UNCHANGED <<entryVars, readers, clientVars, backendVars, stop, main, out, now>>
-----------------------------------------------------------------------------
(* _run, the backend thread. *)

BeginScan ==
    /\ pc[Backend] = "start" /\ CanRead
    /\ readers' = readers \cup {Backend} /\ todo' = entries /\ remove_list' = {}
    /\ shall_delay' = TRUE /\ Goto(Backend, "scan")
    /\ UNCHANGED <<entryVars, clientVars, stop, main, out, now>>

\* Mutant: the backend does not wait for the line to end.
Unlocked_Ignored(t) == TRUE

\* unique_lock<RecursiveLock>: waits until the thread's line has ended.
Unlocked(t) == depth[t] = 0

Labelled(t) == [i \in DOMAIN buf[t] |-> <<t, buf[t][i]>>]

\* One round of the loop, holding the entry's lock.
VisitEntry(t) ==
    /\ pc[Backend] = "scan" /\ t \in todo /\ Unlocked(t)
    /\ todo' = todo \ {t}
    /\ IF buf[t] # <<>>
       THEN /\ out' = out \o Labelled(t)
            /\ buf' = [buf EXCEPT ![t] = <<>>] /\ shall_delay' = FALSE
            /\ UNCHANGED remove_list
       ELSE /\ remove_list' = IF stamp[t] + Expired < now
                              THEN remove_list \cup {t} ELSE remove_list
            /\ UNCHANGED <<out, buf, shall_delay>>
    /\ UNCHANGED <<entries, depth, count, stamp, readers, pc, clientVars,
                   stop, main, now>>

EndScan ==
    /\ pc[Backend] = "scan" /\ todo = {}
    /\ readers' = readers \ {Backend}
    /\ Goto(Backend, IF remove_list # {} THEN "remove"
                     ELSE IF shall_delay THEN "check" ELSE "start")
    /\ UNCHANGED <<entryVars, clientVars, backendVars, stop, main, out, now>>

\* Mutant: what the scan found is trusted.
Removable_Stale(t) == t \in remove_list

\* Only entries that are still empty are erased.
Removable(t) == t \in remove_list /\ buf[t] = <<>>

RemoveExpired ==
    /\ pc[Backend] = "remove" /\ CanWrite
    /\ entries' = {t \in entries : ~Removable(t)}
    /\ buf' = [t \in Tids |-> IF Removable(t) THEN <<>> ELSE buf[t]]
    /\ Goto(Backend, IF shall_delay THEN "check" ELSE "start")
    /\ UNCHANGED <<depth, count, stamp, readers, clientVars, backendVars,
                   stop, main, out, now>>

\* Mutant: the result of the scan is used without looking again.
NoLog_Stale == TRUE

\* _no_log
NoLog == \A t \in entries : buf[t] = <<>>

Recheck ==
    /\ pc[Backend] = "check" /\ CanWrite
    /\ shall_delay' = NoLog
    /\ Goto(Backend, IF ~NoLog THEN "start" ELSE IF stop THEN "exit" ELSE "wait")
    /\ UNCHANGED <<entryVars, readers, clientVars, todo, remove_list,
                   stop, main, out, now>>

\* _thr_cv.wait(lock): takes the read lock, releases it and sleeps.
CvWait ==
    /\ pc[Backend] = "wait" /\ CanRead
    /\ Goto(Backend, "asleep")
    /\ UNCHANGED <<entryVars, readers, clientVars, backendVars, stop, main, out, now>>

\* The condition variable may wake the backend by itself.
SpuriousWakeup ==
    /\ pc[Backend] = "asleep"
    /\ Goto(Backend, "woken")
    /\ UNCHANGED <<entryVars, readers, clientVars, backendVars, stop, main, out, now>>

\* The end of wait takes the read lock again, and the guard gives it back.
WakeUp ==
    /\ pc[Backend] = "woken" /\ CanRead
    /\ Goto(Backend, "start")
    /\ UNCHANGED <<entryVars, readers, clientVars, backendVars, stop, main, out, now>>
-----------------------------------------------------------------------------
(* The destructor, run by the main thread when the program ends. *)

SetStop ==
    /\ main = "run" /\ pc[Backend] # "dead" /\ CanRead
    /\ stop' = TRUE /\ main' = "notify"
    /\ UNCHANGED <<entryVars, readers, pc, clientVars, backendVars, out, now>>

NotifyStop ==
    /\ main = "notify" /\ pc[Backend] # "dead"
    /\ Goto(Backend, Notified) /\ main' = "join"
    /\ UNCHANGED <<entryVars, readers, clientVars, backendVars, stop, out, now>>

Join ==
    /\ main = "join" /\ pc[Backend] = "exit"
    /\ main' = "done"
    /\ UNCHANGED <<entryVars, readers, pc, clientVars, backendVars, stop, out, now>>

\* time() moves on.
Tick ==
    /\ now < MaxTime
    /\ now' = now + 1
    /\ UNCHANGED <<entryVars, readers, pc, clientVars, backendVars, stop, main, out>>
-----------------------------------------------------------------------------
\* The logger is not used after its destructor has returned.
LoggerStep(t) ==
    /\ main # "done"
    /\ \/ Enter(t)
       \/ InitBuffer(t)
       \/ Relock(t)
       \/ NullEntry(t)
       \/ Put(t)
       \/ End(t)
       \/ NotifyOne(t)

BackendStep ==
    BeginScan \/ (\E t \in Tids : VisitEntry(t)) \/ EndScan \/ RemoveExpired
    \/ Recheck \/ CvWait \/ WakeUp

MainStep == SetStop \/ NotifyStop \/ Join

Terminated == (main = "done" \/ pc[Backend] = "dead") /\ UNCHANGED vars

Next ==
    \/ \E t \in Tids : LoggerStep(t)
    \/ BackendStep
    \/ MainStep
    \/ SpuriousWakeup
    \/ Tick
    \/ Terminated

Spec == Init /\ [][Next]_vars

MidStatement(t) == pc[t] # "idle" \/ count[t] > 0

(* The scheduler runs every thread that can run.  A thread in the middle   *)
(* of a log statement goes on with it; it need not start another one, the  *)
(* program need not end, and the condition variable need not wake anybody. *)
(* A writer that waits for the map lock is served when the readers leave   *)
(* (glibc hands the lock over), hence strong fairness for it.              *)
FairSpec ==
    /\ Spec
    /\ WF_vars(BackendStep)
    /\ WF_vars(NotifyStop \/ Join)
    /\ \A t \in Tids : WF_vars(MidStatement(t) /\ LoggerStep(t))
    /\ \A t \in Tids : SF_vars(main # "done" /\ InitBuffer(t))
-----------------------------------------------------------------------------
(* README.md: "line buffered".  What has been written out is a sequence of *)
(* whole lines: the tokens of a line are adjacent, the last one is its     *)
(* END, and the header stands in front of the first part, although threads *)
(* log concurrently and the backend may come along at any point of a line  *)
(* (AsyncLogger.cc:94-97, 112-117, 130-134).                               *)
WholeLines ==
    \A i \in DOMAIN out :
        LET first == i = 1 \/ out[i - 1][2] = "end" IN
        /\ out[i][2] # "end" => /\ i < Len(out)
                                /\ out[i + 1][1] = out[i][1]
        /\ out[i][2] = "head" => first
        /\ out[i][2] = "part" => ~first

(* The buffers and the output are a log of lines: see LineLog.  No token   *)
(* is lost, repeated or reordered and only whole lines leave a buffer,     *)
(* also when the backend expires entries and their threads make new ones   *)
(* (AsyncLogger.cc:76-80, 94-97, 113-117, 129-147).                        *)
Lines == INSTANCE LineLog WITH pending <- buf
ImplementsLineLog == Lines!Spec

(* In the middle of a line the thread's entry is in the map, with the text *)
(* so far: the backend neither flushes half a line nor destroys a locked   *)
(* RecursiveLock, and END releases the lock exactly as often as the line   *)
(* has taken it (AsyncLogger.cc:94-95, 113-117, 144-145).                  *)
LineKeepsEntry ==
    \A t \in Tids :
        /\ depth[t] = count[t]
        /\ depth[t] > 0 => t \in entries /\ buf[t] # <<>>

(* When the backend thread ends, nothing is left in any buffer, although   *)
(* threads may have logged between its last scan and its decision to stop  *)
(* (AsyncLogger.cc:148-152).                                               *)
ExitsFlushed ==
    [][pc[Backend] # "exit" /\ pc'[Backend] = "exit" =>
          \A t \in Tids : buf[t] = <<>>]_vars

(* README.md: "Thread safe logger".  No interleaving of logging threads    *)
(* and the backend makes the program dereference a null pointer.           *)
NeverCrashes == pc[Backend] # "dead"

(* The backend's scan always ends, although it waits, holding the map      *)
(* lock, for every thread that is in the middle of a line.                 *)
ScanEnds == pc[Backend] = "scan" ~> pc[Backend] # "scan"

(* A thread that logs is never stuck: not behind the backend, which waits  *)
(* for it, and not behind a writer that waits for the backend.             *)
StatementFinishes ==
    \A t \in Tids : pc[t] # "idle" ~> pc[t] = "idle" \/ main = "done"

HasLine(t) == \E i \in DOMAIN buf[t] : buf[t][i] = "end"

(* README.md: "using backend thread for asynchronous output".  A line      *)
(* that has been ended while the program runs is eventually written out,   *)
(* without anybody having to log another one.                              *)
LineIsWritten ==
    \A t \in Tids : HasLine(t) ~> buf[t] = <<>> \/ stop
=============================================================================
