------------------------------- MODULE Context -------------------------------
(***************************************************************************)
(* Calls with a timeout (Context, ThrWithCtx): run() starts a thread for   *)
(* the function and waits, with epoll, for the thread to close the write   *)
(* end of a pipe; after the timeout it cancels the thread; in either case  *)
(* it joins it.  The write end is closed twice, by done() and by wait(),   *)
(* and several calls share one descriptor table: the second close may hit  *)
(* a number that has been given to another call meanwhile.                 *)
(*                                                                         *)
(* A step is one system call.  A descriptor number refers to nothing or to *)
(* one end of a call's pipe or its epoll instance: <<c, "r">>, <<c, "w">>, *)
(* <<c, "e">>.                                                             *)
(***************************************************************************)
EXTENDS Integers

CONSTANTS
    Calls,    \* the calls of run(), each with a Context of its own
    MaxFd,    \* descriptor numbers are 0..MaxFd
    Free,     \* what a free number refers to
    Hangs,    \* calls whose function does not return by itself
    Signals   \* calls whose epoll_wait a signal may interrupt

ASSUME ContextAssumption ==
    /\ MaxFd \in Nat /\ Free \notin Calls \X {"r", "w", "e"}
    /\ Hangs \subseteq Calls /\ Signals \subseteq Calls

VARIABLES
    fdt,      \* the descriptor table
    num,      \* the numbers a call has noted: _pfd[0], _pfd[1] and epfd
    pc,       \* run()'s next step in each call
    worker,   \* "none", "run" (in the function), "done" (in done()), "ended", "cancelled"
    cancel,   \* calls whose thread has been sent a cancellation
    n,        \* what epoll_wait returned
    ok,       \* what wait() returned
    hit,      \* history: calls that another call has closed a descriptor of
    finished  \* history: calls whose function has returned

vars == <<fdt, num, pc, worker, cancel, n, ok, hit, finished>>

Fd == 0..MaxFd
File == Calls \X {"r", "w", "e"}

TypeOK ==
    /\ fdt \in [Fd -> File \cup {Free}] /\ num \in [File -> Fd]
    /\ pc \in [Calls -> {"pipe", "create", "epoll", "ctl", "wait", "close0", "close1",
                         "close2", "cancel", "join", "returned", "thrown"}]
    /\ worker \in [Calls -> {"none", "run", "done", "ended", "cancelled"}]
    /\ cancel \in SUBSET {c \in Calls : ~ok[c]} /\ n \in [Calls -> -1..1]
    /\ ok \in [Calls -> BOOLEAN] /\ hit \in SUBSET Calls
    /\ finished \in SUBSET Calls

Init ==
    /\ fdt = [i \in Fd |-> Free] /\ num = [f \in File |-> 0]
    /\ pc = [c \in Calls |-> "pipe"] /\ worker = [c \in Calls |-> "none"]
    /\ cancel = {} /\ n = [c \in Calls |-> 0] /\ ok = [c \in Calls |-> FALSE]
    /\ hit = {} /\ finished = {}
-----------------------------------------------------------------------------
Goto(c, l) == pc' = [pc EXCEPT ![c] = l]

FreeFds == {i \in Fd : fdt[i] = Free}
Lowest(S) == CHOOSE i \in S : \A j \in S : i <= j

\* The kernel hands out the lowest free number.
Open(f) ==
    LET i == Lowest(FreeFds) IN
    /\ fdt' = [fdt EXCEPT ![i] = f] /\ num' = [num EXCEPT ![f] = i]

\* close, by call c, of the number it has noted for f; whatever is there goes.
Close(c, f) ==
    LET file == fdt[num[f]] IN
    /\ fdt' = [fdt EXCEPT ![num[f]] = Free]
    /\ hit' = IF file # Free /\ file[1] # c THEN hit \cup {file[1]} ELSE hit

\* Is the number a call has noted for f still f's?
Intact(f) == fdt[num[f]] = f
-----------------------------------------------------------------------------
(* ThrWithCtx::run, and the constructor of its Context. *)

Pipe(c) ==
    LET r == Lowest(FreeFds)
        w == Lowest(FreeFds \ {r})
    IN  /\ pc[c] = "pipe"
        /\ FreeFds # {} /\ FreeFds \ {r} # {}
        /\ fdt' = [fdt EXCEPT ![r] = <<c, "r">>, ![w] = <<c, "w">>]
        /\ num' = [num EXCEPT ![<<c, "r">>] = r, ![<<c, "w">>] = w]
        /\ Goto(c, "create")
        /\ UNCHANGED <<worker, cancel, n, ok, hit, finished>>

CreateThread(c) ==
    /\ pc[c] = "create"
    /\ worker' = [worker EXCEPT ![c] = "run"] /\ Goto(c, "epoll")
    /\ UNCHANGED <<fdt, num, cancel, n, ok, hit, finished>>

EpollCreate(c) ==
    /\ pc[c] = "epoll" /\ FreeFds # {}
    /\ Open(<<c, "e">>) /\ Goto(c, "ctl")
    /\ UNCHANGED <<worker, cancel, n, ok, hit, finished>>

\* epoll_ctl fails for a number that is free, or is not an epoll instance; so
\* does, here, a number that a third call has taken over.  An exception leaves
\* run() without a join.
EpollAdd(c) ==
    /\ pc[c] = "ctl"
    /\ Goto(c, IF Intact(<<c, "r">>) /\ Intact(<<c, "e">>) THEN "wait" ELSE "thrown")
    /\ UNCHANGED <<fdt, num, worker, cancel, n, ok, hit, finished>>

\* The read end is reported when it is open and the write end is not.
Hangup(c) == Intact(<<c, "r">>) /\ ~Intact(<<c, "w">>)

\* epoll_wait reports the hangup, reaches the timeout, or fails.
EpollWait(c) ==
    /\ pc[c] = "wait"
    /\ \E r \in -1..1 :
          /\ IF r = -1 THEN c \in Signals \/ ~Intact(<<c, "e">>)
                       ELSE Intact(<<c, "e">>) /\ (r = 1 <=> Hangup(c))
          /\ n' = [n EXCEPT ![c] = r]
    /\ Goto(c, "close0")
    /\ UNCHANGED <<fdt, num, worker, cancel, ok, hit, finished>>

WaitCloses(c) ==
    /\ \/ pc[c] = "close0" /\ Close(c, <<c, "r">>) /\ Goto(c, "close1")
       \/ pc[c] = "close1" /\ Close(c, <<c, "w">>) /\ Goto(c, "close2")
    /\ UNCHANGED <<num, worker, cancel, n, ok, finished>>

\* Mutant: the thread is cancelled in any case.
AfterWait_Cancel(r) == IF r = -1 THEN "thrown" ELSE "cancel"

AfterWait(r) == CASE r = -1 -> "thrown" [] r = 0 -> "cancel" [] r = 1 -> "join"

\* The last close; then wait() returns, or throws.
WaitReturns(c) ==
    /\ pc[c] = "close2"
    /\ Close(c, <<c, "e">>) /\ ok' = [ok EXCEPT ![c] = n[c] = 1]
    /\ Goto(c, AfterWait(n[c]))
    /\ UNCHANGED <<num, worker, cancel, n, finished>>

\* Mutant: a call that has timed out is not cancelled.
Cancelled_Nobody(c) == cancel

Cancelled(c) == cancel \cup {c}

Cancel(c) ==
    /\ pc[c] = "cancel"
    /\ cancel' = Cancelled(c) /\ Goto(c, "join")
    /\ UNCHANGED <<fdt, num, worker, n, ok, hit, finished>>

\* Mutant: there is nothing to wait for when the pipe has been closed.
Joinable_Closed(c) == worker[c] \in {"ended", "cancelled"} \/ ok[c]

\* Mutant: a thread that was cancelled is not waited for.
Joinable_Cancelled(c) == worker[c] \in {"ended", "cancelled"} \/ c \in cancel

Joinable(c) == worker[c] \in {"ended", "cancelled"}

Join(c) ==
    /\ pc[c] = "join" /\ Joinable(c)
    /\ Goto(c, "returned")
    /\ UNCHANGED <<fdt, num, worker, cancel, n, ok, hit, finished>>

RunStep(c) ==
    \/ Pipe(c) \/ CreateThread(c)
    \/ EpollCreate(c) \/ EpollAdd(c) \/ EpollWait(c) \/ WaitCloses(c) \/ WaitReturns(c)
    \/ Cancel(c) \/ Join(c)
-----------------------------------------------------------------------------
(* _thread_wrapper, in the thread of a call. *)

FunctionReturns(c) ==
    /\ worker[c] = "run" /\ c \notin Hangs
    /\ finished' = finished \cup {c} /\ worker' = [worker EXCEPT ![c] = "done"]
    /\ UNCHANGED <<fdt, num, pc, cancel, n, ok, hit>>

Done(c) ==
    /\ worker[c] = "done"
    /\ Close(c, <<c, "w">>) /\ worker' = [worker EXCEPT ![c] = "ended"]
    /\ UNCHANGED <<num, pc, cancel, n, ok, finished>>

\* Deferred cancellation: in the function, which is assumed to reach a
\* cancellation point, or in the close of done().
ActOnCancel(c) ==
    /\ worker[c] \in {"run", "done"} /\ c \in cancel
    /\ worker' = [worker EXCEPT ![c] = "cancelled"]
    /\ UNCHANGED <<fdt, num, pc, cancel, n, ok, hit, finished>>

WorkerStep(c) == FunctionReturns(c) \/ Done(c) \/ ActOnCancel(c)

Next == \E c \in Calls : RunStep(c) \/ WorkerStep(c)

\* Threads that can run are scheduled; a function that returns does so in the
\* end, and a cancelled one reaches a cancellation point.
Spec ==
    /\ Init /\ [][Next]_vars
    /\ \A c \in Calls : WF_vars(RunStep(c)) /\ WF_vars(WorkerStep(c))
-----------------------------------------------------------------------------
(* run() returns true only when the function has returned: the test reads  *)
(* the function's result then (test_context.cc:37).  This holds even if    *)
(* the write end was closed by a stale close of another call, thanks to    *)
(* the join (Context.cc:41-45, 51-52).                                     *)
TrueMeansFinished ==
    \A c \in Calls : pc[c] = "returned" /\ ok[c] => c \in finished

(* The thread works on run()'s stack frame (argCtx) and on the caller's    *)
(* arguments; it has ended when run() returns.  Only an exception, after a *)
(* signal or a stale close of another call, leaves it behind               *)
(* (Context.cc:28-29, 37-46).                                              *)
FrameOutlivesThread ==
    \A c \in Calls :
        /\ pc[c] = "returned" => worker[c] \in {"ended", "cancelled"}
        /\ pc[c] = "thrown" => c \in Signals \cup hit

(* README.md: "Function call timeout wrapper".  A call returns whether or  *)
(* not its function does, unless another call has closed its descriptors   *)
(* by closing a number twice (Context.cc:14, 25-31, 41-46).                *)
RunReturns ==
    \A c \in Calls :
        pc[c] = "create" ~> pc[c] \in {"returned", "thrown"} \/ c \in hit
=============================================================================
