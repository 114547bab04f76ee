---------------------------- MODULE ContextProofs ----------------------------
(* Proofs about calls with a timeout, for any number of calls, whatever    *)
(* their functions do and whichever descriptors a stale close hits.        *)
EXTENDS Context, WellFoundedInduction, TLAPS

\* What the thread of a call has done, and what run() knows of it.
ThreadsAgree ==
    \A c \in Calls :
        /\ pc[c] \in {"pipe", "create"} => worker[c] = "none"
        /\ pc[c] = "returned" => worker[c] \in {"ended", "cancelled"}
        /\ worker[c] \in {"done", "ended"} => c \in finished
        /\ worker[c] = "cancelled" => c \in cancel
        /\ c \in cancel => pc[c] \in {"join", "returned"} /\ ~ok[c]
        /\ pc[c] = "cancel" => ~ok[c]

Waiting(c) == pc[c] \in {"create", "epoll", "ctl", "wait", "close0"}

\* The descriptors of a call that no other call has hit.
FilesIntact ==
    \A c \in Calls \ hit :
        /\ Waiting(c) => Intact(<<c, "r">>)
        /\ Waiting(c) /\ worker[c] # "ended" => Intact(<<c, "w">>)
        /\ pc[c] \in {"ctl", "wait"} => Intact(<<c, "e">>)

\* Why wait() throws.
ThrowsForReason ==
    \A c \in Calls :
        /\ pc[c] \in {"close0", "close1", "close2"} /\ n[c] = -1 => c \in Signals \cup hit
        /\ pc[c] = "thrown" => c \in Signals \cup hit

Inv == TypeOK /\ ThreadsAgree /\ FilesIntact /\ ThrowsForReason

LEMMA InvSafe == Inv => TrueMeansFinished /\ FrameOutlivesThread
  BY DEF Inv, TypeOK, ThreadsAgree, ThrowsForReason, TrueMeansFinished, FrameOutlivesThread

LEMMA InitInv == Init => Inv
  BY ContextAssumption
  DEF Init, Inv, TypeOK, ThreadsAgree, FilesIntact, ThrowsForReason, Waiting, Fd, File
-----------------------------------------------------------------------------
(* The descriptor table. *)

(* There is a lowest number among some.                                    *)
LEMMA LowestIsIn == ASSUME NEW S \in SUBSET Fd, S # {} PROVE Lowest(S) \in S
  <1>1. S \subseteq Nat
    BY ContextAssumption DEF Fd
  <1>2. PICK i \in S : \A j \in S : ~(<<j, i>> \in OpToRel(<, Nat))
    BY ONLY <1>1, S # {}, NatLessThanWellFounded, WFMin, Zenon
  <1>3. \A j \in S : i <= j
    <2> TAKE j \in S
    <2>1. i \in Nat /\ j \in Nat
      BY <1>1
    <2>2. <<j, i>> \in Nat \X Nat /\ <<j, i>>[1] = j /\ <<j, i>>[2] = i
      BY <2>1
    <2>3. ~(j < i)
      BY <1>2, <2>2 DEF OpToRel
    <2> QED  BY <2>1, <2>3
  <1> QED  BY <1>3 DEF Lowest

(* What is opened is there, and nothing else is disturbed.                 *)
LEMMA OpenedIsIntact ==
    ASSUME TypeOK, NEW f \in File, NEW i \in Fd, fdt[i] = Free,
           fdt' = [fdt EXCEPT ![i] = f], num' = [num EXCEPT ![f] = i]
    PROVE  /\ fdt' \in [Fd -> File \cup {Free}] /\ num' \in [File -> Fd]
           /\ Intact(f)'
           /\ \A g \in File : g # f /\ Intact(g) => Intact(g)'
  <1>1. fdt \in [Fd -> File \cup {Free}] /\ num \in [File -> Fd] /\ Free \notin File
    BY ContextAssumption DEF TypeOK, File
  <1> QED  BY <1>1 DEF Intact

(* A close takes what it is meant for, or something of another call, which *)
(* is then noted.                                                          *)
LEMMA ClosedAtMost ==
    ASSUME TypeOK, NEW c \in Calls, NEW f \in File, f[1] = c, Close(c, f), UNCHANGED num
    PROVE  /\ fdt' \in [Fd -> File \cup {Free}]
           /\ hit \subseteq hit' /\ hit' \subseteq Calls
           /\ \A g \in File : Intact(g) /\ g[1] # c => Intact(g)' \/ g[1] \in hit'
           /\ \A g \in File : Intact(f) /\ Intact(g) /\ g # f => Intact(g)'
  <1>1. fdt \in [Fd -> File \cup {Free}] /\ num \in [File -> Fd] /\ Free \notin File
        /\ hit \subseteq Calls
    BY ContextAssumption DEF TypeOK, File
  <1>2. /\ fdt' = [fdt EXCEPT ![num[f]] = Free]
        /\ hit' = IF fdt[num[f]] # Free /\ fdt[num[f]][1] # c
                  THEN hit \cup {fdt[num[f]][1]} ELSE hit
    BY DEF Close
  <1>3. \A g \in File : g[1] \in Calls
    BY DEF File
  <1>4. fdt' \in [Fd -> File \cup {Free}] /\ hit \subseteq hit' /\ hit' \subseteq Calls
    BY <1>1, <1>2, <1>3
  <1>5. ASSUME NEW g \in File, Intact(g), g[1] # c PROVE Intact(g)' \/ g[1] \in hit'
    <2>1. fdt[num[g]] = g /\ num[g] \in Fd /\ g # Free
      BY <1>1, <1>5 DEF Intact
    <2>2. CASE num[g] = num[f]
      BY <1>2, <1>5, <2>1, <2>2
    <2>3. CASE num[g] # num[f]
      BY <1>1, <1>2, <2>1, <2>3 DEF Intact
    <2> QED  BY <2>2, <2>3
  <1>6. ASSUME NEW g \in File, Intact(f), Intact(g), g # f PROVE Intact(g)'
    <2>1. fdt[num[g]] = g /\ fdt[num[f]] = f /\ num[g] \in Fd
      BY <1>1, <1>6 DEF Intact
    <2> QED  BY <1>1, <1>2, <1>6, <2>1 DEF Intact
  <1> QED  BY <1>4, <1>5, <1>6
-----------------------------------------------------------------------------
(* The steps that open descriptors. *)

(* pipe finds two free numbers.                                            *)
LEMMA PipeInv == ASSUME Inv, NEW c \in Calls, Pipe(c) PROVE Inv'
  <1> DEFINE r == Lowest(FreeFds)
             w == Lowest(FreeFds \ {r})
             fr == <<c, "r">>
             fw == <<c, "w">>
  <1>1. /\ pc[c] = "pipe" /\ FreeFds # {} /\ FreeFds \ {r} # {}
        /\ fdt' = [fdt EXCEPT ![r] = fr, ![w] = fw]
        /\ num' = [num EXCEPT ![fr] = r, ![fw] = w]
        /\ pc' = [pc EXCEPT ![c] = "create"]
        /\ UNCHANGED <<worker, cancel, n, ok, hit, finished>>
    BY DEF Pipe, Goto
  <1>2. r \in FreeFds /\ w \in FreeFds \ {r}
    <2>1. FreeFds \in SUBSET Fd /\ FreeFds \ {r} \in SUBSET Fd
      BY DEF FreeFds
    <2> HIDE DEF r
    <2>2. w \in FreeFds \ {r}
      BY <1>1, <2>1, LowestIsIn
    <2> USE DEF r
    <2> QED  BY <1>1, <2>1, <2>2, LowestIsIn
  <1>3. r \in Fd /\ w \in Fd /\ fdt[r] = Free /\ fdt[w] = Free /\ r # w
    BY <1>2 DEF FreeFds
  <1> HIDE DEF r, w
  <1>4. fdt \in [Fd -> File \cup {Free}] /\ num \in [File -> Fd] /\ Free \notin File
        /\ fr \in File /\ fw \in File /\ fr # fw
    BY ContextAssumption DEF Inv, TypeOK, File
  <1>5. /\ fdt' \in [Fd -> File \cup {Free}] /\ num' \in [File -> Fd]
        /\ Intact(fr)' /\ Intact(fw)'
        /\ \A g \in File : g # fr /\ g # fw /\ Intact(g) => Intact(g)'
    BY <1>1, <1>3, <1>4 DEF Intact
  <1>6. TypeOK'
    BY <1>1, <1>5 DEF Inv, TypeOK
  <1>7. ThreadsAgree' /\ ThrowsForReason'
    BY <1>1 DEF Inv, TypeOK, ThreadsAgree, ThrowsForReason
  <1>8. FilesIntact'
    <2> SUFFICES ASSUME NEW d \in Calls \ hit
                 PROVE  /\ Waiting(d)' => Intact(<<d, "r">>)'
                        /\ Waiting(d)' /\ worker'[d] # "ended" => Intact(<<d, "w">>)'
                        /\ pc'[d] \in {"ctl", "wait"} => Intact(<<d, "e">>)'
      BY <1>1 DEF FilesIntact
    <2>1. CASE d = c
      <3>1. pc'[d] = "create"
        BY <2>1, <1>1 DEF Inv, TypeOK
      <3> QED  BY <3>1, <2>1, <1>5
    <2>2. CASE d # c
      <3>1. pc'[d] = pc[d] /\ worker' = worker
        BY <2>2, <1>1 DEF Inv, TypeOK
      <3>2. \A x \in {"r", "w", "e"} : <<d, x>> \in File /\ <<d, x>> # fr /\ <<d, x>> # fw
        BY <2>2 DEF File
      <3> QED  BY <3>1, <3>2, <1>5 DEF Inv, FilesIntact, Waiting
    <2> QED  BY <2>1, <2>2
  <1> QED  BY <1>6, <1>7, <1>8 DEF Inv

(* So does epoll_create.                                                   *)
LEMMA EpollCreateInv == ASSUME Inv, NEW c \in Calls, EpollCreate(c) PROVE Inv'
  <1> DEFINE i == Lowest(FreeFds)
             f == <<c, "e">>
  <1>1. /\ pc[c] = "epoll" /\ FreeFds # {}
        /\ fdt' = [fdt EXCEPT ![i] = f] /\ num' = [num EXCEPT ![f] = i]
        /\ pc' = [pc EXCEPT ![c] = "ctl"]
        /\ UNCHANGED <<worker, cancel, n, ok, hit, finished>>
    BY DEF EpollCreate, Open, Goto
  <1>2. i \in Fd /\ fdt[i] = Free
    <2>1. FreeFds \in SUBSET Fd
      BY DEF FreeFds
    <2>2. i \in FreeFds
      BY <1>1, <2>1, LowestIsIn
    <2> HIDE DEF i
    <2> QED  BY <2>2 DEF FreeFds
  <1> HIDE DEF i
  <1>3. f \in File /\ TypeOK
    BY DEF File, Inv
  <1>4. /\ fdt' \in [Fd -> File \cup {Free}] /\ num' \in [File -> Fd]
        /\ Intact(f)'
        /\ \A g \in File : g # f /\ Intact(g) => Intact(g)'
    BY <1>1, <1>2, <1>3, OpenedIsIntact
  <1>5. TypeOK'
    BY <1>1, <1>4 DEF Inv, TypeOK
  <1>6. ThreadsAgree' /\ ThrowsForReason'
    BY <1>1 DEF Inv, TypeOK, ThreadsAgree, ThrowsForReason
  <1>7. FilesIntact'
    <2> SUFFICES ASSUME NEW d \in Calls \ hit
                 PROVE  /\ Waiting(d)' => Intact(<<d, "r">>)'
                        /\ Waiting(d)' /\ worker'[d] # "ended" => Intact(<<d, "w">>)'
                        /\ pc'[d] \in {"ctl", "wait"} => Intact(<<d, "e">>)'
      BY <1>1 DEF FilesIntact
    <2>1. worker' = worker /\ (pc'[d] # pc[d] => d = c) /\ (d = c => Waiting(d))
      BY <1>1 DEF Inv, TypeOK, Waiting
    <2>2. <<d, "r">> \in File /\ <<d, "w">> \in File /\ <<d, "e">> \in File
          /\ <<d, "r">> # f /\ <<d, "w">> # f /\ (<<d, "e">> = f <=> d = c)
      BY DEF File
    <2>3. Waiting(d) => Intact(<<d, "r">>)
      BY DEF Inv, FilesIntact
    <2>4. Waiting(d) /\ worker[d] # "ended" => Intact(<<d, "w">>)
      BY DEF Inv, FilesIntact
    <2>5. pc[d] \in {"ctl", "wait"} => Intact(<<d, "e">>)
      BY DEF Inv, FilesIntact
    <2>6. Waiting(d)' => Waiting(d)
      BY <2>1 DEF Waiting
    <2> QED  BY <2>1, <2>2, <2>3, <2>4, <2>5, <2>6, <1>4
  <1> QED  BY <1>5, <1>6, <1>7 DEF Inv
-----------------------------------------------------------------------------
(* The steps that close descriptors. *)

(* What a close by call c leaves of the descriptors of the others.         *)
LEMMA OthersKeepFiles ==
    ASSUME Inv, NEW c \in Calls, NEW f \in File, f[1] = c, Close(c, f), UNCHANGED num,
           NEW d \in Calls \ hit', d # c, pc'[d] = pc[d], worker'[d] = worker[d]
    PROVE  /\ Waiting(d)' => Intact(<<d, "r">>)'
           /\ Waiting(d)' /\ worker'[d] # "ended" => Intact(<<d, "w">>)'
           /\ pc'[d] \in {"ctl", "wait"} => Intact(<<d, "e">>)'
  <1>1. TypeOK
    BY DEF Inv
  <1>2. /\ hit \subseteq hit'
        /\ \A g \in File : Intact(g) /\ g[1] # c => Intact(g)' \/ g[1] \in hit'
    BY <1>1, ClosedAtMost
  <1>3. \A x \in {"r", "w", "e"} : <<d, x>> \in File /\ <<d, x>>[1] = d
    BY DEF File
  <1>4. d \in Calls \ hit
    BY <1>2
  <1>5. \A x \in {"r", "w", "e"} : Intact(<<d, x>>) => Intact(<<d, x>>)'
    BY <1>2, <1>3
  <1> QED  BY <1>4, <1>5 DEF Inv, FilesIntact, Waiting

(* wait() closes the read end and the write end, or what has become of     *)
(* them.                                                                   *)
LEMMA WaitClosesInv == ASSUME Inv, NEW c \in Calls, WaitCloses(c) PROVE Inv'
  <1>1. PICK f \in {<<c, "r">>, <<c, "w">>} :
          /\ Close(c, f)
          /\ \/ pc[c] = "close0" /\ pc' = [pc EXCEPT ![c] = "close1"]
             \/ pc[c] = "close1" /\ pc' = [pc EXCEPT ![c] = "close2"]
    BY DEF WaitCloses, Goto
  <1>2. UNCHANGED <<num, worker, cancel, n, ok, finished>>
    BY DEF WaitCloses
  <1>3. f \in File /\ f[1] = c /\ TypeOK
    BY <1>1 DEF File, Inv
  <1>4. fdt' \in [Fd -> File \cup {Free}] /\ hit \subseteq hit' /\ hit' \subseteq Calls
    BY <1>1, <1>2, <1>3, ClosedAtMost
  <1>5. TypeOK'
    BY <1>1, <1>2, <1>4 DEF Inv, TypeOK
  <1>6. ThreadsAgree'
    BY <1>1, <1>2 DEF Inv, TypeOK, ThreadsAgree
  <1>7. ThrowsForReason'
    BY <1>1, <1>2, <1>4 DEF Inv, TypeOK, ThrowsForReason
  <1>8. FilesIntact'
    <2>1. ASSUME NEW d \in Calls \ hit', d # c
          PROVE  /\ Waiting(d)' => Intact(<<d, "r">>)'
                 /\ Waiting(d)' /\ worker'[d] # "ended" => Intact(<<d, "w">>)'
                 /\ pc'[d] \in {"ctl", "wait"} => Intact(<<d, "e">>)'
      <3>1. pc'[d] = pc[d] /\ worker'[d] = worker[d]
        BY <2>1, <1>1, <1>2 DEF Inv, TypeOK
      <3> QED  BY <3>1, <2>1, <1>1, <1>2, <1>3, OthersKeepFiles
    <2>2. ~Waiting(c)' /\ pc'[c] \notin {"ctl", "wait"}
      BY <1>1, <1>3 DEF TypeOK, Waiting
    <2> QED  BY <2>1, <2>2 DEF FilesIntact
  <1> QED  BY <1>5, <1>6, <1>7, <1>8 DEF Inv

(* wait() closes the epoll instance and returns: true if the pipe was hung *)
(* up, and an exception if epoll_wait failed.                              *)
LEMMA WaitReturnsInv == ASSUME Inv, NEW c \in Calls, WaitReturns(c) PROVE Inv'
  <1> DEFINE f == <<c, "e">>
  <1>1. /\ pc[c] = "close2" /\ Close(c, f)
        /\ ok' = [ok EXCEPT ![c] = n[c] = 1]
        /\ pc' = [pc EXCEPT ![c] = AfterWait(n[c])]
        /\ UNCHANGED <<num, worker, cancel, n, finished>>
    BY DEF WaitReturns, Goto
  <1>2. f \in File /\ f[1] = c /\ TypeOK
    BY DEF File, Inv
  <1> HIDE DEF f
  <1>3. fdt' \in [Fd -> File \cup {Free}] /\ hit \subseteq hit' /\ hit' \subseteq Calls
    BY <1>1, <1>2, ClosedAtMost
  <1>4. n[c] \in -1..1 /\ c \notin cancel
    BY <1>1 DEF Inv, TypeOK, ThreadsAgree
  <1>5. /\ n[c] = -1 => AfterWait(n[c]) = "thrown"
        /\ n[c] = 0 => AfterWait(n[c]) = "cancel"
        /\ n[c] = 1 => AfterWait(n[c]) = "join"
    BY DEF AfterWait
  <1>6. /\ pc'[c] \in {"thrown", "cancel", "join"}
        /\ pc'[c] = "thrown" => n[c] = -1
        /\ pc'[c] = "cancel" => n[c] = 0
        /\ \A d \in Calls : d # c => pc'[d] = pc[d] /\ ok'[d] = ok[d]
        /\ ok'[c] = (n[c] = 1)
        /\ pc' \in [Calls -> {"pipe", "create", "epoll", "ctl", "wait", "close0", "close1",
                              "close2", "cancel", "join", "returned", "thrown"}]
    <2>1. n[c] = -1 \/ n[c] = 0 \/ n[c] = 1
      BY <1>4
    <2> QED  BY <1>1, <1>2, <1>5, <2>1 DEF TypeOK
  <1>7. ok' \in [Calls -> BOOLEAN] /\ cancel' \in SUBSET {d \in Calls : ~ok'[d]}
    <2>1. ok' \in [Calls -> BOOLEAN]
      BY <1>1, <1>2 DEF TypeOK
    <2>2. \A d \in cancel : d \in Calls /\ d # c /\ ~ok[d]
      BY <1>2, <1>4 DEF TypeOK
    <2> QED  BY <2>1, <2>2, <1>1, <1>6
  <1>8. TypeOK'
    BY <1>1, <1>2, <1>3, <1>6, <1>7 DEF TypeOK
  <1>9. ThreadsAgree'
    <2> SUFFICES ASSUME NEW d \in Calls
                 PROVE  /\ pc'[d] \in {"pipe", "create"} => worker[d] = "none"
                        /\ pc'[d] = "returned" => worker[d] \in {"ended", "cancelled"}
                        /\ worker[d] \in {"done", "ended"} => d \in finished
                        /\ worker[d] = "cancelled" => d \in cancel
                        /\ d \in cancel => pc'[d] \in {"join", "returned"} /\ ~ok'[d]
                        /\ pc'[d] = "cancel" => ~ok'[d]
      BY <1>1 DEF ThreadsAgree
    <2>1. CASE d = c
      <3>1. pc'[d] = "cancel" => ~ok'[d]
        <4>1. pc'[c] = "cancel" => ~(n[c] = 1)
          BY <1>6
        <4>2. ok'[c] = (n[c] = 1)
          BY <1>6
        <4> QED  BY ONLY <4>1, <4>2, <2>1, Zenon
      <3> QED  BY <3>1, <2>1, <1>1, <1>4, <1>6 DEF Inv, ThreadsAgree
    <2>2. CASE d # c
      BY <2>2, <1>6 DEF Inv, ThreadsAgree
    <2> QED  BY <2>1, <2>2
  <1>10. ThrowsForReason'
    <2> SUFFICES ASSUME NEW d \in Calls
                 PROVE  /\ pc'[d] \in {"close0", "close1", "close2"} /\ n[d] = -1
                              => d \in Signals \cup hit'
                        /\ pc'[d] = "thrown" => d \in Signals \cup hit'
      BY <1>1 DEF ThrowsForReason
    <2>1. CASE d = c
      BY <2>1, <1>1, <1>3, <1>6 DEF Inv, ThrowsForReason
    <2>2. CASE d # c
      BY <2>2, <1>3, <1>6 DEF Inv, ThrowsForReason
    <2> QED  BY <2>1, <2>2
  <1>11. FilesIntact'
    <2>1. ASSUME NEW d \in Calls \ hit', d # c
          PROVE  /\ Waiting(d)' => Intact(<<d, "r">>)'
                 /\ Waiting(d)' /\ worker'[d] # "ended" => Intact(<<d, "w">>)'
                 /\ pc'[d] \in {"ctl", "wait"} => Intact(<<d, "e">>)'
      <3>1. pc'[d] = pc[d] /\ worker'[d] = worker[d]
        BY <2>1, <1>1, <1>6
      <3> QED  BY <3>1, <2>1, <1>1, <1>2, OthersKeepFiles
    <2>2. ~Waiting(c)' /\ pc'[c] \notin {"ctl", "wait"}
      BY <1>6 DEF Waiting
    <2> QED  BY <2>1, <2>2 DEF FilesIntact
  <1> QED  BY <1>8, <1>9, <1>10, <1>11 DEF Inv

(* done() closes the write end, which is still there while run() waits,    *)
(* or what has become of its number afterwards.                            *)
LEMMA DoneInv == ASSUME Inv, NEW c \in Calls, Done(c) PROVE Inv'
  <1> DEFINE f == <<c, "w">>
  <1>1. /\ worker[c] = "done" /\ Close(c, f)
        /\ worker' = [worker EXCEPT ![c] = "ended"]
        /\ UNCHANGED <<num, pc, cancel, n, ok, finished>>
    BY DEF Done
  <1>2. f \in File /\ f[1] = c /\ TypeOK
    BY DEF File, Inv
  <1>3. <<c, "r">> \in File /\ <<c, "e">> \in File /\ <<c, "r">> # f /\ <<c, "e">> # f
    BY DEF File
  <1> HIDE DEF f
  <1>4. /\ fdt' \in [Fd -> File \cup {Free}] /\ hit \subseteq hit' /\ hit' \subseteq Calls
        /\ \A g \in File : Intact(f) /\ Intact(g) /\ g # f => Intact(g)'
    BY <1>1, <1>2, ClosedAtMost
  <1>5. TypeOK'
    BY <1>1, <1>2, <1>4 DEF TypeOK
  <1>6. ThreadsAgree'
    BY <1>1, <1>2 DEF Inv, TypeOK, ThreadsAgree
  <1>7. ThrowsForReason'
    BY <1>1, <1>4 DEF Inv, ThrowsForReason
  <1>8. FilesIntact'
    <2>1. ASSUME NEW d \in Calls \ hit', d # c
          PROVE  /\ Waiting(d)' => Intact(<<d, "r">>)'
                 /\ Waiting(d)' /\ worker'[d] # "ended" => Intact(<<d, "w">>)'
                 /\ pc'[d] \in {"ctl", "wait"} => Intact(<<d, "e">>)'
      <3>1. pc'[d] = pc[d] /\ worker'[d] = worker[d]
        BY <2>1, <1>1, <1>2 DEF TypeOK
      <3> QED  BY <3>1, <2>1, <1>1, <1>2, OthersKeepFiles
    <2>2. ASSUME c \notin hit', Waiting(c)'
          PROVE  Intact(<<c, "r">>)' /\ (pc[c] \in {"ctl", "wait"} => Intact(<<c, "e">>)')
      <3>1. c \in Calls \ hit /\ Waiting(c) /\ worker[c] # "ended"
        BY <2>2, <1>1, <1>4 DEF Waiting
      <3>2. Intact(f) /\ Intact(<<c, "r">>) /\ (pc[c] \in {"ctl", "wait"} => Intact(<<c, "e">>))
        BY <3>1 DEF Inv, FilesIntact, f
      <3> QED  BY <3>2, <1>3, <1>4
    <2>3. worker'[c] = "ended" /\ (pc'[c] \in {"ctl", "wait"} => Waiting(c)')
      BY <1>1, <1>2 DEF TypeOK, Waiting
    <2> QED  BY <2>1, <2>2, <2>3, <1>1 DEF FilesIntact
  <1> QED  BY <1>5, <1>6, <1>7, <1>8 DEF Inv
-----------------------------------------------------------------------------
(* The steps that leave the descriptor table alone. *)

LEMMA SameTable ==
    ASSUME Inv, UNCHANGED <<fdt, num, hit>>,
           \A c \in Calls : /\ Waiting(c)' => Waiting(c)
                            /\ pc'[c] \in {"ctl", "wait"} => pc[c] \in {"ctl", "wait"}
                            /\ Waiting(c)' /\ worker'[c] # "ended" => worker[c] # "ended"
    PROVE  FilesIntact'
  <1>1. \A f : Intact(f)' <=> Intact(f)
    BY DEF Intact
  <1> QED  BY <1>1 DEF Inv, FilesIntact

LEMMA RunOtherInv ==
    ASSUME Inv, NEW c \in Calls,
           CreateThread(c) \/ EpollAdd(c) \/ EpollWait(c) \/ Cancel(c) \/ Join(c)
    PROVE  Inv'
  <1> USE DEF Goto
  <1>1. CASE CreateThread(c)
    <2>1. TypeOK' /\ ThreadsAgree' /\ ThrowsForReason'
      BY <1>1 DEF CreateThread, Inv, TypeOK, ThreadsAgree, ThrowsForReason
    <2>2. FilesIntact'
      BY <1>1, SameTable DEF CreateThread, Inv, TypeOK, ThreadsAgree, Waiting
    <2> QED  BY <2>1, <2>2 DEF Inv
  <1>2. CASE EpollAdd(c)
    <2>1. TypeOK' /\ ThreadsAgree'
      BY <1>2 DEF EpollAdd, Inv, TypeOK, ThreadsAgree
    <2>2. FilesIntact'
      BY <1>2, SameTable DEF EpollAdd, Inv, TypeOK, Waiting
    <2>3. ThrowsForReason'
      <3>1. pc'[c] = "thrown" => c \in hit
        BY <1>2 DEF EpollAdd, Inv, TypeOK, FilesIntact, Waiting
      <3> QED  BY <3>1, <1>2 DEF EpollAdd, Inv, TypeOK, ThrowsForReason
    <2> QED  BY <2>1, <2>2, <2>3 DEF Inv
  <1>3. CASE EpollWait(c)
    <2>1. TypeOK' /\ ThreadsAgree'
      BY <1>3 DEF EpollWait, Inv, TypeOK, ThreadsAgree
    <2>2. FilesIntact'
      BY <1>3, SameTable DEF EpollWait, Inv, TypeOK, Waiting
    <2>3. ThrowsForReason'
      <3>1. n'[c] = -1 => c \in Signals \cup hit
        BY <1>3 DEF EpollWait, Inv, TypeOK, FilesIntact
      <3> QED  BY <3>1, <1>3 DEF EpollWait, Inv, TypeOK, ThrowsForReason
    <2> QED  BY <2>1, <2>2, <2>3 DEF Inv
  <1>4. CASE Cancel(c)
    <2>1. TypeOK' /\ ThreadsAgree' /\ ThrowsForReason'
      BY <1>4 DEF Cancel, Cancelled, Inv, TypeOK, ThreadsAgree, ThrowsForReason
    <2>2. FilesIntact'
      BY <1>4, SameTable DEF Cancel, Inv, TypeOK, Waiting
    <2> QED  BY <2>1, <2>2 DEF Inv
  <1>5. CASE Join(c)
    <2>1. TypeOK' /\ ThreadsAgree' /\ ThrowsForReason'
      BY <1>5 DEF Join, Joinable, Inv, TypeOK, ThreadsAgree, ThrowsForReason
    <2>2. FilesIntact'
      BY <1>5, SameTable DEF Join, Inv, TypeOK, Waiting
    <2> QED  BY <2>1, <2>2 DEF Inv
  <1> QED  BY <1>1, <1>2, <1>3, <1>4, <1>5

LEMMA WorkerOtherInv ==
    ASSUME Inv, NEW c \in Calls, FunctionReturns(c) \/ ActOnCancel(c)
    PROVE  Inv'
  <1>1. TypeOK' /\ ThreadsAgree' /\ ThrowsForReason'
    BY DEF FunctionReturns, ActOnCancel, Inv, TypeOK, ThreadsAgree, ThrowsForReason
  <1>2. FilesIntact'
    BY SameTable DEF FunctionReturns, ActOnCancel, Inv, TypeOK, Waiting
  <1> QED  BY <1>1, <1>2 DEF Inv

LEMMA StepInv == ASSUME Inv, [Next]_vars PROVE Inv'
  <1>1. CASE UNCHANGED vars
    BY <1>1 DEF vars, Inv, TypeOK, ThreadsAgree, FilesIntact, ThrowsForReason, Waiting, Intact
  <1>2. ASSUME NEW c \in Calls, RunStep(c) \/ WorkerStep(c) PROVE Inv'
    BY <1>2, PipeInv, EpollCreateInv, WaitClosesInv, WaitReturnsInv, DoneInv, RunOtherInv,
       WorkerOtherInv DEF RunStep, WorkerStep
  <1> QED  BY <1>1, <1>2 DEF Next

(* run() returns true only when the function has returned (Context.cc:     *)
(* 41-46), for any number of calls and although done() and wait() both     *)
(* close _pfd[1].                                                          *)
THEOREM TrueOnlyWhenFinished == Spec => [](TypeOK /\ TrueMeansFinished)
  <1>1. Inv => TypeOK /\ TrueMeansFinished
    BY InvSafe DEF Inv
  <1> QED  BY <1>1, InitInv, StepInv, PTL DEF Spec

(* The thread has ended when run() returns, and run() leaves it behind     *)
(* with an exception only after a signal or a close by another call.       *)
THEOREM FrameIsSafe == Spec => []FrameOutlivesThread
  BY InvSafe, InitInv, StepInv, PTL DEF Spec

(* Every reachable state of the calls and of their descriptor table is     *)
(* well typed: in particular no call whose thread has been cancelled       *)
(* returns true (Context.cc:41-46).                                        *)
THEOREM ContextTypes == Spec => []TypeOK
  <1>1. Inv => TypeOK
    BY DEF Inv
  <1> QED  BY <1>1, InitInv, StepInv, PTL DEF Spec
=============================================================================
