------------------------------- MODULE RWLock -------------------------------
(***************************************************************************)
(* The sleeping locks of emu/lock.c: the QLock, which unlocks by handing   *)
(* the lock to the first in its queue, and the RWlock built from two of    *)
(* them.  x is where readers and writers queue up, k keeps writers out     *)
(* while there are readers, l is the spin lock around the reader count.    *)
(*                                                                         *)
(* The spin lock inside k is explicit, because rlock tries k with canqlock *)
(* and ignores the answer, which would be "no" if that spin lock happened  *)
(* to be taken; sections under the spin lock of x are one step.            *)
(***************************************************************************)
EXTENDS Integers, Sequences, FiniteSets

CONSTANTS Proc, NoProc

ASSUME ProcAssumption == NoProc \notin Proc /\ IsFiniteSet(Proc)

VARIABLES pc,        \* where each process is
          hand,      \* whom a process in qunlock hands the lock to
          xlocked, xq,         \* RWlock.x: locked, queue
          klocked, kq, kuse,   \* RWlock.k: locked, queue, holder of the spin lock
          lk,        \* holder of the spin lock RWlock.l
          readers    \* RWlock.readers

vars == <<pc, hand, xlocked, xq, klocked, kq, kuse, lk, readers>>

(***************************************************************************)
(* out            not in the lock                                          *)
(* rx, r2 .. r7   rlock: queued on x, lock(l), canqlock(k) in two steps,   *)
(*                unlock(l), qunlock(x), its hand-over                     *)
(* reading, u2 .. u5  runlock after lock(l): qunlock(k) in two steps, its  *)
(*                hand-over, unlock(l)                                     *)
(* wx, w2, w3, wk wlock: queued on x, qlock(k) in two steps, queued on k   *)
(* writing, v2 .. v5  wunlock: qunlock(k), its hand-over, qunlock(x), its  *)
(*                hand-over                                                *)
(***************************************************************************)
Parked == {"rx", "wx", "wk"}
PC == {"out", "r2", "r3", "r4", "r5", "r6", "r7", "reading", "u2", "u3", "u4", "u5",
       "w2", "w3", "writing", "v2", "v3", "v4", "v5"} \cup Parked

TypeOK ==
  /\ pc \in [Proc -> PC]
  /\ hand \in [Proc -> Proc \cup {NoProc}]
  /\ xlocked \in {0, 1} /\ klocked \in {0, 1}
  /\ xq \in Seq(Proc) /\ kq \in Seq(Proc)
  /\ kuse \in Proc \cup {NoProc}
  /\ lk \in Proc \cup {NoProc}
  /\ readers \in Nat

Init ==
  /\ pc = [p \in Proc |-> "out"]
  /\ hand = [p \in Proc |-> NoProc]
  /\ xlocked = 0 /\ xq = <<>>
  /\ klocked = 0 /\ kq = <<>> /\ kuse = NoProc
  /\ lk = NoProc
  /\ readers = 0

Goto(p, l) == pc' = [pc EXCEPT ![p] = l]

-----------------------------------------------------------------------------
(* QLock.                                                                  *)

\* Mutant of qunlock_x: the queue is not looked at.
qunlock_x_nohand(p) ==
  /\ pc[p] \in {"r6", "v4"}
  /\ xlocked' = 0
  /\ Goto(p, IF pc[p] = "r6" THEN "reading" ELSE "out")
  /\ UNCHANGED <<hand, xq, klocked, kq, kuse, lk, readers>>

\* qlock(&l->x), by a reader or a writer.
qlock_x(p, got, queued) ==
  /\ pc[p] = "out"
  /\ \/ xlocked = 0 /\ xlocked' = 1 /\ Goto(p, got) /\ UNCHANGED xq
     \/ xlocked = 1 /\ xq' = Append(xq, p) /\ Goto(p, queued) /\ UNCHANGED xlocked
  /\ UNCHANGED <<hand, klocked, kq, kuse, lk, readers>>

\* qunlock(&l->x): the lock stays locked and goes to the head of the queue.
qunlock_x(p) ==
  /\ pc[p] \in {"r6", "v4"}
  /\ \/ /\ xq # <<>>
        /\ xq' = Tail(xq) /\ hand' = [hand EXCEPT ![p] = Head(xq)]
        /\ Goto(p, IF pc[p] = "r6" THEN "r7" ELSE "v5")
        /\ UNCHANGED xlocked
     \/ /\ xq = <<>>
        /\ xlocked' = 0
        /\ Goto(p, IF pc[p] = "r6" THEN "reading" ELSE "out")
        /\ UNCHANGED <<xq, hand>>
  /\ UNCHANGED <<klocked, kq, kuse, lk, readers>>

\* lock(&k->use), in qlock and qunlock of k.
lock_kuse(p) ==
  /\ kuse = NoProc /\ kuse' = p
  /\ \/ pc[p] = "u2" /\ Goto(p, "u3")
     \/ pc[p] = "w2" /\ Goto(p, "w3")
     \/ pc[p] = "writing" /\ Goto(p, "v2")
  /\ UNCHANGED <<hand, xlocked, xq, klocked, kq, lk, readers>>

\* The rest of qlock(&l->k), in wlock.
qlock_k(p) ==
  /\ pc[p] = "w3"
  /\ kuse' = NoProc
  /\ \/ klocked = 0 /\ klocked' = 1 /\ Goto(p, "writing") /\ UNCHANGED kq
     \/ klocked = 1 /\ kq' = Append(kq, p) /\ Goto(p, "wk") /\ UNCHANGED klocked
  /\ UNCHANGED <<hand, xlocked, xq, lk, readers>>

\* The rest of qunlock(&l->k), in runlock and wunlock.
qunlock_k(p) ==
  /\ pc[p] \in {"u3", "v2"}
  /\ kuse' = NoProc
  /\ \/ /\ kq # <<>>
        /\ kq' = Tail(kq) /\ hand' = [hand EXCEPT ![p] = Head(kq)]
        /\ Goto(p, IF pc[p] = "u3" THEN "u4" ELSE "v3")
        /\ UNCHANGED klocked
     \/ /\ kq = <<>>
        /\ klocked' = 0
        /\ Goto(p, IF pc[p] = "u3" THEN "u5" ELSE "v4")
        /\ UNCHANGED <<kq, hand>>
  /\ UNCHANGED <<xlocked, xq, lk, readers>>

\* rendezvous(p, 0) of qunlock with rendezvous(up, 0) of qlock.
Then(l) ==
  IF l = "r7" THEN "reading" ELSE IF l = "u4" THEN "u5" ELSE IF l = "v3" THEN "v4" ELSE "out"
Granted(l) == IF l = "rx" THEN "r2" ELSE IF l = "wx" THEN "w2" ELSE "writing"

Handoff(p) ==
  /\ pc[p] \in {"r7", "u4", "v3", "v5"}
  /\ hand[p] # NoProc /\ pc[hand[p]] \in Parked
  /\ pc' = [pc EXCEPT ![p] = Then(@), ![hand[p]] = Granted(@)]
  /\ hand' = [hand EXCEPT ![p] = NoProc]
  /\ UNCHANGED <<xlocked, xq, klocked, kq, kuse, lk, readers>>

-----------------------------------------------------------------------------
(* RWlock.                                                                 *)

\* Mutants: a reader is not counted; the first reader does not lock k; a reader
\* that leaves is taken off twice; every reader that leaves lets writers in.
count_not(p) ==
  /\ pc[p] = "r2" /\ lk = NoProc
  /\ lk' = p /\ Goto(p, "r3")
  /\ UNCHANGED <<hand, xlocked, xq, klocked, kq, kuse, readers>>
canqlock_k_nolock(p) ==
  /\ pc[p] = "r4"
  /\ kuse' = NoProc /\ Goto(p, "r5")
  /\ UNCHANGED <<hand, xlocked, xq, klocked, kq, lk, readers>>
runlock_two(p) ==
  /\ pc[p] = "reading" /\ lk = NoProc
  /\ lk' = p /\ readers' = readers - 2 /\ Goto(p, "u5")
  /\ UNCHANGED <<hand, xlocked, xq, klocked, kq, kuse>>
runlock_any(p) ==
  /\ pc[p] = "reading" /\ lk = NoProc
  /\ lk' = p /\ readers' = readers - 1 /\ Goto(p, "u2")
  /\ UNCHANGED <<hand, xlocked, xq, klocked, kq, kuse>>

rlock(p) == qlock_x(p, "r2", "rx")
wlock(p) == qlock_x(p, "w2", "wx")

\* lock(&l->l); l->readers++.
count(p) ==
  /\ pc[p] = "r2" /\ lk = NoProc
  /\ lk' = p /\ readers' = readers + 1 /\ Goto(p, "r3")
  /\ UNCHANGED <<hand, xlocked, xq, klocked, kq, kuse>>

\* canlock(&k->use) of canqlock: if the spin lock is taken it gives up.
canlock_kuse(p) ==
  /\ pc[p] = "r3"
  /\ kuse' = IF kuse = NoProc THEN p ELSE kuse
  /\ Goto(p, IF kuse = NoProc THEN "r4" ELSE "r5")
  /\ UNCHANGED <<hand, xlocked, xq, klocked, kq, lk, readers>>

\* The rest of canqlock(&l->k), whose result rlock ignores.
canqlock_k(p) ==
  /\ pc[p] = "r4"
  /\ klocked' = 1 /\ kuse' = NoProc /\ Goto(p, "r5")
  /\ UNCHANGED <<hand, xlocked, xq, kq, lk, readers>>

\* unlock(&l->l), in rlock and in runlock.
unlock_l(p) ==
  /\ pc[p] \in {"r5", "u5"}
  /\ lk' = NoProc /\ Goto(p, IF pc[p] = "r5" THEN "r6" ELSE "out")
  /\ UNCHANGED <<hand, xlocked, xq, klocked, kq, kuse, readers>>

\* lock(&l->l); --l->readers: the last reader out unlocks k.
runlock(p) ==
  /\ pc[p] = "reading" /\ lk = NoProc
  /\ lk' = p /\ readers' = readers - 1
  /\ Goto(p, IF readers - 1 = 0 THEN "u2" ELSE "u5")
  /\ UNCHANGED <<hand, xlocked, xq, klocked, kq, kuse>>

-----------------------------------------------------------------------------
Inside(p) ==
  \/ qunlock_x(p) \/ lock_kuse(p) \/ qlock_k(p) \/ qunlock_k(p) \/ Handoff(p)
  \/ count(p) \/ canlock_kuse(p) \/ canqlock_k(p) \/ unlock_l(p) \/ runlock(p)

Next == \E p \in Proc : Inside(p) \/ rlock(p) \/ wlock(p)

Spec == Init /\ [][Next]_vars

\* Who is inside the lock keeps running and leaves; nobody has to come.
FairSpec == Spec /\ \A p \in Proc : WF_vars(Inside(p))

-----------------------------------------------------------------------------
(* Properties.                                                             *)

\* A writer shares the lock with nobody (rlock, wlock).
Exclusion ==
  \A p, q \in Proc : pc[p] = "writing" /\ pc[q] \in {"reading", "writing"} => p = q

Counted == {"r3", "r4", "r5", "r6", "r7", "reading"}

\* l->readers is the number of readers, between any two steps of any of them.
ReadersCounted == readers = Cardinality({p \in Proc : pc[p] \in Counted})

\* "block writers if we are the first reader": though rlock ignores the result of
\* canqlock, k is locked whenever there are readers and none is still trying, and
\* canqlock never gives up because its spin lock happens to be taken.
WritersKeptOut ==
  /\ \A p \in Proc : pc[p] = "r3" => kuse = NoProc
  /\ readers > 0 /\ (\A p \in Proc : pc[p] \notin {"r3", "r4"}) => klocked = 1

\* Nobody is passed over for ever: a writer in a queue gets the lock however many
\* readers come and go, and a reader however many writers do (qlock, qunlock).
Served ==
  \A p \in Proc :
    /\ pc[p] \in {"wx", "w2", "wk"} ~> pc[p] = "writing"
    /\ pc[p] = "rx" ~> pc[p] = "reading"

=============================================================================
