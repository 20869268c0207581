--------------------------- MODULE RWLock_proofs ---------------------------
(***************************************************************************)
(* Proofs that the RWlock excludes, counts its readers and keeps writers   *)
(* out, for any number of processes.                                       *)
(***************************************************************************)
EXTENDS RWLock, FiniteSetTheorems, Naturals, Sequences, TLAPS

\* Lists: what is on one, and that nothing is twice.
In(s, x) == \E i \in 1..Len(s) : s[i] = x
NoDup(s) == \A i, j \in 1..Len(s) : s[i] = s[j] => i = j

\* The list operations stay within sequences of processes.
LEMMA QueueOps ==
  ASSUME NEW S, NEW s \in Seq(S), NEW e \in S
  PROVE  /\ Append(s, e) \in Seq(S)
         /\ <<e>> \o s \in Seq(S)
         /\ s # <<>> => Head(s) \in S /\ Tail(s) \in Seq(S)
         /\ s # <<>> => Append(Tail(s), e) \in Seq(S)
  OBVIOUS

\* Linking a process in at the tail (qlock).
LEMMA InAppend ==
  ASSUME NEW S, NEW s \in Seq(S), NEW e \in S, NoDup(s), ~ In(s, e)
  PROVE  NoDup(Append(s, e)) /\ \A x \in S : In(Append(s, e), x) <=> In(s, x) \/ x = e
  BY DEF In, NoDup

\* Unlinking the head (qunlock).
LEMMA InTail ==
  ASSUME NEW S, NEW s \in Seq(S), s # <<>>, NoDup(s)
  PROVE  /\ Tail(s) \in Seq(S) /\ Head(s) \in S /\ NoDup(Tail(s))
         /\ In(s, Head(s)) /\ ~ In(Tail(s), Head(s))
         /\ \A x \in S : In(s, x) <=> In(Tail(s), x) \/ x = Head(s)
<1> DEFINE t == Tail(s)
<1>1. t \in Seq(S) /\ Len(t) = Len(s) - 1 /\ Len(s) \in Nat \ {0} /\ Head(s) = s[1]
      /\ \A i \in 1..Len(t) : t[i] = s[i + 1]
  OBVIOUS
<1>2. \A i \in 2..Len(s) : i - 1 \in 1..Len(t) /\ s[i] = t[i - 1]
  BY <1>1
<1>3. Head(s) \in S
  BY <1>1
<1> HIDE DEF t
<1>4. NoDup(t)
  BY <1>1 DEF NoDup
<1>5. In(s, Head(s)) /\ ~ In(t, Head(s))
  BY <1>1 DEF In, NoDup
<1>6. \A x \in S : In(s, x) <=> In(t, x) \/ x = Head(s)
  BY <1>1, <1>2 DEF In
<1> QED
  BY <1>1, <1>3, <1>4, <1>5, <1>6 DEF t

(***************************************************************************)
(* The inductive invariant.  Each lock has at most one holder, the places  *)
(* in the code at which a process holds it being these sets; who is        *)
(* handed x keeps it locked all the while.                                 *)
(***************************************************************************)
XHold == {"r2", "r3", "r4", "r5", "r6", "r7", "w2", "w3", "wk", "writing", "v2", "v3", "v4", "v5"}
LHold == {"r3", "r4", "r5", "u2", "u3", "u4", "u5"}
UHold == {"r4", "u3", "w3", "v2"}
Unlocking == {"u2", "u3", "u4"}
Writing == {"writing", "v2"}

XInv ==
  /\ \A p, q \in Proc : pc[p] \in XHold /\ pc[q] \in XHold => p = q
  /\ xlocked = 0 => \A p \in Proc : pc[p] \notin XHold
LInv == \A p \in Proc : pc[p] \in LHold <=> lk = p
UInv == \A p \in Proc : pc[p] \in UHold <=> kuse = p

XQInv ==
  /\ NoDup(xq)
  /\ \A p \in Proc : In(xq, p) => pc[p] \in {"rx", "wx"}
  /\ \A p \in Proc : pc[p] \in {"r7", "v5"} =>
       hand[p] \in Proc /\ pc[hand[p]] \in {"rx", "wx"} /\ ~ In(xq, hand[p])

KQInv ==
  /\ NoDup(kq)
  /\ \A p \in Proc : In(kq, p) => pc[p] = "wk"
  /\ \A p \in Proc : pc[p] = "u4" =>
       hand[p] \in Proc /\ pc[hand[p]] = "wk" /\ ~ In(kq, hand[p])
  /\ \A p \in Proc : pc[p] # "v3"

KInv ==
  /\ \A p \in Proc : pc[p] \in Unlocking => readers = 0 /\ klocked = 1
  /\ \A p \in Proc : pc[p] \in Writing =>
       readers = 0 /\ klocked = 1 /\ \A q \in Proc : pc[q] \notin Unlocking
  /\ readers > 0 /\ (\A p \in Proc : pc[p] \notin {"r3", "r4"}) => klocked = 1

Locks == XInv /\ LInv /\ UInv
Queues == XQInv /\ KQInv
IInv == TypeOK /\ Locks /\ Queues /\ ReadersCounted /\ KInv

-----------------------------------------------------------------------------
\* The initial state of the lock satisfies every part of the invariant.
LEMMA InvInit == Init => IInv
<1> SUFFICES ASSUME Init PROVE IInv
  OBVIOUS
<1>1. TypeOK
  BY DEF Init, TypeOK, PC, Parked
<1>2. Locks
  BY ProcAssumption DEF Init, Locks, XInv, LInv, UInv, XHold, LHold, UHold
<1>3. Queues
  BY DEF Init, Queues, XQInv, KQInv, In, NoDup
<1>4. ReadersCounted
<2>1. {p \in Proc : pc[p] \in Counted} = {}
  BY DEF Init, Counted
<2> QED
  BY <2>1, FS_EmptySet DEF Init, ReadersCounted
<1>5. KInv
  BY DEF Init, KInv, Unlocking, Writing
<1> QED
  BY <1>1, <1>2, <1>3, <1>4, <1>5 DEF IInv

\* Every step of lock.c keeps the lock's variables well typed; runlock because
\* who reads is counted.
LEMMA TypeStep == IInv /\ [Next]_vars => TypeOK'
<1> SUFFICES ASSUME IInv, [Next]_vars PROVE TypeOK'
  OBVIOUS
<1> USE DEF IInv, TypeOK, PC, Parked, Goto
<1>1. CASE UNCHANGED vars
  BY <1>1 DEF vars
<1>2. ASSUME NEW p \in Proc, rlock(p) \/ wlock(p) PROVE TypeOK'
<2>1. Append(xq, p) \in Seq(Proc)
  BY QueueOps
<2> QED
  BY <1>2, <2>1 DEF rlock, wlock, qlock_x
<1>3. ASSUME NEW p \in Proc, qunlock_x(p) PROVE TypeOK'
<2>1. xq # <<>> => Head(xq) \in Proc /\ Tail(xq) \in Seq(Proc)
  BY <1>3, QueueOps
<2> QED
  BY <1>3, <2>1 DEF qunlock_x
<1>4. ASSUME NEW p \in Proc, lock_kuse(p) PROVE TypeOK'
  BY <1>4 DEF lock_kuse
<1>5. ASSUME NEW p \in Proc, qlock_k(p) PROVE TypeOK'
<2>1. Append(kq, p) \in Seq(Proc)
  BY QueueOps
<2> QED
  BY <1>5, <2>1 DEF qlock_k
<1>6. ASSUME NEW p \in Proc, qunlock_k(p) PROVE TypeOK'
<2>1. kq # <<>> => Head(kq) \in Proc /\ Tail(kq) \in Seq(Proc)
  BY <1>6, QueueOps
<2> QED
  BY <1>6, <2>1 DEF qunlock_k
<1>7. ASSUME NEW p \in Proc, Handoff(p) PROVE TypeOK'
  BY <1>7 DEF Handoff, Then, Granted
<1>8. ASSUME NEW p \in Proc, count(p) \/ canlock_kuse(p) \/ canqlock_k(p) \/ unlock_l(p) PROVE TypeOK'
  BY <1>8 DEF count, canlock_kuse, canqlock_k, unlock_l
<1>9. ASSUME NEW p \in Proc, runlock(p) PROVE TypeOK'
<2>1. readers # 0
<3> DEFINE R == {q \in Proc : pc[q] \in Counted}
<3>1. IsFiniteSet(R) /\ p \in R
  BY <1>9, ProcAssumption, FS_Subset DEF runlock, Counted
<3> QED
  BY <3>1, FS_EmptySet DEF ReadersCounted
<2> QED
  BY <1>9, <2>1 DEF runlock
<1> QED
  BY <1>1, <1>2, <1>3, <1>4, <1>5, <1>6, <1>7, <1>8, <1>9 DEF Next, Inside

\* No action hands x, l or the spin lock of k to a second holder.
LEMMA LocksStep == IInv /\ [Next]_vars => Locks'
<1> SUFFICES ASSUME IInv, [Next]_vars PROVE Locks'
  OBVIOUS
<1> USE ProcAssumption DEF IInv, TypeOK, Goto, Locks, XInv, LInv, UInv, XHold, LHold, UHold
<1>1. CASE UNCHANGED vars
  BY <1>1 DEF vars
<1>2. ASSUME NEW p \in Proc, rlock(p) PROVE Locks'
  BY <1>2 DEF rlock, qlock_x
<1>3. ASSUME NEW p \in Proc, wlock(p) PROVE Locks'
  BY <1>3 DEF wlock, qlock_x
<1>4. ASSUME NEW p \in Proc, qunlock_x(p) PROVE Locks'
  BY <1>4 DEF qunlock_x
<1>5. ASSUME NEW p \in Proc, lock_kuse(p) PROVE Locks'
  BY <1>5 DEF lock_kuse
<1>6. ASSUME NEW p \in Proc, qlock_k(p) PROVE Locks'
  BY <1>6 DEF qlock_k
<1>7. ASSUME NEW p \in Proc, qunlock_k(p) PROVE Locks'
  BY <1>7 DEF qunlock_k
<1>8. ASSUME NEW p \in Proc, Handoff(p) PROVE Locks'
  BY <1>8 DEF Handoff, Parked, Then, Granted, Queues, XQInv, KQInv
<1>9. ASSUME NEW p \in Proc, count(p) PROVE Locks'
  BY <1>9 DEF count
<1>10. ASSUME NEW p \in Proc, canlock_kuse(p) PROVE Locks'
  BY <1>10 DEF canlock_kuse
<1>11. ASSUME NEW p \in Proc, canqlock_k(p) PROVE Locks'
  BY <1>11 DEF canqlock_k
<1>12. ASSUME NEW p \in Proc, unlock_l(p) PROVE Locks'
  BY <1>12 DEF unlock_l
<1>13. ASSUME NEW p \in Proc, runlock(p) PROVE Locks'
  BY <1>13 DEF runlock
<1> QED
  BY <1>1, <1>2, <1>3, <1>4, <1>5, <1>6, <1>7, <1>8, <1>9, <1>10, <1>11, <1>12, <1>13 DEF Next, Inside

\* The queue of x: a process is in it once, and only while it waits there; who is
\* being handed x has been taken off.
LEMMA XQueueStep == IInv /\ [Next]_vars => XQInv'
<1> SUFFICES ASSUME IInv, [Next]_vars PROVE XQInv'
  OBVIOUS
<1> USE DEF IInv, TypeOK, Goto, Queues, XQInv
<1>1. CASE UNCHANGED vars
  BY <1>1 DEF vars
<1>2. ASSUME NEW p \in Proc, rlock(p) \/ wlock(p) PROVE XQInv'
<2>1. ~ In(xq, p)
  BY <1>2 DEF rlock, wlock, qlock_x
<2>2. NoDup(Append(xq, p)) /\ \A x \in Proc : In(Append(xq, p), x) <=> In(xq, x) \/ x = p
  BY <2>1, InAppend
<2>3. CASE xlocked = 0
  BY <1>2, <2>3 DEF rlock, wlock, qlock_x
<2>4. CASE xlocked = 1
<3>1. xq' = Append(xq, p) /\ hand' = hand /\ pc'[p] \in {"rx", "wx"} /\ pc[p] = "out"
  BY <1>2, <2>4 DEF rlock, wlock, qlock_x
<3>2. \A q \in Proc : q # p => pc'[q] = pc[q]
  BY <1>2 DEF rlock, wlock, qlock_x
<3> QED
  BY <2>2, <3>1, <3>2
<2> QED
  BY <2>3, <2>4
<1>3. ASSUME NEW p \in Proc, qunlock_x(p) PROVE XQInv'
<2>1. CASE xq = <<>>
  BY <1>3, <2>1 DEF qunlock_x
<2>2. CASE xq # <<>>
<3>1. /\ Head(xq) \in Proc /\ NoDup(Tail(xq)) /\ In(xq, Head(xq)) /\ ~ In(Tail(xq), Head(xq))
      /\ \A x \in Proc : In(xq, x) <=> In(Tail(xq), x) \/ x = Head(xq)
  BY <2>2, InTail
<3>2. xq' = Tail(xq) /\ hand' = [hand EXCEPT ![p] = Head(xq)]
  BY <1>3, <2>2 DEF qunlock_x
<3>3. \A q \in Proc : q # p => pc[q] \notin {"r7", "v5"} /\ pc'[q] = pc[q] /\ hand'[q] = hand[q]
  BY <1>3, <3>2 DEF qunlock_x, Locks, XInv, XHold
<3>4. pc[p] \in {"r6", "v4"} /\ pc'[p] \in {"r7", "v5"} /\ hand'[p] = Head(xq)
  BY <1>3, <2>2, <3>2 DEF qunlock_x
<3> QED
  BY <3>1, <3>2, <3>3, <3>4
<2> QED
  BY <2>1, <2>2
<1>4. ASSUME NEW p \in Proc, lock_kuse(p) \/ count(p) \/ canlock_kuse(p) \/ canqlock_k(p) \/ unlock_l(p) \/ runlock(p) PROVE XQInv'
  BY <1>4 DEF lock_kuse, count, canlock_kuse, canqlock_k, unlock_l, runlock
<1>5. ASSUME NEW p \in Proc, qlock_k(p) PROVE XQInv'
  BY <1>5 DEF qlock_k
<1>6. ASSUME NEW p \in Proc, qunlock_k(p) PROVE XQInv'
  BY <1>6 DEF qunlock_k
<1>7. ASSUME NEW p \in Proc, Handoff(p) PROVE XQInv'
  BY <1>7 DEF Handoff, Then, Granted, Parked, KQInv, Locks, XInv, XHold
<1> QED
  BY <1>1, <1>2, <1>3, <1>4, <1>5, <1>6, <1>7 DEF Next, Inside

\* The same of the queue of k, whose lock wunlock never hands to another: a writer
\* waiting for k holds x.
LEMMA KQueueStep == IInv /\ [Next]_vars => KQInv'
<1> SUFFICES ASSUME IInv, [Next]_vars PROVE KQInv'
  OBVIOUS
<1> USE DEF IInv, TypeOK, Goto, Queues, KQInv
<1>1. CASE UNCHANGED vars
  BY <1>1 DEF vars
<1>2. ASSUME NEW p \in Proc, rlock(p) \/ wlock(p) PROVE KQInv'
  BY <1>2 DEF rlock, wlock, qlock_x
<1>3. ASSUME NEW p \in Proc, qunlock_x(p) PROVE KQInv'
  BY <1>3 DEF qunlock_x
<1>4. ASSUME NEW p \in Proc, lock_kuse(p) \/ count(p) \/ canlock_kuse(p) \/ canqlock_k(p) \/ unlock_l(p) \/ runlock(p) PROVE KQInv'
  BY <1>4 DEF lock_kuse, count, canlock_kuse, canqlock_k, unlock_l, runlock
<1>5. ASSUME NEW p \in Proc, qlock_k(p) PROVE KQInv'
<2>1. ~ In(kq, p)
  BY <1>5 DEF qlock_k
<2>2. NoDup(Append(kq, p)) /\ \A x \in Proc : In(Append(kq, p), x) <=> In(kq, x) \/ x = p
  BY <2>1, InAppend
<2>3. CASE klocked = 0
  BY <1>5, <2>1, <2>3 DEF qlock_k
<2>4. CASE klocked = 1
<3>1. kq' = Append(kq, p) /\ hand' = hand /\ pc'[p] = "wk" /\ pc[p] = "w3"
  BY <1>5, <2>4 DEF qlock_k
<3>2. \A q \in Proc : q # p => pc'[q] = pc[q]
  BY <1>5 DEF qlock_k
<3> QED
  BY <2>2, <3>1, <3>2
<2> QED
  BY <2>3, <2>4
<1>6. ASSUME NEW p \in Proc, qunlock_k(p) PROVE KQInv'
<2>1. CASE kq = <<>>
  BY <1>6, <2>1 DEF qunlock_k
<2>2. CASE kq # <<>>
<3>1. /\ Head(kq) \in Proc /\ NoDup(Tail(kq)) /\ In(kq, Head(kq)) /\ ~ In(Tail(kq), Head(kq))
      /\ \A x \in Proc : In(kq, x) <=> In(Tail(kq), x) \/ x = Head(kq)
  BY <2>2, InTail
<3>2. kq' = Tail(kq) /\ hand' = [hand EXCEPT ![p] = Head(kq)]
  BY <1>6, <2>2 DEF qunlock_k
<3>3. pc[Head(kq)] = "wk"
  BY <3>1
<3>4. pc[p] = "u3"
  BY <1>6, <3>1, <3>3 DEF qunlock_k, Locks, XInv, XHold
<3>5. pc'[p] = "u4" /\ hand'[p] = Head(kq)
  BY <1>6, <2>2, <3>2, <3>4 DEF qunlock_k
<3>6. \A q \in Proc : q # p => pc[q] # "u4" /\ pc'[q] = pc[q] /\ hand'[q] = hand[q]
  BY <1>6, <3>2, <3>4 DEF qunlock_k, Locks, LInv, LHold
<3> QED
  BY <3>1, <3>2, <3>3, <3>4, <3>5, <3>6
<2> QED
  BY <2>1, <2>2
<1>7. ASSUME NEW p \in Proc, Handoff(p) PROVE KQInv'
  BY <1>7 DEF Handoff, Then, Granted, Parked, XQInv, Locks, LInv, LHold
<1> QED
  BY <1>1, <1>2, <1>3, <1>4, <1>5, <1>6, <1>7 DEF Next, Inside

\* Who reads is counted once, from readers++ of rlock to --readers of runlock.
LEMMA ReadersStep == IInv /\ [Next]_vars => ReadersCounted'
<1> SUFFICES ASSUME IInv, [Next]_vars PROVE ReadersCounted'
  OBVIOUS
<1> DEFINE R == {q \in Proc : pc[q] \in Counted}
<1>0. IsFiniteSet(R) /\ readers = Cardinality(R)
  BY ProcAssumption, FS_Subset DEF IInv, ReadersCounted
<1>1. CASE UNCHANGED vars
  BY <1>1 DEF IInv, vars, ReadersCounted
<1>2. ASSUME NEW p \in Proc, count(p) PROVE ReadersCounted'
<2>1. R' = R \cup {p} /\ p \notin R /\ readers' = readers + 1
  BY <1>2 DEF IInv, TypeOK, Goto, Counted, count
<2> HIDE DEF R
<2>2. Cardinality(R \cup {p}) = Cardinality(R) + 1
  BY <1>0, <2>1, FS_AddElement
<2>3. Cardinality(R') = readers'
  BY <1>0, <2>1, <2>2
<2> QED
  BY <2>3 DEF R, ReadersCounted
<1>3. ASSUME NEW p \in Proc, runlock(p) PROVE ReadersCounted'
<2>1. R' = R \ {p} /\ p \in R /\ readers' = readers - 1
  BY <1>3 DEF IInv, TypeOK, Goto, Counted, runlock
<2> HIDE DEF R
<2>2. Cardinality(R \ {p}) = Cardinality(R) - 1
  BY <1>0, <2>1, FS_RemoveElement
<2>3. Cardinality(R') = readers'
  BY <1>0, <2>1, <2>2
<2> QED
  BY <2>3 DEF R, ReadersCounted
<1>4. ASSUME NEW p \in Proc, Handoff(p) PROVE ReadersCounted'
<2>1. R' = R /\ readers' = readers
  BY <1>4 DEF IInv, TypeOK, Goto, Counted, Handoff, Then, Granted, Parked, Queues, KQInv, XQInv
<2> QED
  BY <1>0, <2>1 DEF ReadersCounted
<1>5. ASSUME NEW p \in Proc,
        \/ rlock(p) \/ wlock(p) \/ qunlock_x(p) \/ lock_kuse(p) \/ qlock_k(p)
        \/ qunlock_k(p) \/ canlock_kuse(p) \/ canqlock_k(p) \/ unlock_l(p)
      PROVE ReadersCounted'
<2>1. R' = R /\ readers' = readers
  BY <1>5 DEF IInv, TypeOK, Goto, Counted, rlock, wlock, qlock_x, qunlock_x, lock_kuse, qlock_k, qunlock_k, canlock_kuse,
       canqlock_k, unlock_l
<2> QED
  BY <1>0, <2>1 DEF ReadersCounted
<1> QED
  BY <1>1, <1>2, <1>3, <1>4, <1>5 DEF Next, Inside

\* rlock's canqlock never finds the spin lock of k taken.
LEMMA CanqlockTries ==
  ASSUME TypeOK, Locks, NEW p \in Proc, pc[p] = "r3" PROVE kuse = NoProc
<1> SUFFICES ASSUME kuse # NoProc PROVE FALSE
  OBVIOUS
<1>1. kuse \in Proc /\ pc[kuse] \in UHold /\ lk = p
  BY DEF TypeOK, Locks, UInv, LInv, LHold
<1>2. pc[kuse] \in XHold \/ pc[kuse] \in LHold
  BY <1>1 DEF UHold, XHold, LHold
<1>3. kuse = p
  BY <1>1, <1>2 DEF Locks, XInv, LInv, XHold
<1> QED
  BY <1>1, <1>3 DEF UHold

\* k stays locked while there are readers, a writer, or a reader unlocking it.
LEMMA KStep == IInv /\ [Next]_vars => KInv'
<1> SUFFICES ASSUME IInv, [Next]_vars PROVE KInv'
  OBVIOUS
<1> USE ProcAssumption DEF IInv, TypeOK, Goto, KInv, Unlocking, Writing
<1>1. CASE UNCHANGED vars
  BY <1>1 DEF vars
<1>2. ASSUME NEW p \in Proc, rlock(p) \/ wlock(p) PROVE KInv'
  BY <1>2 DEF rlock, wlock, qlock_x
<1>3. ASSUME NEW p \in Proc, qunlock_x(p) PROVE KInv'
  BY <1>3 DEF qunlock_x
<1>4. ASSUME NEW p \in Proc, lock_kuse(p) PROVE KInv'
  BY <1>4 DEF lock_kuse
<1>5. ASSUME NEW p \in Proc, qlock_k(p) PROVE KInv'
  BY <1>5 DEF qlock_k, Locks, XInv, XHold
<1>6. ASSUME NEW p \in Proc, qunlock_k(p) PROVE KInv'
  BY <1>6 DEF qunlock_k, Locks, XInv, XHold, LInv, LHold
<1>7. ASSUME NEW p \in Proc, Handoff(p) PROVE KInv'
  BY <1>7 DEF Handoff, Then, Granted, Parked, Queues, XQInv, KQInv, Locks, LInv, LHold
<1>8. ASSUME NEW p \in Proc, count(p) PROVE KInv'
  BY <1>8 DEF count, Locks, XInv, LInv, XHold, LHold
<1>9. ASSUME NEW p \in Proc, canlock_kuse(p) PROVE KInv'
<2>1. kuse = NoProc
  BY <1>9, CanqlockTries DEF canlock_kuse
<2> QED
  BY <1>9, <2>1 DEF canlock_kuse
<1>10. ASSUME NEW p \in Proc, canqlock_k(p) PROVE KInv'
  BY <1>10 DEF canqlock_k
<1>11. ASSUME NEW p \in Proc, unlock_l(p) PROVE KInv'
  BY <1>11 DEF unlock_l
<1>12. ASSUME NEW p \in Proc, runlock(p) PROVE KInv'
<2>1. readers # 0
<3> DEFINE R == {q \in Proc : pc[q] \in Counted}
<3>1. IsFiniteSet(R) /\ p \in R
  BY <1>12, FS_Subset DEF runlock, Counted
<3> QED
  BY <3>1, FS_EmptySet DEF ReadersCounted
<2>2. \A q \in Proc : pc[q] \notin {"r3", "r4"} \cup Unlocking
  BY <1>12 DEF runlock, Locks, LInv, LHold
<2> QED
  BY <1>12, <2>1, <2>2 DEF runlock
<1> QED
  BY <1>1, <1>2, <1>3, <1>4, <1>5, <1>6, <1>7, <1>8, <1>9, <1>10, <1>11, <1>12 DEF Next, Inside

\* The parts together are inductive.
LEMMA LockInvariant == Spec => []IInv
<1>1. IInv /\ [Next]_vars => IInv'
  BY TypeStep, LocksStep, XQueueStep, KQueueStep, ReadersStep, KStep DEF IInv, Queues
<1> QED
  BY <1>1, InvInit, PTL DEF Spec

-----------------------------------------------------------------------------
\* The types hold; in particular l->readers is never negative.
THEOREM TypeCorrect == Spec => []TypeOK
  BY LockInvariant, PTL DEF IInv

\* A writer shares the RWlock with nobody, for any number of processes.
THEOREM ReadersWriterExclusion == Spec => []Exclusion
<1>1. IInv => Exclusion
<2> SUFFICES ASSUME IInv, NEW p \in Proc, NEW q \in Proc,
                    pc[p] = "writing", pc[q] \in {"reading", "writing"}
             PROVE p = q
  BY DEF Exclusion
<2>1. CASE pc[q] = "writing"
  BY <2>1 DEF IInv, Locks, XInv, XHold
<2>2. CASE pc[q] = "reading"
<3> DEFINE R == {x \in Proc : pc[x] \in Counted}
<3>1. IsFiniteSet(R) /\ q \in R
  BY <2>2, ProcAssumption, FS_Subset DEF Counted
<3>2. readers # 0
  BY <3>1, FS_EmptySet DEF IInv, ReadersCounted
<3> QED
  BY <3>2 DEF IInv, KInv, Writing
<2> QED
  BY <2>1, <2>2
<1> QED
  BY <1>1, LockInvariant, PTL

\* l->readers is the number of readers, for any number of processes.
THEOREM ReadersCount == Spec => []ReadersCounted
  BY LockInvariant, PTL DEF IInv

\* canqlock in rlock does what its ignored result does not say: k is locked while
\* there are readers.
THEOREM FirstReaderLocks == Spec => []WritersKeptOut
<1>1. IInv => WritersKeptOut
  BY CanqlockTries DEF IInv, KInv, WritersKeptOut
<1> QED
  BY <1>1, LockInvariant, PTL

=============================================================================
