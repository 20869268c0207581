-------------------------- MODULE Rendezvous_proofs --------------------------
(***************************************************************************)
(* Proofs about the two layers in which a process of emu waits, for any    *)
(* number of processes, tags, values, Rendez structures and wakers.        *)
(*                                                                         *)
(* Below, rendezvous on Linux (LinuxRendez): it hands out its Tag          *)
(* structures to one waiter each, the post a waiter needs always comes,    *)
(* and it implements RendezAbs.  Above, the Sleep, Wakeup, swiproc and     *)
(* signal of proc.c (EmuProc), which use it as one step.                   *)
(***************************************************************************)
EXTENDS LinuxRendez, EmuProc, Naturals, Sequences, TLAPS

\* Lists: what is on one, and that nothing is twice.
In(s, x) == \E i \in 1..Len(s) : s[i] = x
NoDup(s) == \A i, j \in 1..Len(s) : s[i] = s[j] => i = j

\* The list operations stay within sequences of Tags.
LEMMA QueueOps ==
  ASSUME NEW S, NEW s \in Seq(S), NEW e \in S
  PROVE  /\ Append(s, e) \in Seq(S)
         /\ <<e>> \o s \in Seq(S)
         /\ s # <<>> => Head(s) \in S /\ Tail(s) \in Seq(S)
         /\ s # <<>> => Append(Tail(s), e) \in Seq(S)
  OBVIOUS

\* Linking a Tag in at the head of the free list.
LEMMA InPush ==
  ASSUME NEW S, NEW s \in Seq(S), NEW e \in S, NoDup(s), ~ In(s, e)
  PROVE  NoDup(<<e>> \o s) /\ \A x \in S : In(<<e>> \o s, x) <=> In(s, x) \/ x = e
<1> DEFINE u == <<e>> \o s
<1>1. u \in Seq(S) /\ Len(u) = Len(s) + 1 /\ u[1] = e /\ \A i \in 1..Len(s) : u[i + 1] = s[i]
  OBVIOUS
<1>2. \A i \in 2..Len(u) : i - 1 \in 1..Len(s) /\ u[i] = s[i - 1]
  BY <1>1
<1> HIDE DEF u
<1>3. NoDup(u)
<2>1. SUFFICES ASSUME NEW i \in 1..Len(u), NEW j \in 1..Len(u), u[i] = u[j] PROVE i = j
  BY DEF NoDup
<2>2. \A k \in 2..Len(u) : u[k] # e
  BY <1>2 DEF In
<2>3. CASE i = 1 \/ j = 1
  BY <1>1, <2>1, <2>2, <2>3
<2>4. CASE i \in 2..Len(u) /\ j \in 2..Len(u)
<3>1. i - 1 \in 1..Len(s) /\ j - 1 \in 1..Len(s) /\ s[i - 1] = s[j - 1]
  BY <1>2, <2>1, <2>4
<3> QED
  BY <3>1 DEF NoDup
<2> QED
  BY <1>1, <2>3, <2>4
<1>4. ASSUME NEW x \in S PROVE In(u, x) <=> In(s, x) \/ x = e
<2>1. ASSUME In(u, x), x # e PROVE In(s, x)
  BY <1>1, <1>2, <2>1 DEF In
<2>2. ASSUME NEW i \in 1..Len(s), s[i] = x PROVE i + 1 \in 1..Len(u) /\ u[i + 1] = x
  BY <1>1, <2>2
<2>3. In(s, x) => In(u, x)
  BY <2>2 DEF In
<2>4. 1 \in 1..Len(u)
  BY <1>1
<2> QED
  BY <1>1, <2>1, <2>3, <2>4 DEF In
<1> QED
  BY <1>3, <1>4 DEF u

\* Taking a Tag off the head of the free list.
LEMMA InTail ==
  ASSUME NEW S, NEW s \in Seq(S), s # <<>>, NoDup(s)
  PROVE  /\ Tail(s) \in Seq(S) /\ Head(s) \in S /\ NoDup(Tail(s))
         /\ In(s, Head(s)) /\ ~ In(Tail(s), Head(s))
         /\ \A x \in S : In(s, x) <=> In(Tail(s), x) \/ x = Head(s)
<1> DEFINE u == Tail(s)
<1>1. u \in Seq(S) /\ Len(u) = Len(s) - 1 /\ Len(s) \in Nat \ {0} /\ Head(s) = s[1]
      /\ \A i \in 1..Len(u) : u[i] = s[i + 1]
  OBVIOUS
<1>2. \A i \in 2..Len(s) : i - 1 \in 1..Len(u) /\ s[i] = u[i - 1]
  BY <1>1
<1>3. Head(s) \in S
  BY <1>1
<1> HIDE DEF u
<1>4. NoDup(u)
  BY <1>1 DEF NoDup
<1>5. In(s, Head(s)) /\ ~ In(u, Head(s))
  BY <1>1 DEF In, NoDup
<1>6. \A x \in S : In(s, x) <=> In(u, x) \/ x = Head(s)
  BY <1>1, <1>2 DEF In
<1> QED
  BY <1>1, <1>3, <1>4, <1>5, <1>6 DEF u

(***************************************************************************)
(* The inductive invariant.  TagsOwned is taken apart: a Tag has one       *)
(* waiter; it is in the table while it has one; the free list holds the    *)
(* others, once each; no two in the table have the same tag.  Locals says  *)
(* what a process' own variables mean at each place.                       *)
(***************************************************************************)
OneWaiter == \A p, q \in Proc : Waiting(p) /\ Waiting(q) /\ t[p] = t[q] => p = q
Table == \A x \in Tag : x \in ht <=> \E p \in Proc : Waiting(p) /\ t[p] = x
FreeList ==
  /\ NoDup(ft)
  /\ \A x \in Tag : In(ft, x) => x \notin ht
  /\ \A x \in Tag : x <= ntag <=> x \in ht \/ In(ft, x)
OneKey == \A x, y \in ht : tag[x] = tag[y] /\ tag[x] # None => x = y

Locals ==
  \A p \in Proc :
    /\ pc[p] = "out" => rval[p] = None
    /\ pc[p] = "post" => t[p] \in Tag /\ rval[p] \in Val
    /\ Waiting(p) => t[p] \in Tag /\ tval[t[p]] \in Val
    /\ pc[p] = "relock" => tag[t[p]] = None

Owned == OneWaiter /\ Table /\ FreeList /\ OneKey
IInv == TypeOK /\ Locals /\ Owned /\ PostComes

-----------------------------------------------------------------------------
\* The parts together are TagsOwned.
LEMMA OwnedIsTagsOwned == TypeOK /\ Locals /\ Owned => TagsOwned
<1> SUFFICES ASSUME TypeOK, Locals, Owned PROVE TagsOwned
  OBVIOUS
<1> USE DEF TypeOK
<1> DEFINE F == {ft[i] : i \in 1..Len(ft)}
<1>1. F \subseteq Tag /\ \A x \in Tag : x \in F <=> In(ft, x)
  BY DEF In
<1>2. 1..ntag = ht \cup F
<2>1. 1..ntag \subseteq Tag /\ \A x \in Tag : x \in 1..ntag <=> x <= ntag
  BY RendezAssumption DEF Tag
<2> QED
  BY <1>1, <2>1 DEF Owned, FreeList
<1>3. ht = {t[p] : p \in {q \in Proc : Waiting(q)}}
  BY DEF Owned, Table, Locals
<1>4. \A i \in 1..Len(ft) : ft[i] \notin ht
  BY <1>1 DEF Owned, FreeList, In
<1> QED
  BY <1>2, <1>3, <1>4 DEF TagsOwned, Owned, OneWaiter, OneKey, FreeList, NoDup

LEMMA InvInit == Init => IInv
<1> SUFFICES ASSUME Init PROVE IInv
  OBVIOUS
<1> USE DEF Init, Waiting
<1>1. TypeOK
  BY RendezAssumption DEF TypeOK
<1>2. Locals
  BY DEF Locals
<1>3. Owned
  BY DEF Owned, OneWaiter, Table, FreeList, OneKey, NoDup, In, Tag
<1>4. PostComes
  BY DEF PostComes
<1> QED
  BY <1>1, <1>2, <1>3, <1>4 DEF IInv

\* What Setup gets, from the free list or by making one, is a Tag that is not in the
\* table, and afterwards it is not free either.
LEMMA Fresh ==
  ASSUME IInv, NEW p, NEW k, NEW v, NEW x \in Tag, Setup(p, k, v, x)
  PROVE  /\ x \notin ht
         /\ ft' \in Seq(Tag) /\ ntag' \in 0..NTag
         /\ NoDup(ft') /\ ~ In(ft', x)
         /\ \A y \in Tag : In(ft', y) => In(ft, y)
         /\ \A y \in Tag : y <= ntag' <=> y \in ht \/ In(ft', y) \/ y = x
<1> USE DEF IInv, TypeOK, Owned, FreeList
<1>1. CASE ft # <<>> /\ x = Head(ft) /\ ft' = Tail(ft) /\ UNCHANGED ntag
<2>1. /\ Tail(ft) \in Seq(Tag) /\ NoDup(Tail(ft))
      /\ In(ft, x) /\ ~ In(Tail(ft), x)
      /\ \A y \in Tag : In(ft, y) <=> In(Tail(ft), y) \/ y = x
  BY <1>1, InTail
<2> QED
  BY <1>1, <2>1
<1>2. CASE ft = <<>> /\ ntag < NTag /\ x = ntag + 1 /\ ntag' = ntag + 1 /\ UNCHANGED ft
<2>1. ~ (x <= ntag)
  BY <1>2
<2>2. \A y \in Tag : y <= ntag' <=> y <= ntag \/ y = x
  BY <1>2 DEF Tag
<2>3. ntag' \in 0..NTag
  BY <1>2, RendezAssumption
<2> QED
  BY <1>2, <2>1, <2>2, <2>3
<1> QED
  BY <1>1, <1>2 DEF Setup

-----------------------------------------------------------------------------
(* One lemma per part; one step per action.                                *)

LEMMA TypeStep == IInv /\ [Next]_vars => TypeOK'
<1> SUFFICES ASSUME IInv, [Next]_vars PROVE TypeOK'
  OBVIOUS
<1> USE DEF IInv, TypeOK
<1>1. CASE UNCHANGED vars
  BY <1>1 DEF vars
<1>2. ASSUME NEW p \in Proc, NEW k \in Key, NEW v \in Val, NEW x \in Tag, Match(p, k, v, x)
      PROVE  TypeOK'
  BY <1>2 DEF Match
<1>3. ASSUME NEW p \in Proc, NEW k \in Key, NEW v \in Val, NEW x \in Tag, Setup(p, k, v, x)
      PROVE  TypeOK'
<2>1. ft' \in Seq(Tag) /\ ntag' \in 0..NTag
  BY <1>3, Fresh
<2> QED
  BY <1>3, <2>1 DEF Setup
<1>4. ASSUME NEW p \in Proc, Post(p) PROVE TypeOK'
  BY <1>4 DEF Post, Locals
<1>5. ASSUME NEW p \in Proc, Loop(p) PROVE TypeOK'
  BY <1>5 DEF Loop
<1>6. ASSUME NEW p \in Proc, Semop(p) PROVE TypeOK'
  BY <1>6 DEF Semop, Locals, Waiting
<1>7. ASSUME NEW p \in Proc, Eintr(p) PROVE TypeOK'
  BY <1>7 DEF Eintr
<1>8. ASSUME NEW p \in Proc, Return(p) PROVE TypeOK'
<2>1. t[p] \in Tag
  BY <1>8 DEF Return, Locals, Waiting
<2>2. <<t[p]>> \o ft \in Seq(Tag)
  BY <2>1, QueueOps
<2> QED
  BY <1>8, <2>1, <2>2 DEF Return
<1> QED
  BY <1>1, <1>2, <1>3, <1>4, <1>5, <1>6, <1>7, <1>8 DEF Next, Inside, rendezvous

LEMMA LocalsStep == IInv /\ [Next]_vars => Locals'
<1> SUFFICES ASSUME IInv, [Next]_vars PROVE Locals'
  OBVIOUS
<1> USE DEF IInv, TypeOK, Locals, Waiting
<1>1. CASE UNCHANGED vars
  BY <1>1 DEF vars
<1>2. ASSUME NEW p \in Proc, NEW k \in Key, NEW v \in Val, NEW x \in Tag, Match(p, k, v, x)
      PROVE  Locals'
<2>1. tval[x] \in Val
  BY <1>2 DEF Match, Owned, Table
<2> QED
  BY <1>2, <2>1 DEF Match
<1>3. ASSUME NEW p \in Proc, NEW k \in Key, NEW v \in Val, NEW x \in Tag, pc[p] = "out",
             Setup(p, k, v, x)
      PROVE  Locals'
<2>1. x \notin ht
  BY <1>3, Fresh
<2>2. \A q \in Proc : Waiting(q) => t[q] # x
  BY <2>1 DEF Owned, Table
<2> QED
  BY <1>3, <2>2 DEF Setup
<1>4. ASSUME NEW p \in Proc, Post(p) PROVE Locals'
  BY <1>4 DEF Post
<1>5. ASSUME NEW p \in Proc, Loop(p) PROVE Locals'
  BY <1>5 DEF Loop
<1>6. ASSUME NEW p \in Proc, Semop(p) \/ Eintr(p) PROVE Locals'
  BY <1>6 DEF Semop, Eintr
<1>7. ASSUME NEW p \in Proc, Return(p) PROVE Locals'
  BY <1>7 DEF Return, Owned, OneWaiter
<1> QED
  BY <1>1, <1>2, <1>3, <1>4, <1>5, <1>6, <1>7 DEF Next, Inside, rendezvous

LEMMA OwnedStep == IInv /\ [Next]_vars => Owned'
<1> SUFFICES ASSUME IInv, [Next]_vars PROVE Owned'
  OBVIOUS
<1> USE DEF IInv, TypeOK, Waiting
<1>1. CASE UNCHANGED vars
  BY <1>1 DEF vars, Owned, OneWaiter, Table, FreeList, OneKey
<1>2. ASSUME NEW p \in Proc, NEW k \in Key, NEW v \in Val, NEW x \in Tag, pc[p] = "out",
             Match(p, k, v, x)
      PROVE  Owned'
  BY <1>2, SMTT(20) DEF Match, Owned, OneWaiter, Table, FreeList, OneKey
<1>3. ASSUME NEW p \in Proc, NEW k \in Key, NEW v \in Val, NEW x \in Tag, pc[p] = "out",
             Setup(p, k, v, x)
      PROVE  Owned'
<2> USE DEF Owned
<2>1. /\ x \notin ht /\ NoDup(ft') /\ ~ In(ft', x)
      /\ \A y \in Tag : In(ft', y) => In(ft, y)
      /\ \A y \in Tag : y <= ntag' <=> y \in ht \/ In(ft', y) \/ y = x
  BY <1>3, Fresh
<2>2. \A q \in Proc : Waiting(q) => t[q] # x
  BY <2>1 DEF Table
<2>3. OneWaiter'
  BY <1>3, <2>2 DEF Setup, OneWaiter
<2>4. Table'
  BY <1>3, <2>1 DEF Setup, Table
<2>5. FreeList'
  BY <1>3, <2>1 DEF Setup, FreeList
<2>6. OneKey'
  BY <1>3, <2>1 DEF Setup, OneKey
<2> QED
  BY <2>3, <2>4, <2>5, <2>6
<1>4. ASSUME NEW p \in Proc, Post(p) PROVE Owned'
  BY <1>4 DEF Post, Owned, OneWaiter, Table, FreeList, OneKey
<1>5. ASSUME NEW p \in Proc, Loop(p) \/ Semop(p) \/ Eintr(p) PROVE Owned'
<2>1. \A q \in Proc : Waiting(q)' <=> Waiting(q)
  BY <1>5 DEF Loop, Semop, Eintr
<2>2. UNCHANGED <<t, tag, ht, ft, ntag>>
  BY <1>5 DEF Loop, Semop, Eintr
<2> QED
  BY <2>1, <2>2 DEF Owned, OneWaiter, Table, FreeList, OneKey
<1>6. ASSUME NEW p \in Proc, Return(p) PROVE Owned'
<2> USE DEF Owned
<2>1. t[p] \in Tag /\ t[p] \in ht /\ ~ In(ft, t[p])
  BY <1>6 DEF Return, Locals, Table, FreeList
<2>2. /\ NoDup(ft')
      /\ \A y \in Tag : In(ft', y) <=> In(ft, y) \/ y = t[p]
  BY <1>6, <2>1, InPush DEF Return, FreeList
<2>3. OneWaiter'
  BY <1>6 DEF Return, OneWaiter
<2>4. Table'
  BY <1>6 DEF Return, Table, OneWaiter
<2>5. FreeList'
  BY <1>6, <2>1, <2>2 DEF Return, FreeList
<2>6. OneKey'
  BY <1>6 DEF Return, OneKey
<2> QED
  BY <2>3, <2>4, <2>5, <2>6
<1> QED
  BY <1>1, <1>2, <1>3, <1>4, <1>5, <1>6 DEF Next, Inside, rendezvous

\* A post for another waiter may raise or, being taken for its own, lower nobody else's
\* semaphore: the Tag has one waiter.
LEMMA PostStep == IInv /\ [Next]_vars => PostComes'
<1> SUFFICES ASSUME IInv, [Next]_vars PROVE PostComes'
  OBVIOUS
<1> USE RendezAssumption DEF IInv, TypeOK, Waiting, PostComes, Locals
<1>1. CASE UNCHANGED vars
  BY <1>1 DEF vars
<1>2. ASSUME NEW p \in Proc, NEW k \in Key, NEW v \in Val, NEW x \in Tag, pc[p] = "out",
             Match(p, k, v, x)
      PROVE  PostComes'
  BY <1>2 DEF Match
<1>3. ASSUME NEW p \in Proc, NEW k \in Key, NEW v \in Val, NEW x \in Tag, pc[p] = "out",
             Setup(p, k, v, x)
      PROVE  PostComes'
<2>1. \A q \in Proc : Waiting(q) => t[q] # x
  BY <1>3, Fresh DEF Owned, Table
<2> QED
  BY <1>3, <2>1 DEF Setup
<1>4. ASSUME NEW p \in Proc, Post(p) PROVE PostComes'
<2> SUFFICES ASSUME NEW q \in Proc, (pc[q] = "semop" /\ tag[t[q]] = None)'
             PROVE  (sem[t[q]] > 0 \/ \E s \in Proc : pc[s] = "post" /\ t[s] = t[q])'
  OBVIOUS
<2>1. q # p /\ t'[q] = t[q] /\ t[q] \in Tag /\ t[p] \in Tag
  BY <1>4 DEF Post
<2>2. CASE sem[t[q]] > 0 \/ t[q] = t[p]
  BY <1>4, <2>1, <2>2 DEF Post
<2>3. ASSUME NEW s \in Proc, pc[s] = "post" /\ t[s] = t[q], t[q] # t[p]
      PROVE  (pc[s] = "post" /\ t[s] = t[q])'
  BY <1>4, <2>1, <2>3 DEF Post
<2>4. pc[q] = "semop" /\ tag[t[q]] = None
  BY <1>4, <2>1 DEF Post
<2> QED
  BY <2>2, <2>3, <2>4
<1>5. ASSUME NEW p \in Proc, Loop(p) PROVE PostComes'
  BY <1>5 DEF Loop
<1>6. ASSUME NEW p \in Proc, Semop(p) PROVE PostComes'
  BY <1>6 DEF Semop, Owned, OneWaiter
<1>7. ASSUME NEW p \in Proc, Eintr(p) PROVE PostComes'
  BY <1>7 DEF Eintr
<1>8. ASSUME NEW p \in Proc, Return(p) PROVE PostComes'
<2> SUFFICES ASSUME NEW q \in Proc, (pc[q] = "semop" /\ tag[t[q]] = None)'
             PROVE  (sem[t[q]] > 0 \/ \E s \in Proc : pc[s] = "post" /\ t[s] = t[q])'
  OBVIOUS
<2>1. q # p /\ t'[q] = t[q] /\ t[q] \in Tag /\ t[p] \in Tag
  BY <1>8 DEF Return
<2>2. pc[q] = "semop" /\ tag[t[q]] = None
  BY <1>8, <2>1 DEF Return
<2>3. t[q] # t[p]
  BY <1>8, <2>1, <2>2 DEF Return, Owned, OneWaiter
<2>4. ASSUME NEW s \in Proc, pc[s] = "post" /\ t[s] = t[q]
      PROVE  (pc[s] = "post" /\ t[s] = t[q])'
  BY <1>8, <2>1, <2>4 DEF Return
<2>5. sem'[t[q]] = sem[t[q]]
  BY <1>8, <2>1, <2>3 DEF Return
<2> QED
  BY <2>1, <2>2, <2>4, <2>5
<1> QED
  BY <1>1, <1>2, <1>3, <1>4, <1>5, <1>6, <1>7, <1>8 DEF Next, Inside, rendezvous

LEMMA Invariant == Spec => []IInv
<1>1. IInv /\ [Next]_vars => IInv'
  BY TypeStep, LocalsStep, OwnedStep, PostStep DEF IInv
<1> QED
  BY InvInit, <1>1, PTL DEF Spec

-----------------------------------------------------------------------------
\* In particular a Tag named by a process exists, and a semaphore never falls below zero.
THEOREM TypeCorrect == Spec => []TypeOK
<1>1. IInv => TypeOK
  BY DEF IInv
<1> QED
  BY Invariant, <1>1, PTL

\* A Tag is never given to a second process while one waits on it, and none is lost: the
\* free list and the table of rendezvous (TagsOwned).
THEOREM TagsHaveOneOwner == Spec => []TagsOwned
<1>1. IInv => TagsOwned
  BY OwnedIsTagsOwned DEF IInv
<1> QED
  BY Invariant, <1>1, PTL

\* A waiter in semop whose tag has been taken off has a post or one on its way, though
\* posts meant for earlier users of its Tag arrive late (PostComes).
THEOREM PostsCome == Spec => []PostComes
<1>1. IInv => PostComes
  BY DEF IInv
<1> QED
  BY Invariant, <1>1, PTL

-----------------------------------------------------------------------------
(* The refinement.                                                         *)

absKey(p) == IF Meeting(p) THEN tag[t[p]] ELSE None
absVal(p) == IF Waiting(p) THEN tval[t[p]] ELSE rval[p]
absKeys == [p \in Proc |-> absKey(p)]
absVals == [p \in Proc |-> absVal(p)]

\* The second to come meets the one who waits on the Tag it found.
LEMMA MatchMeets ==
  ASSUME IInv, NEW p \in Proc, NEW k \in Key, NEW v \in Val, NEW x \in Tag,
         pc[p] = "out", Match(p, k, v, x)
  PROVE  \E q \in Proc : Abs!Meet(p, q, k, v)
<1> USE RendezAssumption DEF IInv, TypeOK, Waiting
<1>1. PICK q \in Proc : Waiting(q) /\ t[q] = x
  BY DEF Match, Owned, Table
<1>2. p # q /\ rval[p] = None
  BY <1>1 DEF Locals
<1>3. absVal(p) = None /\ absKey(q) = k /\ absVal(q) = tval[x]
  BY <1>1, <1>2 DEF absVal, absKey, Meeting, Match
<1>4. absKey(p)' = None /\ absKey(q)' = None /\ absVal(p)' = tval[x] /\ absVal(q)' = v
  BY <1>1, <1>2 DEF absVal, absKey, Meeting, Match
<1>5. ASSUME NEW s \in Proc, s # p, s # q
      PROVE  absKey(s)' = absKey(s) /\ absVal(s)' = absVal(s)
  BY <1>1, <1>5 DEF absVal, absKey, Meeting, Match, Owned, OneWaiter, Locals
<1>6. absKey(p) = None
  BY DEF absKey, Meeting
<1> HIDE DEF IInv, TypeOK, Waiting
<1>7. /\ absKeys' = [absKeys EXCEPT ![q] = None]
      /\ absVals' = [absVals EXCEPT ![p] = absVal(q), ![q] = v]
  BY <1>2, <1>3, <1>4, <1>5, <1>6 DEF absKeys, absVals
<1> QED
  BY <1>3, <1>7 DEF Abs!Meet, absKeys, absVals, absKey, absVal

\* The first to come waits, and nobody waits on its tag already.
LEMMA SetupArrives ==
  ASSUME IInv, NEW p \in Proc, NEW k \in Key, NEW v \in Val, NEW x \in Tag,
         pc[p] = "out", Setup(p, k, v, x)
  PROVE  Abs!Arrive(p, k, v)
<1> USE RendezAssumption DEF IInv, TypeOK, Waiting
<1>1. \A q \in Proc : Waiting(q) => t[q] # x /\ t[q] \in ht /\ t[q] \in Tag
  BY Fresh DEF Owned, Table, Locals
<1>2. absVal(p) = None /\ \A q \in Proc : absKey(q) # k
  BY <1>1 DEF absVal, absKey, Meeting, Setup, Locals
<1>3. absKey(p)' = k /\ absVal(p)' = v
  BY DEF absVal, absKey, Meeting, Setup
<1>4. ASSUME NEW s \in Proc, s # p
      PROVE  absKey(s)' = absKey(s) /\ absVal(s)' = absVal(s)
  BY <1>1, <1>4 DEF absVal, absKey, Meeting, Setup
<1> HIDE DEF IInv, TypeOK, Waiting
<1>5. absKeys' = [absKeys EXCEPT ![p] = k] /\ absVals' = [absVals EXCEPT ![p] = v]
  BY <1>3, <1>4 DEF absKeys, absVals
<1> QED
  BY <1>2, <1>5 DEF Abs!Arrive, absKeys, absVals, absKey, absVal

\* Who has met leaves: the second after its post, the first when it has read the value.
LEMMA ReturnLeaves ==
  ASSUME IInv, NEW p \in Proc, Post(p) \/ Return(p)
  PROVE  Abs!Leave(p)
<1> USE RendezAssumption DEF IInv, TypeOK, Waiting
<1>1. absKey(p) = None /\ absVal(p) # None
  BY DEF absVal, absKey, Meeting, Post, Return, Locals
<1>2. absKey(p)' = None /\ absVal(p)' = None
  BY DEF absVal, absKey, Meeting, Post, Return
<1>3. ASSUME NEW s \in Proc, s # p
      PROVE  absKey(s)' = absKey(s) /\ absVal(s)' = absVal(s)
<2>1. CASE Post(p)
  BY <1>3, <2>1 DEF absVal, absKey, Meeting, Post
<2>2. CASE Return(p)
  BY <1>3, <2>2 DEF absVal, absKey, Meeting, Return, Locals, Owned, OneWaiter
<2> QED
  BY <2>1, <2>2
<1> HIDE DEF IInv, TypeOK, Waiting
<1>4. absKeys' = absKeys /\ absVals' = [absVals EXCEPT ![p] = None]
  BY <1>1, <1>2, <1>3 DEF absKeys, absVals
<1> QED
  BY <1>1, <1>4 DEF Abs!Leave, absKeys, absVals, absKey, absVal

\* Between arriving and leaving the loop round semop changes nothing others see.
LEMMA LoopStutters ==
  ASSUME IInv, NEW p \in Proc, Loop(p) \/ Semop(p) \/ Eintr(p)
  PROVE  \A s \in Proc : absKey(s)' = absKey(s) /\ absVal(s)' = absVal(s)
<1> USE DEF IInv, TypeOK, Waiting
<1>1. \A s \in Proc : Waiting(s)' <=> Waiting(s)
  BY DEF Loop, Semop, Eintr
<1>2. UNCHANGED <<t, rval, tag, tval>>
  BY DEF Loop, Semop, Eintr
<1> QED
  BY <1>1, <1>2 DEF absVal, absKey, Meeting

\* Processes that call rendezvous with the same tag meet, exchange values and only then
\* return, as RendezAbs says, however late a post comes and whatever Tag it raises.
THEOREM RendezvousImplemented == Spec => ImplementsRendez
<1>1. Init => Abs!Init
  BY DEF Init, Abs!Init, Meeting, Waiting
<1>2. IInv /\ [Next]_vars => [Abs!Next]_(Abs!vars)
<2> SUFFICES ASSUME IInv, [Next]_vars PROVE Abs!Next \/ UNCHANGED Abs!vars
  OBVIOUS
<2>1. ASSUME NEW p \in Proc, NEW k \in Key, NEW v \in Val, rendezvous(p, k, v) PROVE Abs!Next
<3>1. PICK x \in Tag : Match(p, k, v, x) \/ Setup(p, k, v, x)
  BY <2>1 DEF rendezvous
<3> QED
  BY <2>1, <3>1, MatchMeets, SetupArrives DEF Abs!Next, rendezvous
<2>2. ASSUME NEW p \in Proc, Post(p) \/ Return(p) PROVE Abs!Next
  BY <2>2, ReturnLeaves DEF Abs!Next
<2>3. ASSUME NEW p \in Proc, Loop(p) \/ Semop(p) \/ Eintr(p) PROVE UNCHANGED Abs!vars
  BY <2>3, LoopStutters DEF Abs!vars, absKey, absVal
<2>4. CASE UNCHANGED vars
  BY <2>4 DEF vars, Abs!vars, Meeting, Waiting
<2> QED
  BY <2>1, <2>2, <2>3, <2>4 DEF Next, Inside
<1> QED
  BY <1>1, <1>2, Invariant, PTL DEF Spec, Abs!Spec, ImplementsRendez

-----------------------------------------------------------------------------
(***************************************************************************)
(* Sleep, Wakeup, swiproc and the signal.                                  *)
(***************************************************************************)
\* Who sleeps where: up->r names the Rendez of Sleep until somebody sets out to wake
\* the sleeper, and d->p names up only while up is asleep on d and nobody has.
Sleeps ==
  /\ r # NoRend => r = on /\ up \in {"spin", "asleep"}
  /\ up = "spin" => on \in Rend /\ (r = on \/ kpc = "meet")
  /\ up = "asleep" =>
       on \in Rend /\ (rp[on] = 1 \/ kpc = "meet" \/ \E w \in Waker : wpc[w] = "meet")
  /\ \A d \in Rend : rp[d] = 1 => up = "asleep" /\ on = d /\ r = d

\* Who holds the lock of a Rendez across rendezvous is after its sleeper, alone.
Meets ==
  /\ kpc = "meet" => kr \in Rend /\ rl[kr] = VM /\ kr = on /\ r = NoRend
                     /\ up \in {"spin", "asleep"}
  /\ \A w \in Waker : wpc[w] = "meet" =>
       won[w] \in Rend /\ rl[won[w]] = w /\ won[w] = on /\ r = NoRend /\ up = "asleep"
  /\ \A w \in Waker : wpc[w] = "set" => won[w] \in Rend
  /\ \A d \in Rend : rl[d] = VM => kpc = "meet" /\ kr = d
  /\ \A d \in Rend, w \in Waker : rl[d] = w => wpc[w] = "meet" /\ won[w] = d

\* intwait is set from swiproc to trapUSR1, during which up does not get past osleave;
\* swipend is set only for a host call or a Sleep that is still to see it.
Interrupts ==
  /\ syscall = 1 <=> up \in {"enter", "host", "leave"}
  /\ intwait = 1 <=> sig = 1 \/ kpc = "post"
  /\ ~ (sig = 1 /\ kpc = "post")
  /\ intwait = 1 => up \in {"enter", "host", "leave", "intwait"}
  /\ swipend = 1 => \/ up \in {"enter", "host", "leave", "woke"}
                    \/ up \in {"spin", "asleep"} /\ kpc = "meet"

SleepInv == SleepTypeOK /\ Sleeps /\ Meets /\ Interrupts /\ NoLostWakeup

-----------------------------------------------------------------------------
LEMMA SleepInvInit == SleepInit => SleepInv
<1> SUFFICES ASSUME SleepInit PROVE SleepInv
  OBVIOUS
<1> USE EmuProcAssumption DEF SleepInit
<1>1. SleepTypeOK
  BY DEF SleepTypeOK
<1>2. Sleeps
  BY DEF Sleeps
<1>3. Meets
  BY DEF Meets
<1>4. Interrupts
  BY DEF Interrupts
<1>5. NoLostWakeup
  BY DEF NoLostWakeup
<1> QED
  BY <1>1, <1>2, <1>3, <1>4, <1>5 DEF SleepInv

\* Every step keeps the types.
LEMMA SleepTypeStep == SleepInv /\ [SleepNext]_svars => SleepTypeOK'
<1> SUFFICES ASSUME SleepInv, [SleepNext]_svars PROVE SleepTypeOK'
  OBVIOUS
<1> USE DEF SleepInv, SleepTypeOK,
           upvars, rvars, wvars, kvars
<1>1. CASE UNCHANGED svars
  BY <1>1 DEF svars
<1>2. ASSUME NEW d \in Rend, Sleep(d) PROVE SleepTypeOK'
  BY <1>2 DEF Sleep
<1>3. ASSUME NEW d \in Rend, Consume(d) PROVE SleepTypeOK'
  BY <1>3 DEF Consume
<1>4. ASSUME NEW w \in Waker, NEW d \in Rend, SetCond(w, d) PROVE SleepTypeOK'
  BY <1>4 DEF SetCond
<1>5. CASE osenter
  BY <1>5 DEF osenter
<1>6. CASE HostCall
  BY <1>6 DEF HostCall
<1>7. CASE SleepTest
  BY <1>7 DEF SleepTest, Sleeps
<1>8. CASE SleepDone
  BY <1>8 DEF SleepDone
<1>9. CASE osleave
  BY <1>9 DEF osleave
<1>10. CASE osleaveDone
  BY <1>10 DEF osleaveDone
<1>11. CASE trapUSR1
  BY <1>11 DEF trapUSR1
<1>12. ASSUME NEW w \in Waker, Wakeup(w) PROVE SleepTypeOK'
  BY <1>12 DEF Wakeup, Meets
<1>13. ASSUME NEW w \in Waker, WakeupMeet(w) PROVE SleepTypeOK'
  BY <1>13 DEF WakeupMeet, Meets
<1>14. CASE SwiRendez
  BY <1>14 DEF SwiRendez
<1>15. CASE SwiMeet
  BY <1>15 DEF SwiMeet, Meets
<1>16. CASE SwiSyscall
  BY <1>16 DEF SwiSyscall
<1>17. CASE oshostintr
  BY <1>17 DEF oshostintr
<1>18. CASE swiproc
  BY <1>18 DEF swiproc
<1> QED
  BY <1>1, <1>2, <1>3, <1>4, <1>5, <1>6, <1>7, <1>8, <1>9,
     <1>10, <1>11, <1>12, <1>13, <1>14, <1>15, <1>16, <1>17, <1>18
     DEF SleepNext, Callers, Up, Wakers, Swi

\* Only Sleep puts up into a Rendez, and only the waker takes it out.
LEMMA SleepsStep == SleepInv /\ [SleepNext]_svars => Sleeps'
<1> SUFFICES ASSUME SleepInv, [SleepNext]_svars PROVE Sleeps'
  OBVIOUS
<1> USE EmuProcAssumption DEF SleepInv, SleepTypeOK, Sleeps, Meets,
           upvars, rvars, wvars, kvars
<1>1. CASE UNCHANGED svars
  BY <1>1 DEF svars
<1>2. ASSUME NEW d \in Rend, Sleep(d) PROVE Sleeps'
  BY <1>2 DEF Sleep
<1>3. ASSUME NEW d \in Rend, Consume(d) PROVE Sleeps'
  BY <1>3 DEF Consume
<1>4. ASSUME NEW w \in Waker, NEW d \in Rend, SetCond(w, d) PROVE Sleeps'
  BY <1>4 DEF SetCond
<1>5. CASE osenter
  BY <1>5 DEF osenter
<1>6. CASE HostCall
  BY <1>6 DEF HostCall
<1>7. CASE SleepTest
  BY <1>7 DEF SleepTest
<1>8. CASE SleepDone
  BY <1>8 DEF SleepDone
<1>9. CASE osleave
  BY <1>9 DEF osleave
<1>10. CASE osleaveDone
  BY <1>10 DEF osleaveDone
<1>11. CASE trapUSR1
  BY <1>11 DEF trapUSR1
<1>12. ASSUME NEW w \in Waker, Wakeup(w) PROVE Sleeps'
  BY <1>12 DEF Wakeup
<1>13. ASSUME NEW w \in Waker, WakeupMeet(w) PROVE Sleeps'
  BY <1>13 DEF WakeupMeet
<1>14. CASE SwiRendez
  BY <1>14 DEF SwiRendez
<1>15. CASE SwiMeet
  BY <1>15 DEF SwiMeet
<1>16. CASE SwiSyscall
  BY <1>16 DEF SwiSyscall
<1>17. CASE oshostintr
  BY <1>17 DEF oshostintr
<1>18. CASE swiproc
  BY <1>18 DEF swiproc
<1> QED
  BY <1>1, <1>2, <1>3, <1>4, <1>5, <1>6, <1>7, <1>8, <1>9,
     <1>10, <1>11, <1>12, <1>13, <1>14, <1>15, <1>16, <1>17, <1>18
     DEF SleepNext, Callers, Up, Wakers, Swi

\* A second waker finds d->p nil or the lock taken, swiproc finds up->r nil.
LEMMA MeetsStep == SleepInv /\ [SleepNext]_svars => Meets'
<1> SUFFICES ASSUME SleepInv, [SleepNext]_svars PROVE Meets'
  OBVIOUS
<1> USE EmuProcAssumption DEF SleepInv, SleepTypeOK, Sleeps, Meets,
           upvars, rvars, wvars, kvars
<1>1. CASE UNCHANGED svars
  BY <1>1 DEF svars
<1>2. ASSUME NEW d \in Rend, Sleep(d) PROVE Meets'
  BY <1>2 DEF Sleep
<1>3. ASSUME NEW d \in Rend, Consume(d) PROVE Meets'
  BY <1>3 DEF Consume
<1>4. ASSUME NEW w \in Waker, NEW d \in Rend, SetCond(w, d) PROVE Meets'
  BY <1>4 DEF SetCond
<1>5. CASE osenter
  BY <1>5 DEF osenter
<1>6. CASE HostCall
  BY <1>6 DEF HostCall
<1>7. CASE SleepTest
  BY <1>7 DEF SleepTest
<1>8. CASE SleepDone
  BY <1>8 DEF SleepDone
<1>9. CASE osleave
  BY <1>9 DEF osleave
<1>10. CASE osleaveDone
  BY <1>10 DEF osleaveDone
<1>11. CASE trapUSR1
  BY <1>11 DEF trapUSR1
<1>12. ASSUME NEW w \in Waker, Wakeup(w) PROVE Meets'
  BY <1>12 DEF Wakeup
<1>13. ASSUME NEW w \in Waker, WakeupMeet(w) PROVE Meets'
  BY <1>13 DEF WakeupMeet
<1>14. CASE SwiRendez
  BY <1>14 DEF SwiRendez
<1>15. CASE SwiMeet
  BY <1>15 DEF SwiMeet
<1>16. CASE SwiSyscall
  BY <1>16 DEF SwiSyscall
<1>17. CASE oshostintr
  BY <1>17 DEF oshostintr
<1>18. CASE swiproc
  BY <1>18 DEF swiproc
<1> QED
  BY <1>1, <1>2, <1>3, <1>4, <1>5, <1>6, <1>7, <1>8, <1>9,
     <1>10, <1>11, <1>12, <1>13, <1>14, <1>15, <1>16, <1>17, <1>18
     DEF SleepNext, Callers, Up, Wakers, Swi

\* swiproc posts again only when the signal before it has arrived.
LEMMA InterruptsStep == SleepInv /\ [SleepNext]_svars => Interrupts'
<1> SUFFICES ASSUME SleepInv, [SleepNext]_svars PROVE Interrupts'
  OBVIOUS
<1> USE EmuProcAssumption DEF SleepInv, SleepTypeOK, Interrupts,
           upvars, rvars, wvars, kvars
<1>1. CASE UNCHANGED svars
  BY <1>1 DEF svars
<1>2. ASSUME NEW d \in Rend, Sleep(d) PROVE Interrupts'
  BY <1>2 DEF Sleep
<1>3. ASSUME NEW d \in Rend, Consume(d) PROVE Interrupts'
  BY <1>3 DEF Consume
<1>4. ASSUME NEW w \in Waker, NEW d \in Rend, SetCond(w, d) PROVE Interrupts'
  BY <1>4 DEF SetCond
<1>5. CASE osenter
  BY <1>5 DEF osenter
<1>6. CASE HostCall
  BY <1>6 DEF HostCall
<1>7. CASE SleepTest
  BY <1>7 DEF SleepTest, Sleeps, Meets
<1>8. CASE SleepDone
  BY <1>8 DEF SleepDone
<1>9. CASE osleave
  BY <1>9 DEF osleave
<1>10. CASE osleaveDone
  BY <1>10 DEF osleaveDone
<1>11. CASE trapUSR1
  BY <1>11 DEF trapUSR1
<1>12. ASSUME NEW w \in Waker, Wakeup(w) PROVE Interrupts'
  BY <1>12 DEF Wakeup, Sleeps, Meets
<1>13. ASSUME NEW w \in Waker, WakeupMeet(w) PROVE Interrupts'
  BY <1>13 DEF WakeupMeet, Meets
<1>14. CASE SwiRendez
  BY <1>14 DEF SwiRendez, Sleeps
<1>15. CASE SwiMeet
  BY <1>15 DEF SwiMeet, Meets
<1>16. CASE SwiSyscall
  BY <1>16 DEF SwiSyscall
<1>17. CASE oshostintr
  BY <1>17 DEF oshostintr
<1>18. CASE swiproc
  BY <1>18 DEF swiproc
<1> QED
  BY <1>1, <1>2, <1>3, <1>4, <1>5, <1>6, <1>7, <1>8, <1>9,
     <1>10, <1>11, <1>12, <1>13, <1>14, <1>15, <1>16, <1>17, <1>18
     DEF SleepNext, Callers, Up, Wakers, Swi

\* Sleep tests the condition under the lock; Wakeup finds its sleeper, or one who is
\* being woken.
LEMMA WakeupStep == SleepInv /\ [SleepNext]_svars => NoLostWakeup'
<1> SUFFICES ASSUME SleepInv, [SleepNext]_svars PROVE NoLostWakeup'
  OBVIOUS
<1> USE EmuProcAssumption DEF SleepInv, SleepTypeOK, NoLostWakeup, Sleeps, Meets,
           upvars, rvars, wvars, kvars
<1>1. CASE UNCHANGED svars
  BY <1>1 DEF svars
<1>2. ASSUME NEW d \in Rend, Sleep(d) PROVE NoLostWakeup'
  BY <1>2 DEF Sleep
<1>3. ASSUME NEW d \in Rend, Consume(d) PROVE NoLostWakeup'
  BY <1>3 DEF Consume
<1>4. ASSUME NEW w \in Waker, NEW d \in Rend, SetCond(w, d) PROVE NoLostWakeup'
  BY <1>4 DEF SetCond
<1>5. CASE osenter
  BY <1>5 DEF osenter
<1>6. CASE HostCall
  BY <1>6 DEF HostCall
<1>7. CASE SleepTest
  BY <1>7 DEF SleepTest
<1>8. CASE SleepDone
  BY <1>8 DEF SleepDone
<1>9. CASE osleave
  BY <1>9 DEF osleave
<1>10. CASE osleaveDone
  BY <1>10 DEF osleaveDone
<1>11. CASE trapUSR1
  BY <1>11 DEF trapUSR1
<1>12. ASSUME NEW w \in Waker, Wakeup(w) PROVE NoLostWakeup'
  BY <1>12 DEF Wakeup
<1>13. ASSUME NEW w \in Waker, WakeupMeet(w) PROVE NoLostWakeup'
  BY <1>13 DEF WakeupMeet
<1>14. CASE SwiRendez
  BY <1>14 DEF SwiRendez
<1>15. CASE SwiMeet
  BY <1>15 DEF SwiMeet
<1>16. CASE SwiSyscall
  BY <1>16 DEF SwiSyscall
<1>17. CASE oshostintr
  BY <1>17 DEF oshostintr
<1>18. CASE swiproc
  BY <1>18 DEF swiproc
<1> QED
  BY <1>1, <1>2, <1>3, <1>4, <1>5, <1>6, <1>7, <1>8, <1>9,
     <1>10, <1>11, <1>12, <1>13, <1>14, <1>15, <1>16, <1>17, <1>18
     DEF SleepNext, Callers, Up, Wakers, Swi

LEMMA SleepInvariant == SleepSpec => []SleepInv
<1>1. SleepInv /\ [SleepNext]_svars => SleepInv'
  BY SleepTypeStep, SleepsStep, MeetsStep, InterruptsStep, WakeupStep DEF SleepInv
<1> QED
  BY SleepInvInit, <1>1, PTL DEF SleepSpec

-----------------------------------------------------------------------------
\* The variables of a process and of its Rendez structures keep their types; intwait, in
\* particular, never counts past one (proc.c).
THEOREM SleepTypeCorrect == SleepSpec => []SleepTypeOK
<1>1. SleepInv => SleepTypeOK
  BY DEF SleepInv
<1> QED
  BY SleepInvariant, <1>1, PTL

\* A process asleep whose condition holds is about to be woken (Sleep, Wakeup).
THEOREM WakeupNotLost == SleepSpec => []NoLostWakeup
<1>1. SleepInv => NoLostWakeup
  BY DEF SleepInv
<1> QED
  BY SleepInvariant, <1>1, PTL

\* A Sleep is woken by one caller, Wakeup or swiproc, so that its rendezvous has one
\* partner and the panic in Sleep is not reached.
THEOREM SleepHasOneWaker == SleepSpec => []OneWaker
<1>1. SleepInv => OneWaker
  BY EmuProcAssumption DEF SleepInv, SleepTypeOK, Sleeps, Meets, OneWaker
<1> QED
  BY SleepInvariant, <1>1, PTL

\* SIGUSR1 reaches a process only inside a host call it was meant for, and nothing of an
\* interrupt is left once the process is out (swiproc, osleave, trapUSR1).
THEOREM SignalsFindTheirCall == SleepSpec => []NoStraySignal
<1>1. SleepInv => NoStraySignal
  BY DEF SleepInv, SleepTypeOK, Interrupts, NoStraySignal
<1> QED
  BY SleepInvariant, <1>1, PTL

=============================================================================
