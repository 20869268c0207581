--------------------------- MODULE MountDrv_proofs ---------------------------
(***************************************************************************)
(* Proofs about the mount driver, for any number of processes, Mntrpcs and *)
(* calls: a call gets the answer to itself, the queue holds the unanswered *)
(* requests, and nobody is left waiting, as long as no fault is recorded;  *)
(* and a fault takes an interrupt, and after it the end of the connection, *)
(* a failing Tflush or a flush tag for the second time.                    *)
(***************************************************************************)
EXTENDS MountDrv, SequenceTheorems, FiniteSetTheorems, WellFoundedInduction, TLAPS

-----------------------------------------------------------------------------
(* Lists.                                                                  *)

NoDup(s) == \A i, j \in 1..Len(s) : s[i] = s[j] => i = j

\* Linking in at the head: m->queue by mountio, mntalloc.rpcfree by mntfree.
LEMMA ListPush ==
  ASSUME NEW S, NEW s \in Seq(S), NEW e \in S
  PROVE  /\ <<e>> \o s \in Seq(S)
         /\ \A x : Has(<<e>> \o s, x) <=> Has(s, x) \/ x = e
         /\ NoDup(s) /\ ~ Has(s, e) => NoDup(<<e>> \o s)
<1> DEFINE t == <<e>> \o s
<1>1. t \in Seq(S) /\ Len(t) = Len(s) + 1 /\ t[1] = e /\ \A i \in 1..Len(s) : t[i + 1] = s[i]
  OBVIOUS
<1>2. \A i \in 2..Len(t) : i - 1 \in 1..Len(s) /\ t[i] = s[i - 1]
  BY <1>1
<1>3. 1 \in 1..Len(t) /\ \A i \in 1..Len(s) : i + 1 \in 1..Len(t)
  BY <1>1
<1>4. \A i \in 1..Len(t) : i = 1 \/ i \in 2..Len(t)
  BY <1>1
<1> HIDE DEF t
<1>5. ASSUME NEW x PROVE Has(t, x) <=> Has(s, x) \/ x = e
<2>1. ASSUME Has(t, x) PROVE Has(s, x) \/ x = e
<3>1. PICK i \in 1..Len(t) : t[i] = x
  BY <2>1 DEF Has
<3> QED
  BY <1>1, <1>2, <1>4, <3>1 DEF Has
<2>2. ASSUME Has(s, x) PROVE Has(t, x)
<3>1. PICK i \in 1..Len(s) : s[i] = x
  BY <2>2 DEF Has
<3> QED
  BY <1>1, <1>3, <3>1 DEF Has
<2>3. ASSUME x = e PROVE Has(t, x)
  BY <1>1, <1>3, <2>3 DEF Has
<2> QED
  BY <2>1, <2>2, <2>3
<1>6. ASSUME NoDup(s), ~ Has(s, e) PROVE NoDup(t)
<2> SUFFICES ASSUME NEW i \in 1..Len(t), NEW j \in 1..Len(t), t[i] = t[j] PROVE i = j
  BY DEF NoDup
<2>1. \A k \in 2..Len(t) : t[k] # e
  BY <1>2, <1>6 DEF Has
<2>2. CASE i = 1 \/ j = 1
  BY <1>1, <1>4, <2>1, <2>2
<2>3. CASE i \in 2..Len(t) /\ j \in 2..Len(t)
<3>1. i - 1 = j - 1
  BY <1>2, <1>6, <2>3 DEF NoDup
<3> QED
  BY <3>1
<2> QED
  BY <1>4, <2>2, <2>3
<1> QED
  BY <1>1, <1>5, <1>6 DEF t

\* Taking the head of the free list.
LEMMA ListTail ==
  ASSUME NEW S, NEW s \in Seq(S), s # <<>>
  PROVE  /\ Tail(s) \in Seq(S) /\ Head(s) \in S /\ Has(s, Head(s))
         /\ \A x : Has(s, x) <=> Has(Tail(s), x) \/ x = Head(s)
         /\ NoDup(s) => NoDup(Tail(s)) /\ ~ Has(Tail(s), Head(s))
         /\ Len(Tail(s)) = Len(s) - 1 /\ Len(s) \in Nat \ {0} /\ Head(s) = s[1]
         /\ \A i \in 1..(Len(s) - 1) : Tail(s)[i] = s[i + 1] /\ i + 1 \in 1..Len(s)
<1> DEFINE t == Tail(s)
<1>1. t \in Seq(S) /\ Len(t) = Len(s) - 1 /\ Len(s) \in Nat \ {0} /\ Head(s) = s[1]
      /\ \A i \in 1..Len(t) : t[i] = s[i + 1]
  OBVIOUS
<1>2. \A i \in 2..Len(s) : i - 1 \in 1..Len(t) /\ s[i] = t[i - 1]
  BY <1>1
<1>3. 1 \in 1..Len(s) /\ Head(s) \in S
  BY <1>1
<1>4. \A i \in 1..Len(t) : i + 1 \in 1..Len(s) /\ i + 1 # 1
  BY <1>1
<1>5. \A i \in 1..Len(s) : i = 1 \/ i \in 2..Len(s)
  BY <1>1
<1> HIDE DEF t
<1>6. ASSUME NEW x PROVE Has(s, x) <=> Has(t, x) \/ x = Head(s)
  BY <1>1, <1>2, <1>3, <1>4, <1>5 DEF Has
<1>7. ASSUME NoDup(s) PROVE NoDup(t) /\ ~ Has(t, Head(s))
<2>1. ~ Has(t, Head(s))
  BY <1>1, <1>3, <1>4, <1>7 DEF Has, NoDup
<2> SUFFICES ASSUME NEW i \in 1..Len(t), NEW j \in 1..Len(t), t[i] = t[j] PROVE i = j
  BY <2>1 DEF NoDup
<2>2. i + 1 = j + 1
  BY <1>1, <1>4, <1>7 DEF NoDup
<2> QED
  BY <2>2
<1> QED
  BY <1>1, <1>3, <1>4, <1>6, <1>7 DEF t

\* Unlinking: what is taken out of a list that has nothing twice is gone, the rest stays.
LEMMA ListRemove ==
  ASSUME NEW S, NEW s \in Seq(S), NEW e
  PROVE  /\ Unlinked(s, e) \in Seq(S)
         /\ NoDup(s) => NoDup(Unlinked(s, e)) /\ \A x : Has(Unlinked(s, e), x) <=> Has(s, x) /\ x # e
<1> DEFINE n == Len(s)
<1>0. n \in Nat /\ \A k \in 1..n : s[k] \in S
  OBVIOUS
<1>1. CASE ~ Has(s, e)
<2>1. Unlinked(s, e) = s
  BY <1>1 DEF Unlinked, RemoveFirst, Has
<2> QED
  BY <1>1, <2>1 DEF Has
<1>2. CASE Has(s, e)
<2> DEFINE I == {k \in 1..Len(s) : s[k] = e}
<2>1. PICK i \in I : \A k \in I : k >= i
<3>1. I # {} /\ I \subseteq Nat
  BY <1>0, <1>2 DEF Has
<3>2. PICK i \in I : \A k \in I : ~ (<<k, i>> \in OpToRel(<, Nat))
  BY ONLY <3>1, NatLessThanWellFounded, WFMin
<3>3. \A k \in I : ~ (k < i)
  BY ONLY <3>1, <3>2 DEF OpToRel
<3> QED
  BY <3>1, <3>3
<2>2. Min(I) = i
  BY <1>0, <2>1 DEF Min
<2>3. SelectInSeq(s, LAMBDA v : v = e) = i
  BY <2>1, <2>2 DEF SelectInSeq
<2>4. Unlinked(s, e) = SubSeq(s, 1, i - 1) \o SubSeq(s, i + 1, n)
  BY <1>2, <2>3 DEF Unlinked, RemoveFirst, RemoveAt, Has
<2>5. i \in 1..n /\ s[i] = e
  BY <2>1
<2> HIDE DEF I
<2> DEFINE u == SubSeq(s, 1, i - 1)
           w == SubSeq(s, i + 1, n)
           r == u \o w
<2>6. u \in Seq(S) /\ Len(u) = i - 1 /\ \A k \in 1..(i - 1) : u[k] = s[k]
  BY <1>0, <2>5
<2>7. w \in Seq(S) /\ Len(w) = n - i /\ \A k \in 1..(n - i) : w[k] = s[k + i]
<3>1. i + 1 \in Int /\ n \in Int /\ \A k \in (i + 1)..n : s[k] \in S
  BY <1>0, <2>5
<3>2. /\ w \in Seq(S) /\ Len(w) = IF i + 1 <= n THEN n - (i + 1) + 1 ELSE 0
      /\ \A k \in 1..(n - (i + 1) + 1) : w[k] = s[i + 1 + k - 1]
  BY <3>1, SubSeqProperties
<3> HIDE DEF w, n
<3>3. Len(w) = n - i
  BY <1>0, <2>5, <3>2
<3>4. ASSUME NEW k \in 1..(n - i) PROVE w[k] = s[k + i]
<4>1. k \in 1..(n - (i + 1) + 1) /\ i + 1 + k - 1 = k + i
  BY <1>0, <2>5
<4> QED
  BY <3>2, <4>1
<3> QED
  BY <3>2, <3>3, <3>4
<2> HIDE DEF u, w
<2>8. /\ r \in Seq(S) /\ Len(r) = n - 1
      /\ \A k \in 1..(n - 1) : r[k] = IF k < i THEN u[k] ELSE w[k - (i - 1)]
  BY <1>0, <2>5, <2>6, <2>7
<2> HIDE DEF r, n
<2>9. ASSUME NEW k \in 1..(n - 1) PROVE r[k] = s[IF k < i THEN k ELSE k + 1]
<3>1. CASE k < i
  BY <1>0, <2>5, <2>6, <2>8, <3>1
<3>2. CASE ~ k < i
<4>1. k - (i - 1) \in 1..(n - i) /\ k - (i - 1) + i = k + 1
  BY <1>0, <2>5, <3>2
<4> QED
  BY <2>7, <2>8, <3>2, <4>1
<3> QED
  BY <3>1, <3>2
<2>10. ASSUME NoDup(s) PROVE NoDup(r)
<3> SUFFICES ASSUME NEW k \in 1..(n - 1), NEW l \in 1..(n - 1), r[k] = r[l] PROVE k = l
  BY <2>8 DEF NoDup
<3> DEFINE at(j) == IF j < i THEN j ELSE j + 1
<3>1. at(k) \in 1..n /\ at(l) \in 1..n
  BY <1>0, <2>5
<3>2. s[at(k)] = s[at(l)]
  BY <2>9
<3>3. at(k) = at(l)
  BY <2>10, <3>1, <3>2 DEF NoDup, n
<3> QED
  BY <1>0, <2>5, <3>3
<2>11. ASSUME NoDup(s), NEW x PROVE Has(r, x) <=> Has(s, x) /\ x # e
<3>1. ASSUME NEW k \in 1..(n - 1), r[k] = x PROVE Has(s, x) /\ x # e
<4> DEFINE j == IF k < i THEN k ELSE k + 1
<4>1. j \in 1..n /\ j # i
  BY <1>0, <2>5
<4>2. s[j] = x
  BY <2>9, <3>1
<4> HIDE DEF j
<4> QED
  BY <2>5, <2>11, <4>1, <4>2 DEF Has, NoDup, n
<3>2. ASSUME NEW k \in 1..n, s[k] = x, x # e PROVE Has(r, x)
<4> DEFINE j == IF k < i THEN k ELSE k - 1
<4>1. k # i
  BY <2>5, <3>2
<4>2. j \in 1..(n - 1) /\ k = IF j < i THEN j ELSE j + 1
  BY <1>0, <2>5, <4>1
<4> HIDE DEF j
<4>3. r[j] = x
  BY <2>9, <3>2, <4>2
<4> QED
  BY <2>8, <4>2, <4>3 DEF Has
<3> QED
  BY <2>8, <3>1, <3>2 DEF Has, n
<2>12. Unlinked(s, e) = r
  BY <2>4 DEF r, u, w, n
<2> QED
  BY <2>8, <2>10, <2>11, <2>12
<1> QED
  BY <1>1, <1>2

\* The server's answers: what is appended comes last.
LEMMA ListAppend ==
  ASSUME NEW S, NEW s \in Seq(S), NEW e \in S
  PROVE  /\ Append(s, e) \in Seq(S) /\ Len(s) \in Nat
         /\ Len(Append(s, e)) = Len(s) + 1 /\ Append(s, e)[Len(s) + 1] = e
         /\ \A i \in 1..Len(s) : Append(s, e)[i] = s[i] /\ i \in 1..(Len(s) + 1)
         /\ \A i \in 1..(Len(s) + 1) : i = Len(s) + 1 \/ i \in 1..Len(s)
  OBVIOUS

-----------------------------------------------------------------------------
(***************************************************************************)
(* What holds of any behaviour: who has an Mntrpc, who may complete        *)
(* another's call, which are free, who reads, and how calls are numbered.  *)
(***************************************************************************)
ReadPlaces == {"read", "mux", "fill", "wake", "mntgate"}
FlushPlaces == {"flush", "flushw"}
HandPlaces == {"fill", "wake", "gatewake"}
EndPlaces == {"mntgate", "gatewake", "ret"}

Held ==
  \A p \in Proc : /\ rpc[p] = nil <=> pc[p] = "out"
                  /\ pc[p] \in HandPlaces => hand[p] # nil
OneHolder == \A p, q \in Proc : rpc[p] = rpc[q] /\ rpc[p] # nil => p = q
FreeList == NoDup(rpcfree) /\ \A p \in Proc : ~ Has(rpcfree, rpc[p])
OneReader ==
  \A p \in Proc : /\ rip = p => pc[p] \in ReadPlaces \cup FlushPlaces
                  /\ pc[p] \in ReadPlaces => rip = p
Numbered ==
  /\ \A p \in Proc : call[p] <= ncall /\ (call[p] = 0 <=> pc[p] = "out")
  /\ \A p, q \in Proc : call[p] = call[q] /\ call[p] # 0 => p = q

Struct == TypeOK /\ Held /\ OneHolder /\ FreeList /\ OneReader /\ Numbered

\* Tags: an Mntrpc is its own request tag, flush tags are others, nil is none.
LEMMA TagFacts ==
  /\ NRpc \in Nat /\ Tagfls \in Nat /\ Tagend \in Nat
  /\ Rpc \subseteq Nat /\ nil \notin Rpc /\ 0 \notin Rpc
  /\ FlushTag \subseteq Nat /\ Tagfls \in FlushTag /\ 0 \notin FlushTag /\ nil \notin FlushTag
  /\ Rpc \cap FlushTag = {}
  /\ Rpc \subseteq 0..Tagend /\ FlushTag \subseteq 0..Tagend
  /\ \A t \in FlushTag : (IF t + 1 = Tagend THEN Tagfls ELSE t + 1) \in FlushTag
<1>1. NRpc \in Nat /\ NFlush \in Nat /\ NFlush >= 1 /\ nil \notin Nat
  BY MountAssumption
<1> QED
  BY <1>1 DEF Rpc, Tagfls, Tagend, FlushTag

\* What the variables hold, as facts about single values.
LEMMA TypeFacts ==
  ASSUME TypeOK
  PROVE  /\ \A p \in Proc : /\ pc[p] \in Place /\ rpc[p] \in Rpc \cup {nil}
                            /\ hand[p] \in Rpc \cup {nil} /\ failed[p] \in BOOLEAN
                            /\ call[p] \in 0..MaxCall
         /\ ncall \in 0..MaxCall /\ nintr \in 0..MaxIntr
         /\ fault \subseteq {"reused", "torn", "dropped"} /\ quiet \subseteq Proc
         /\ cut \in BOOLEAN
         /\ queue \in Seq(Rpc) /\ rip \in Proc \cup {nil} /\ mflush \in FlushTag
         /\ \A x \in Rpc : /\ done[x] \in BOOLEAN /\ flushed[x] \in BOOLEAN
                           /\ ftag[x] \in FlushTag \cup {0} /\ reply[x] \in Message
         /\ rpcfree \in Seq(Rpc)
         /\ srv \subseteq Message /\ stream \in Seq(Message) /\ hungup \in BOOLEAN
  BY DEF TypeOK

\* The messages are messages.
LEMMA MessageFacts ==
  /\ NoReply \in Message
  /\ \A x \in Rpc, c \in 0..MaxCall : Request(x, c) \in Message
  /\ \A f \in FlushTag \cup {0}, x \in Rpc, c \in 0..MaxCall : Tflush(f, x, c) \in Message
<1>1. MaxCall \in Nat
  BY MountAssumption
<1>2. FlushTag \cup {0} \subseteq 0..Tagend /\ Rpc \subseteq 0..Tagend /\ 0 \in 0..Tagend
  BY TagFacts
<1>3. 0 \in 0..MaxCall
  BY <1>1
<1> QED
  BY <1>2, <1>3 DEF NoReply, Request, Tflush, Message

\* A flush that fails, apart from what is recorded of it.
FlushEnds(p) ==
  /\ At(p, "flushw", IF rip = p THEN "mntgate" ELSE "ret")
  /\ \/ hungup /\ UNCHANGED <<nintr, cut>>
     \/ ~ hungup /\ Interrupted /\ cut' = TRUE
  /\ mntqrm(p)
  /\ UNCHANGED <<rpc, hand, call, ncall, quiet, rip, mflush, rpcfree, conn>>

\* A failing flush of mntflush does that.
LEMMA FlushFailsEnds == \A p \in Proc : FlushFails(p) => FlushEnds(p)
  BY Zenon DEF FlushFails, FlushEnds

\* The steps that can record a fault.
LEMMA FaultFrame ==
  ASSUME [Next]_vars
  PROVE  \/ \E p \in Proc : Call(p) \/ FlushTagged(p) \/ FlushFails(p) \/ Fill(p)
         \/ UNCHANGED <<fault>>
<1>1. ASSUME NEW p \in Proc, WriteDone(p) \/ WriteFails(p) \/ FlushDone(p) \/ Gate(p)
             \/ Sleep(p) \/ Awake(p) \/ ReadDone(p)
      PROVE  UNCHANGED <<fault>>
  BY <1>1 DEF WriteDone, WriteFails, FlushDone, Gate, Sleep, Awake, ReadDone, ghost, history
<1>2. ASSUME NEW p \in Proc, ReadReply(p) \/ ReadEnds(p) \/ MuxNone(p) \/ MuxOwn(p)
             \/ MuxOther(p) \/ Wake(p) \/ mntgate(p)
      PROVE  UNCHANGED <<fault>>
  BY <1>2 DEF ReadReply, ReadEnds, MuxNone, MuxOwn, MuxOther, Wake, mntgate, ghost, history
<1>3. ASSUME NEW p \in Proc, GateWake(p) \/ Return(p) \/ WriteIntr(p) \/ FlushIntr(p)
             \/ SleepIntr(p) \/ ReadIntr(p)
      PROVE  UNCHANGED <<fault>>
  BY <1>3 DEF GateWake, Return, WriteIntr, FlushIntr, SleepIntr, ReadIntr, ghost, history
<1>4. ASSUME HangUp \/ UNCHANGED vars \/ \E m \in srv : Answer(m) \/ AnswerFlush(m) \/ IgnoreFlush(m)
      PROVE  UNCHANGED <<fault>>
  BY <1>4 DEF HangUp, vars, Answer, AnswerFlush, IgnoreFlush, ghost, history, local
<1> QED
  BY <1>1, <1>2, <1>3, <1>4 DEF Next, Step, Interrupt

\* Faults are recorded for good.
LEMMA FaultGrows == [Next]_vars => fault \subseteq fault'
<1> SUFFICES ASSUME [Next]_vars PROVE fault \subseteq fault'
  OBVIOUS
<1>1. CASE UNCHANGED <<fault>>
  BY <1>1
<1>2. ASSUME NEW p \in Proc, Call(p) \/ FlushTagged(p) \/ FlushFails(p) \/ Fill(p)
      PROVE  fault \subseteq fault'
  BY <1>2 DEF Call, FlushTagged, FlushFails, Fill, Record
<1> QED
  BY <1>1, <1>2, FaultFrame

\* Whose flush is not answered changes with flushes and with calls.
LEMMA QuietFrame ==
  ASSUME [Next]_vars
  PROVE  \/ \E p \in Proc : FlushTagged(p) \/ FlushIntr(p) \/ Return(p)
         \/ \E m \in srv : IgnoreFlush(m)
         \/ UNCHANGED <<quiet>>
<1>1. ASSUME NEW p \in Proc, Call(p) \/ WriteDone(p) \/ WriteFails(p) \/ FlushDone(p)
             \/ FlushFails(p) \/ Gate(p) \/ Sleep(p)
      PROVE  UNCHANGED <<quiet>>
  BY <1>1, FlushFailsEnds DEF Call, WriteDone, WriteFails, FlushDone, FlushEnds, Gate, Sleep,
     ghost, history
<1>2. ASSUME NEW p \in Proc, Awake(p) \/ ReadDone(p) \/ ReadReply(p) \/ ReadEnds(p)
             \/ MuxNone(p) \/ MuxOwn(p) \/ MuxOther(p)
      PROVE  UNCHANGED <<quiet>>
  BY <1>2 DEF Awake, ReadDone, ReadReply, ReadEnds, MuxNone, MuxOwn, MuxOther, ghost, history
<1>3. ASSUME NEW p \in Proc, Fill(p) \/ Wake(p) \/ mntgate(p) \/ GateWake(p) \/ WriteIntr(p)
             \/ SleepIntr(p) \/ ReadIntr(p)
      PROVE  UNCHANGED <<quiet>>
  BY <1>3 DEF Fill, Wake, mntgate, GateWake, WriteIntr, SleepIntr, ReadIntr, ghost, history
<1>4. ASSUME HangUp \/ UNCHANGED vars \/ \E m \in srv : Answer(m) \/ AnswerFlush(m)
      PROVE  UNCHANGED <<quiet>>
  BY <1>4 DEF HangUp, vars, Answer, AnswerFlush, ghost, history, local
<1> QED
  BY <1>1, <1>2, <1>3, <1>4 DEF Next, Step, Interrupt

\* An interrupt that makes a Tflush fail is remembered for good.
LEMMA CutFrame ==
  ASSUME [Next]_vars
  PROVE  \/ cut' = TRUE /\ \E p \in Proc : FlushFails(p)
         \/ UNCHANGED <<cut>>
<1>1. ASSUME NEW p \in Proc, Call(p) \/ WriteDone(p) \/ WriteFails(p) \/ FlushTagged(p)
             \/ FlushDone(p) \/ Gate(p) \/ Sleep(p)
      PROVE  UNCHANGED <<cut>>
  BY <1>1 DEF Call, WriteDone, WriteFails, FlushTagged, FlushDone, Gate, Sleep, ghost, history
<1>2. ASSUME NEW p \in Proc, Awake(p) \/ ReadDone(p) \/ ReadReply(p) \/ ReadEnds(p)
             \/ MuxNone(p) \/ MuxOwn(p) \/ MuxOther(p)
      PROVE  UNCHANGED <<cut>>
  BY <1>2 DEF Awake, ReadDone, ReadReply, ReadEnds, MuxNone, MuxOwn, MuxOther, ghost, history
<1>3. ASSUME NEW p \in Proc, Fill(p) \/ Wake(p) \/ mntgate(p) \/ GateWake(p) \/ Return(p)
             \/ WriteIntr(p) \/ FlushIntr(p) \/ SleepIntr(p) \/ ReadIntr(p)
      PROVE  UNCHANGED <<cut>>
  BY <1>3 DEF Fill, Wake, mntgate, GateWake, Return, WriteIntr, FlushIntr, SleepIntr, ReadIntr,
     ghost, history
<1>4. ASSUME HangUp \/ UNCHANGED vars \/ \E m \in srv : Answer(m) \/ AnswerFlush(m) \/ IgnoreFlush(m)
      PROVE  UNCHANGED <<cut>>
  BY <1>4 DEF HangUp, vars, Answer, AnswerFlush, IgnoreFlush, ghost, history, local
<1>5. ASSUME NEW p \in Proc, FlushFails(p) PROVE cut' = TRUE \/ UNCHANGED <<cut>>
  BY <1>5, FlushFailsEnds DEF FlushEnds
<1> QED
  BY <1>1, <1>2, <1>3, <1>4, <1>5 DEF Next, Step, Interrupt

\* The history variables keep their types.
LEMMA HistoryStep ==
  ASSUME TypeOK, [Next]_vars
  PROVE  fault' \subseteq {"reused", "torn", "dropped"} /\ quiet' \subseteq Proc
<1>0. fault \subseteq {"reused", "torn", "dropped"} /\ quiet \subseteq Proc
  BY DEF TypeOK
<1>1. ASSUME NEW p \in Proc, Call(p) \/ FlushTagged(p) \/ FlushFails(p) \/ Fill(p)
      PROVE  fault' \subseteq {"reused", "torn", "dropped"}
  BY <1>0, <1>1 DEF Call, FlushTagged, FlushFails, Fill, Record
<1>2. fault' \subseteq {"reused", "torn", "dropped"}
  BY <1>0, <1>1, FaultFrame
<1>3. ASSUME NEW p \in Proc, FlushTagged(p) \/ FlushIntr(p) \/ Return(p)
      PROVE  quiet' \subseteq Proc
  BY <1>0, <1>3 DEF FlushTagged, FlushIntr, Return
<1>4. ASSUME NEW m \in srv, IgnoreFlush(m) PROVE quiet' \subseteq Proc
  BY <1>0, <1>4 DEF IgnoreFlush
<1>5. quiet' \subseteq Proc
  BY <1>0, <1>3, <1>4, QuietFrame
<1> QED
  BY <1>2, <1>5

\* Every step of the driver and of the server keeps the variables well typed.
LEMMA TypeStep == Struct /\ [Next]_vars => TypeOK'
<1> SUFFICES ASSUME Struct, [Next]_vars PROVE TypeOK'
  OBVIOUS
<1> USE DEF Struct, TypeOK, Place
<1>0. MaxCall \in Nat /\ MaxIntr \in Nat
  BY MountAssumption
<1>h. fault' \subseteq {"reused", "torn", "dropped"} /\ quiet' \subseteq Proc /\ cut' \in BOOLEAN
  BY HistoryStep, CutFrame
<1> USE <1>h
<1>1. ASSUME NEW p \in Proc, Call(p) PROVE TypeOK'
<2>1. rpcfree # <<>> /\ rpcfree \in Seq(Rpc)
  BY <1>1 DEF Call
<2>2. Head(rpcfree) \in Rpc /\ Tail(rpcfree) \in Seq(Rpc)
  BY <2>1, ListTail
<2>3. <<Head(rpcfree)>> \o queue \in Seq(Rpc)
  BY <2>2, ListPush
<2>4. ncall + 1 \in 0..MaxCall
  BY <1>0, <1>1 DEF Call
<2> QED
  BY <1>1, <2>2, <2>3, <2>4, TagFacts, MessageFacts DEF Call, At, conn
<1>2. ASSUME NEW p \in Proc, WriteDone(p) \/ WriteIntr(p) \/ WriteFails(p) PROVE TypeOK'
<2>1. rpc[p] \in Rpc /\ call[p] \in 0..MaxCall
  BY <1>2 DEF Held, WriteDone, WriteIntr, WriteFails, At
<2>2. srv' \subseteq Message
  BY <1>2, <2>1, MessageFacts DEF WriteDone, WriteIntr, WriteFails, Sent, conn
<2>3. nintr' \in 0..MaxIntr
  BY <1>0, <1>2 DEF WriteDone, WriteIntr, WriteFails, ghost, history, Interrupted
<2>4. hungup' \in BOOLEAN /\ stream' \in Seq(Message)
  BY <1>2 DEF WriteDone, WriteIntr, WriteFails, conn
<2> QED
  BY <1>2, <2>2, <2>3, <2>4 DEF WriteDone, WriteIntr, WriteFails, At, ghost, history, mnt, mntrpc
<1>3. ASSUME NEW p \in Proc, FlushTagged(p) PROVE TypeOK'
<2>1. rpc[p] \in Rpc
  BY <1>3 DEF Held, FlushTagged, At
<2>2. mflush' \in FlushTag
  BY <1>3, TagFacts DEF FlushTagged
<2> QED
  BY <1>3, <2>1, <2>2 DEF FlushTagged, At, ghost, history, conn
<1>4. ASSUME NEW p \in Proc, FlushDone(p) \/ FlushIntr(p) PROVE TypeOK'
<2>1. rpc[p] \in Rpc /\ call[p] \in 0..MaxCall
  BY <1>4 DEF Held, FlushDone, FlushIntr, Resume, At
<2>2. Tflush(ftag[rpc[p]], rpc[p], call[p]) \in Message
  BY <2>1, MessageFacts
<2>3. srv' \subseteq Message
  BY <1>4, <2>2 DEF FlushDone, FlushIntr, Sent
<2>4. nintr' \in 0..MaxIntr
  BY <1>0, <1>4 DEF FlushDone, FlushIntr, ghost, history, Interrupted
<2>5. pc' \in [Proc -> Place]
  BY <1>4 DEF FlushDone, FlushIntr, Resume, At
<2> QED
  BY <1>4, <2>3, <2>4, <2>5 DEF FlushDone, FlushIntr, ghost, history, mnt, mntrpc
<1>5. ASSUME NEW p \in Proc, FlushFails(p) \/ ReadEnds(p) PROVE TypeOK'
<2>1. rpc[p] \in Rpc
  BY <1>5 DEF Held, FlushFails, ReadEnds, At
<2>2. queue' \in Seq(Rpc)
  BY <1>5, ListRemove, FlushFailsEnds DEF FlushEnds, ReadEnds, mntqrm
<2>3. pc' \in [Proc -> Place]
  BY <1>5 DEF FlushFails, ReadEnds, At
<2>4. nintr' \in 0..MaxIntr
  BY <1>0, <1>5, FlushFailsEnds DEF FlushEnds, ReadEnds, Interrupted, ghost
<2> QED
  BY <1>5, <2>1, <2>2, <2>3, <2>4 DEF FlushFails, ReadEnds, mntqrm, ghost, history, conn
<1>6. ASSUME NEW p \in Proc, Gate(p) \/ Sleep(p) \/ SleepIntr(p) \/ Awake(p) \/ ReadDone(p)
             \/ ReadIntr(p) \/ MuxNone(p) PROVE TypeOK'
<2>1. pc' \in [Proc -> Place]
  BY <1>6, ZenonT(40) DEF Gate, Sleep, SleepIntr, Awake, ReadDone, ReadIntr, MuxNone, At
<2>2. rip' \in Proc \cup {nil} /\ nintr' \in 0..MaxIntr
  BY <1>0, <1>6 DEF Gate, Sleep, SleepIntr, Awake, ReadDone, ReadIntr, MuxNone, Interrupted,
     ghost, history, mnt
<2> QED
  BY <1>6, <2>1, <2>2 DEF Gate, Sleep, SleepIntr, Awake, ReadDone, ReadIntr, MuxNone, ghost, history,
     mnt, mntrpc, conn
<1>7. ASSUME NEW p \in Proc, ReadReply(p) PROVE TypeOK'
<2>1. rpc[p] \in Rpc
  BY <1>7 DEF Held, ReadReply, At
<2>2. Head(stream) \in Message /\ Tail(stream) \in Seq(Message)
  BY <1>7, ListTail DEF ReadReply
<2> QED
  BY <1>7, <2>1, <2>2 DEF ReadReply, At, ghost, history, mnt
<1>8. ASSUME NEW p \in Proc, MuxOwn(p) \/ MuxOther(p) PROVE TypeOK'
<2>1. rpc[p] \in Rpc
  BY <1>8 DEF Held, MuxOwn, MuxOther, At
<2>2. queue' \in Seq(Rpc)
  BY <1>8, ListRemove DEF MuxOwn, MuxOther
<2>3. \A i \in 1..Len(queue) : queue[i] \in Rpc
  OBVIOUS
<2>4. hand' \in [Proc -> Rpc \cup {nil}]
  BY <1>8, <2>3 DEF MuxOwn, MuxOther
<2>5. done' \in [Rpc -> BOOLEAN]
  BY <1>8, <2>1 DEF MuxOwn, MuxOther, mntrpc
<2> QED
  BY <1>8, <2>2, <2>4, <2>5 DEF MuxOwn, MuxOther, At, ghost, history, mntrpc, conn
<1>9. ASSUME NEW p \in Proc, Fill(p) PROVE TypeOK'
<2>1. rpc[p] \in Rpc /\ hand[p] \in Rpc
  BY <1>9 DEF Held, HandPlaces, Fill, At
<2> QED
  BY <1>9, <2>1 DEF Fill, At, ghost, history, mnt, conn
<1>10. ASSUME NEW p \in Proc, Wake(p) \/ GateWake(p) PROVE TypeOK'
<2>1. pc' \in [Proc -> Place]
  BY <1>10 DEF Wake, GateWake, Wakeup
<2> QED
  BY <1>10, <2>1 DEF Wake, GateWake, ghost, history, mnt, mntrpc, conn
<1>11. ASSUME NEW p \in Proc, mntgate(p) PROVE TypeOK'
<2>1. \A i \in 1..Len(queue) : queue[i] \in Rpc
  OBVIOUS
<2>2. hand' \in [Proc -> Rpc \cup {nil}] /\ pc' \in [Proc -> Place]
  BY <1>11, <2>1 DEF mntgate, At
<2> QED
  BY <1>11, <2>2 DEF mntgate, ghost, history, mntrpc, conn
<1>12. ASSUME NEW p \in Proc, Return(p) PROVE TypeOK'
<2>1. rpc[p] \in Rpc
  BY <1>12 DEF Held, Return, At
<2>2. rpcfree' \in Seq(Rpc)
  BY <1>12, <2>1, ListPush DEF Return
<2>3. 0 \in 0..MaxCall
  BY <1>0
<2> QED
  BY <1>12, <2>1, <2>2, <2>3, MessageFacts DEF Return, At, mnt, conn
<1>13. ASSUME NEW m \in srv, Answer(m) \/ AnswerFlush(m) \/ IgnoreFlush(m) PROVE TypeOK'
<2>1. m \in Message /\ Append(stream, m) \in Seq(Message)
  BY ListAppend
<2>2. stream' \in Seq(Message) /\ srv' \subseteq Message
  BY <1>13, <2>1 DEF Answer, AnswerFlush, IgnoreFlush
<2> QED
  BY <1>13, <2>2 DEF Answer, AnswerFlush, IgnoreFlush, local, ghost, history, mnt, mntrpc
<1>14. ASSUME HangUp PROVE TypeOK'
  BY <1>14 DEF HangUp, ghost, history, mnt, mntrpc, local
<1>15. CASE UNCHANGED vars
  BY <1>15 DEF vars, local, ghost, history, mnt, mntrpc, conn
<1> QED
  BY <1>1, <1>2, <1>3, <1>4, <1>5, <1>6, <1>7, <1>8, <1>9, <1>10, <1>11, <1>12, <1>13, <1>14,
     <1>15 DEF Next, Step, Interrupt

\* A process has an Mntrpc while it is in a call.
LEMMA HeldStep == Struct /\ [Next]_vars => Held'
<1> SUFFICES ASSUME Struct, [Next]_vars PROVE Held'
  OBVIOUS
<1> USE DEF Struct, TypeOK, Held, HandPlaces, Place
<1>1. ASSUME NEW p \in Proc, Call(p) PROVE Held'
<2>1. Head(rpcfree) # nil
  BY <1>1, ListTail, TagFacts DEF Call
<2> QED
  BY <1>1, <2>1 DEF Call, At
<1>2. ASSUME NEW p \in Proc, WriteDone(p) \/ WriteIntr(p) \/ WriteFails(p) \/ FlushTagged(p)
             \/ FlushDone(p) \/ FlushIntr(p) \/ FlushFails(p) \/ Gate(p) \/ Sleep(p)
             \/ SleepIntr(p) \/ Awake(p) \/ ReadDone(p) \/ ReadReply(p) \/ ReadIntr(p)
             \/ ReadEnds(p) \/ MuxNone(p) \/ MuxOwn(p) \/ Fill(p) PROVE Held'
  BY <1>2, FlushFailsEnds DEF WriteDone, At, WriteIntr, WriteFails, FlushTagged, FlushDone,
     Resume, FlushIntr, FlushEnds, Gate, Sleep, SleepIntr, Awake, ReadDone, ReadReply, ReadIntr,
     ReadEnds, MuxNone, MuxOwn, Fill
<1>3. ASSUME NEW p \in Proc, MuxOther(p) \/ mntgate(p) PROVE Held'
<2>1. \A i \in 1..Len(queue) : queue[i] # nil
  BY TagFacts
<2> QED
  BY <1>3, <2>1 DEF MuxOther, mntgate, At
<1>4. ASSUME NEW p \in Proc, Wake(p) \/ GateWake(p) PROVE Held'
  BY <1>4 DEF Wake, Wakeup, Asleep, ghost, history, mnt, mntrpc, conn, GateWake
<1>5. ASSUME NEW p \in Proc, Return(p) PROVE Held'
  BY <1>5 DEF Return, At, mnt, conn
<1>6. ASSUME NEW m \in srv, Answer(m) \/ AnswerFlush(m) \/ IgnoreFlush(m) PROVE Held'
  BY <1>6 DEF Answer, ghost, history, mnt, mntrpc, local, AnswerFlush, IgnoreFlush
<1>7. ASSUME HangUp PROVE Held'
  BY <1>7 DEF HangUp, ghost, history, mnt, mntrpc, local
<1>8. CASE UNCHANGED vars
  BY <1>8 DEF vars, local, ghost, history, mnt, mntrpc, conn
<1> QED
  BY <1>1, <1>2, <1>3, <1>4, <1>5, <1>6, <1>7, <1>8 DEF Next, Step, Interrupt

\* Only mntralloc and mntfree move Mntrpcs between the free list and the processes.
LEMMA RpcFrame ==
  ASSUME [Next]_vars
  PROVE  \/ \E p \in Proc : Call(p) \/ Return(p)
         \/ UNCHANGED <<rpc, rpcfree, call, ncall>>
  BY FlushFailsEnds DEF Next, Step, Interrupt, WriteDone, ghost, WriteIntr, WriteFails,
     FlushTagged, FlushDone, FlushIntr, FlushEnds, Gate, Sleep, SleepIntr, Awake, ReadDone,
     ReadReply, ReadIntr, ReadEnds, MuxNone, MuxOwn, MuxOther, Fill, Wake, mntgate, GateWake,
     Answer, local, AnswerFlush, IgnoreFlush, HangUp, vars

\* No Mntrpc is in two hands, none is free and in use.
LEMMA HolderStep == Struct /\ [Next]_vars => OneHolder' /\ FreeList'
<1> SUFFICES ASSUME Struct, [Next]_vars PROVE OneHolder' /\ FreeList'
  OBVIOUS
<1> USE DEF Struct, OneHolder, FreeList
<1>1. rpc \in [Proc -> Rpc \cup {nil}] /\ rpcfree \in Seq(Rpc) /\ nil \notin Rpc
  BY TagFacts DEF TypeOK
<1>2. ASSUME NEW p \in Proc, Call(p) PROVE OneHolder' /\ FreeList'
<2>1. rpcfree # <<>> /\ rpc' = [rpc EXCEPT ![p] = Head(rpcfree)] /\ rpcfree' = Tail(rpcfree)
  BY <1>2 DEF Call
<2>2. /\ Head(rpcfree) \in Rpc /\ Has(rpcfree, Head(rpcfree)) /\ NoDup(Tail(rpcfree))
      /\ ~ Has(Tail(rpcfree), Head(rpcfree))
      /\ \A x : Has(Tail(rpcfree), x) => Has(rpcfree, x)
  BY <1>1, <2>1, ListTail
<2> QED
  BY <1>1, <2>1, <2>2
<1>3. ASSUME NEW p \in Proc, Return(p) PROVE OneHolder' /\ FreeList'
<2>1. rpc' = [rpc EXCEPT ![p] = nil] /\ rpcfree' = <<rpc[p]>> \o rpcfree
  BY <1>3 DEF Return
<2>2. rpc[p] \in Rpc /\ ~ Has(rpcfree, rpc[p])
  BY <1>1, <1>3 DEF Held, Return, At
<2>3. NoDup(rpcfree') /\ \A x : Has(rpcfree', x) <=> Has(rpcfree, x) \/ x = rpc[p]
  BY <1>1, <2>1, <2>2, ListPush
<2>4. ~ Has(rpcfree, nil)
  BY <1>1 DEF Has
<2> QED
  BY <1>1, <2>1, <2>2, <2>3, <2>4
<1>4. CASE UNCHANGED <<rpc, rpcfree>>
  BY <1>4 DEF Has, NoDup
<1> QED
  BY <1>2, <1>3, <1>4, RpcFrame

\* m->rip is the process in the reader's loop; who flushes meanwhile keeps it.
LEMMA ReaderStep == Struct /\ [Next]_vars => OneReader'
<1> SUFFICES ASSUME Struct, [Next]_vars PROVE OneReader'
  OBVIOUS
<1> USE DEF Struct, TypeOK, OneReader, ReadPlaces, FlushPlaces, Place
<1>0. nil \notin Proc
  BY MountAssumption
<1>1. ASSUME NEW p \in Proc, Call(p) \/ WriteDone(p) \/ WriteIntr(p) \/ WriteFails(p)
             \/ FlushTagged(p) \/ FlushDone(p) \/ FlushIntr(p) \/ FlushFails(p) \/ Sleep(p)
             \/ SleepIntr(p) \/ Awake(p) \/ ReadDone(p) \/ ReadReply(p) \/ ReadIntr(p)
             \/ ReadEnds(p) \/ MuxNone(p) \/ MuxOwn(p) \/ MuxOther(p) \/ Fill(p) \/ Return(p)
             PROVE OneReader'
  BY <1>1, FlushFailsEnds DEF Call, At, WriteDone, mnt, WriteIntr, WriteFails, FlushTagged,
     FlushDone, Resume, FlushIntr, FlushEnds, Sleep, SleepIntr, Awake, ReadDone, ReadReply,
     ReadIntr, ReadEnds, MuxNone, MuxOwn, MuxOther, Fill, Return
<1>2. ASSUME NEW p \in Proc, Gate(p) \/ mntgate(p) PROVE OneReader'
  BY <1>2, <1>0 DEF Gate, At, ghost, history, mntrpc, conn, mntgate
<1>3. ASSUME NEW p \in Proc, Wake(p) \/ GateWake(p) PROVE OneReader'
<2>1. /\ rip' = rip
      /\ \A q \in Proc : \/ pc'[q] = pc[q]
                         \/ pc[q] = "asleep" /\ pc'[q] = "awake"
                         \/ pc[q] = "wake" /\ pc'[q] = "read"
                         \/ pc[q] = "gatewake" /\ pc'[q] = "ret"
  BY <1>3 DEF Wake, Wakeup, Asleep, mnt, GateWake
<2> QED
  BY <2>1
<1>4. ASSUME NEW m \in srv, Answer(m) \/ AnswerFlush(m) \/ IgnoreFlush(m) PROVE OneReader'
  BY <1>4 DEF Answer, ghost, history, mnt, mntrpc, local, AnswerFlush, IgnoreFlush
<1>5. ASSUME HangUp PROVE OneReader'
  BY <1>5 DEF HangUp, ghost, history, mnt, mntrpc, local
<1>6. CASE UNCHANGED vars
  BY <1>6 DEF vars, local, ghost, history, mnt, mntrpc, conn
<1> QED
  BY <1>1, <1>2, <1>3, <1>4, <1>5, <1>6 DEF Next, Step, Interrupt

\* Calls are numbered apart.
LEMMA NumberedStep == Struct /\ [Next]_vars => Numbered'
<1> SUFFICES ASSUME Struct, [Next]_vars PROVE Numbered'
  OBVIOUS
<1> USE DEF Struct, TypeOK, Numbered, Place
<1>0. MaxCall \in Nat
  BY MountAssumption
<1>1. ASSUME NEW p \in Proc, Call(p) PROVE Numbered'
<2>1. ncall \in Nat /\ \A q \in Proc : call[q] \in Nat /\ call[q] <= ncall
  BY <1>0
<2>2. ncall' = ncall + 1 /\ call' = [call EXCEPT ![p] = ncall + 1]
  BY <1>1 DEF Call
<2>3. pc' = [pc EXCEPT ![p] = "write"]
  BY <1>1 DEF Call, At
<2> QED
  BY <2>1, <2>2, <2>3
<1>2. ASSUME NEW p \in Proc, WriteDone(p) \/ WriteIntr(p) \/ WriteFails(p) \/ FlushTagged(p)
             \/ FlushDone(p) \/ FlushIntr(p) \/ FlushFails(p) \/ Gate(p) \/ Sleep(p)
             \/ SleepIntr(p) \/ Awake(p) \/ ReadDone(p) \/ ReadReply(p) \/ ReadIntr(p)
             \/ ReadEnds(p) \/ MuxNone(p) \/ MuxOwn(p) \/ MuxOther(p) \/ Fill(p)
             \/ mntgate(p) PROVE Numbered'
<2>1. call' = call /\ ncall' = ncall
  BY <1>2, FlushFailsEnds DEF WriteDone, ghost, WriteIntr, WriteFails, FlushTagged, FlushDone,
     FlushIntr, FlushEnds, Gate, Sleep, SleepIntr, Awake, ReadDone, ReadReply, ReadIntr, ReadEnds,
     MuxNone, MuxOwn, MuxOther, Fill, mntgate
<2>2. pc[p] # "out" /\ pc'[p] # "out" /\ \A q \in Proc : q # p => pc'[q] = pc[q]
  BY <1>2, FlushFailsEnds DEF WriteDone, At, WriteIntr, WriteFails, FlushTagged, FlushDone,
     Resume, FlushIntr, FlushEnds, Gate, Sleep, SleepIntr, Awake, ReadDone, ReadReply, ReadIntr,
     ReadEnds, MuxNone, MuxOwn, MuxOther, Fill, mntgate
<2> QED
  BY <2>1, <2>2
<1>3. ASSUME NEW p \in Proc, Wake(p) \/ GateWake(p) PROVE Numbered'
<2>1. call' = call /\ ncall' = ncall
  BY <1>3 DEF Wake, GateWake, ghost
<2>2. \A q \in Proc : pc'[q] = "out" <=> pc[q] = "out"
  BY <1>3 DEF Wake, Wakeup, Asleep, GateWake
<2> QED
  BY <2>1, <2>2
<1>4. ASSUME NEW p \in Proc, Return(p) PROVE Numbered'
  BY <1>4 DEF Return, At, mnt, conn
<1>5. ASSUME NEW m \in srv, Answer(m) \/ AnswerFlush(m) \/ IgnoreFlush(m) PROVE Numbered'
  BY <1>5 DEF Answer, ghost, history, mnt, mntrpc, local, AnswerFlush, IgnoreFlush
<1>6. ASSUME HangUp PROVE Numbered'
  BY <1>6 DEF HangUp, ghost, history, mnt, mntrpc, local
<1>7. CASE UNCHANGED vars
  BY <1>7 DEF vars, local, ghost, history, mnt, mntrpc, conn
<1> QED
  BY <1>1, <1>2, <1>3, <1>4, <1>5, <1>6, <1>7 DEF Next, Step, Interrupt

\* The initial state.
LEMMA StructInit == Init => Struct
<1> SUFFICES ASSUME Init PROVE Struct
  OBVIOUS
<1> USE DEF Init
<1>0. MaxCall \in Nat /\ MaxIntr \in Nat /\ NRpc \in Nat /\ nil \notin Proc /\ nil \notin Nat
  BY MountAssumption
<1>1. queue \in Seq(Rpc) /\ stream \in Seq(Message) /\ rpcfree \in Seq(Rpc) /\ Len(rpcfree) = NRpc
  BY <1>0 DEF Rpc
<1>2. /\ pc \in [Proc -> Place] /\ rpc \in [Proc -> Rpc \cup {nil}]
      /\ hand \in [Proc -> Rpc \cup {nil}] /\ failed \in [Proc -> BOOLEAN]
  BY DEF Place
<1>5. call \in [Proc -> 0..MaxCall] /\ ncall \in 0..MaxCall /\ nintr \in 0..MaxIntr
  BY <1>0
<1>6. /\ mflush \in FlushTag /\ ftag \in [Rpc -> FlushTag \cup {0}]
      /\ reply \in [Rpc -> Message]
  BY TagFacts, MessageFacts
<1>7. TypeOK
  BY <1>1, <1>2, <1>5, <1>6 DEF TypeOK
<1>3. Held /\ OneHolder /\ OneReader /\ Numbered
  BY <1>0, TagFacts DEF Held, HandPlaces, OneHolder, OneReader, ReadPlaces, FlushPlaces, Numbered
<1>4. FreeList
  BY <1>0, <1>1 DEF FreeList, NoDup, Has
<1> QED
  BY <1>3, <1>4, <1>7 DEF Struct

\* Struct is inductive.
LEMMA StructStep == Struct /\ [Next]_vars => Struct'
  BY TypeStep, HeldStep, HolderStep, ReaderStep, NumberedStep DEF Struct

\* Struct is an invariant, whatever faults meet.
LEMMA StructInvariant == Spec => []Struct
  BY StructInit, StructStep, PTL DEF Spec

\* Types: m->flushtag and with it every flush tag stays between Tagfls and Tagend, what
\* is linked and freed are Mntrpcs, and what is sent and read are messages.
THEOREM TypeCorrect == Spec => []TypeOK
<1>1. Struct => TypeOK
  BY DEF Struct
<1> QED
  BY <1>1, StructInvariant, PTL

-----------------------------------------------------------------------------
(***************************************************************************)
(* The inductive invariant.  A message is on its way while the server has  *)
(* it, it is in the stream, or the reader has it in its Mntrpc.            *)
(***************************************************************************)
Plain(m) == m.old = nil
Muxing(q) == pc[q] = "mux"
Got(q) == reply[rpc[q]]
InStream(m) == \E i \in 1..Len(stream) : stream[i] = m
InMux(m) == \E q \in Proc : Muxing(q) /\ Got(q) = m
Pending(m) == m \in srv \/ InStream(m) \/ InMux(m)

\* An interrupt has met the end of the connection, or of the Tflush it has led to.
Met == nintr > 0 /\ (hungup \/ cut)

\* Without interrupts a flush is that of a request whose write failed.
Faults ==
  /\ hungup => srv = {}
  /\ \A p \in Proc : pc[p] \in FlushPlaces /\ nintr = 0 => hungup /\ rip # p
Ended ==
  \A p \in Proc : /\ failed[p] => pc[p] \in EndPlaces
                  /\ pc[p] \in EndPlaces => done[rpc[p]]
                  /\ pc[p] = "write" => ~ done[rpc[p]] /\ ~ flushed[rpc[p]]
                  /\ pc[p] = "flushw" => flushed[rpc[p]] /\ ftag[rpc[p]] \in FlushTag

\* QueueExact, with the owners of what is linked.
Linked ==
  /\ NoDup(queue)
  /\ \A x \in Rpc : Has(queue, x) => ~ done[x] /\ \E p \in Proc : rpc[p] = x
  /\ \A p \in Proc : rpc[p] # nil /\ ~ done[rpc[p]] =>
       Has(queue, rpc[p]) \/ \E q \in Proc : pc[q] = "fill" /\ hand[q] = rpc[p]

\* The request of p has gone, and no failure of its write or its flush is to come.
Sure(p) == pc[p] # "write" /\ (nintr = 0 => pc[p] \notin FlushPlaces)

\* Whom the reader completes waits, and the reply is the one to it; or its owner has
\* given up after a failed flush, and has gone, or another has its Mntrpc.
Waits(q) ==
  /\ ~ Has(queue, hand[q]) /\ ~ done[hand[q]]
  /\ \E p \in Proc : p # q /\ rpc[p] = hand[q] /\ Sure(p) /\ Got(q).call = call[p]
GivenUp(q) ==
  /\ Met
  /\ \A p \in Proc : rpc[p] = hand[q] => Has(queue, hand[q]) \/ (failed[p] /\ done[hand[q]])
Filling == \A q \in Proc : pc[q] = "fill" => Waits(q) \/ GivenUp(q)

\* An answer on its way is to a request on the queue, or its call has given up and its
\* tag is not in use again; a Tflush or its answer is of a call that is flushed or over,
\* and nobody else has its tag.
PlainOf(m) ==
  \E p \in Proc : rpc[p] = m.tag /\ call[p] = m.call /\ Sure(p) /\ Has(queue, m.tag)
OfCall(m) == m.call \in 1..ncall /\ \A p \in Proc : call[p] = m.call => rpc[p] = m.tag
Orphan(m) == Met /\ m.tag \in Rpc /\ ~ Has(queue, m.tag) /\ OfCall(m)
FlushOf(m) ==
  /\ m.tag \in FlushTag /\ nintr > 0 /\ m.call \in 1..ncall
  /\ \A p \in Proc : call[p] = m.call =>
       rpc[p] = m.old /\ pc[p] # "write" /\ (failed[p] \/ flushed[rpc[p]])
  /\ \A p \in Proc : rpc[p] # nil /\ flushed[rpc[p]] /\ ftag[rpc[p]] = m.tag => m.call = call[p]
Good(m) == (Plain(m) => PlainOf(m) \/ Orphan(m)) /\ (~ Plain(m) => FlushOf(m))
Messages ==
  /\ \A m \in srv : Good(m)
  /\ \A i \in 1..Len(stream) : Good(stream[i])
  /\ \A q \in Proc : Muxing(q) => Good(Got(q))

\* A request is answered once.
Apart(m, n) == Plain(m) /\ Plain(n) => m.tag # n.tag
Once ==
  /\ \A m, n \in srv : m # n => Apart(m, n)
  /\ \A m \in srv : \A i \in 1..Len(stream) : Apart(m, stream[i])
  /\ \A i, j \in 1..Len(stream) : i # j => Apart(stream[i], stream[j])
  /\ \A q \in Proc : Muxing(q) =>
       /\ \A m \in srv : Apart(m, Got(q))
       /\ \A i \in 1..Len(stream) : Apart(stream[i], Got(q))

\* After the answer to a flush comes no answer to the request that was flushed.
NotOf(f, n) == ~ Plain(f) /\ Plain(n) => f.call # n.call
Order ==
  /\ \A i \in 1..Len(stream) :
       /\ \A n \in srv : NotOf(stream[i], n)
       /\ \A j \in 1..Len(stream) : i < j => NotOf(stream[i], stream[j])
  /\ \A q \in Proc : Muxing(q) =>
       /\ \A n \in srv : NotOf(Got(q), n)
       /\ \A i \in 1..Len(stream) : NotOf(Got(q), stream[i])

\* Flushes that are not over have tags of their own.
FlushTags ==
  ~ hungup => \A p, q \in Proc :
    p # q /\ rpc[p] # nil /\ rpc[q] # nil /\ flushed[rpc[p]] /\ flushed[rpc[q]]
      => ftag[rpc[p]] # ftag[rpc[q]]

\* OwnReply, from the moment the call is done.
Right ==
  \A p \in Proc : rpc[p] # nil /\ done[rpc[p]] /\ ~ failed[p] => Got(p).call = call[p]

\* Who sleeps though it is done is about to be woken.
DoneWoken ==
  \A p \in Proc : pc[p] = "asleep" /\ done[rpc[p]] =>
    \E q \in Proc : pc[q] = "wake" /\ hand[q] = rpc[p]

\* When nobody reads and somebody sleeps, somebody is on the way to the gate.
Mover(p) ==
  \/ pc[p] = "gate"
  \/ pc[p] \in {"sleep", "awake"} /\ ~ done[rpc[p]]
  \/ pc[p] \in FlushPlaces /\ nintr > 0
  \/ pc[p] = "gatewake" /\ \E q \in Proc : pc[q] = "asleep" /\ rpc[q] = hand[p]
SomeMover ==
  fault = {} /\ rip = nil /\ (\E p \in Proc : pc[p] = "asleep") => \E p \in Proc : Mover(p)

\* What p waits for, once it has sent what it has to send, is on its way, unless its flush
\* has not gone or is not answered.
Awaits(p, m) ==
  /\ m.call = call[p]
  /\ IF flushed[rpc[p]] THEN ~ Plain(m) /\ m.tag = ftag[rpc[p]] ELSE Plain(m)
AnswerComes ==
  ~ hungup => \A p \in Proc : Has(queue, rpc[p]) /\ pc[p] \notin {"write", "flush", "flushw"} =>
    \/ p \in quiet
    \/ \E m \in srv : Awaits(p, m)
    \/ \E i \in 1..Len(stream) : Awaits(p, stream[i])
    \/ \E q \in Proc : Muxing(q) /\ Awaits(p, Got(q))

IInv ==
  /\ Faults /\ Ended /\ Linked /\ Filling
  /\ Messages /\ Once /\ Order /\ FlushTags
  /\ Right /\ DoneWoken /\ SomeMover /\ AnswerComes

Inv == Struct /\ IInv

\* No Mntrpc is torn, and no tag in use twice.
Clean == fault \cap {"reused", "torn"} = {}
Assumed == Clean'

\* What the steps that record a fault do when they do not.
LEMMA AssumedFacts ==
  ASSUME Assumed, NEW p \in Proc
  PROVE  /\ Call(p) => ~ OnItsWay(Head(rpcfree))
         /\ FlushTagged(p) => ~ TagUsed(p, mflush)
         /\ Fill(p) => ~ Has(queue, hand[p])
  BY DEF Assumed, Clean, Call, FlushTagged, Fill, Record

-----------------------------------------------------------------------------
(* Which steps touch what.                                                 *)

\* Replies are filled in by the reader; mntralloc clears them.
LEMMA ReplyFrame ==
  ASSUME [Next]_vars
  PROVE  \/ \E p \in Proc : Call(p) \/ ReadReply(p) \/ Fill(p) \/ Return(p)
         \/ UNCHANGED <<reply>>
  BY FlushFailsEnds, SMTT(30) DEF Next, Step, Interrupt, WriteDone, mntrpc, WriteIntr,
     WriteFails, FlushTagged, FlushDone, FlushIntr, FlushEnds, mntqrm, Gate, Sleep, SleepIntr,
     Awake, ReadDone, ReadIntr, ReadEnds, MuxNone, MuxOwn, MuxOther, Wake, mntgate, GateWake,
     Answer, AnswerFlush, IgnoreFlush, HangUp, vars

\* The queue changes when a request is linked or unlinked.
LEMMA QueueFrame ==
  ASSUME [Next]_vars
  PROVE  \/ \E p \in Proc : Call(p) \/ FlushFails(p) \/ ReadEnds(p) \/ MuxOwn(p) \/ MuxOther(p)
         \/ UNCHANGED <<queue>>
<1>1. ASSUME NEW p \in Proc, WriteDone(p) \/ WriteFails(p) \/ FlushTagged(p) \/ FlushDone(p)
             \/ Gate(p) \/ Sleep(p) \/ Awake(p)
      PROVE  UNCHANGED <<queue>>
  BY <1>1 DEF WriteDone, WriteFails, FlushTagged, FlushDone, Gate, Sleep, Awake, mnt
<1>2. ASSUME NEW p \in Proc, ReadDone(p) \/ ReadReply(p) \/ MuxNone(p) \/ Fill(p) \/ Wake(p)
             \/ mntgate(p) \/ GateWake(p)
      PROVE  UNCHANGED <<queue>>
  BY <1>2 DEF ReadDone, ReadReply, MuxNone, Fill, Wake, mntgate, GateWake, mnt
<1>3. ASSUME NEW p \in Proc, Return(p) \/ WriteIntr(p) \/ FlushIntr(p) \/ SleepIntr(p)
             \/ ReadIntr(p)
      PROVE  UNCHANGED <<queue>>
  BY <1>3 DEF Return, WriteIntr, FlushIntr, SleepIntr, ReadIntr, mnt
<1>4. ASSUME HangUp \/ UNCHANGED vars \/ \E m \in srv : Answer(m) \/ AnswerFlush(m) \/ IgnoreFlush(m)
      PROVE  UNCHANGED <<queue>>
  BY <1>4 DEF HangUp, vars, Answer, AnswerFlush, IgnoreFlush, mnt, local
<1> QED
  BY <1>1, <1>2, <1>3, <1>4 DEF Next, Step, Interrupt

\* A call is done by the reader, or by its own failure.
LEMMA DoneFrame ==
  ASSUME [Next]_vars
  PROVE  \/ \E p \in Proc : Call(p) \/ FlushFails(p) \/ ReadEnds(p) \/ MuxOwn(p) \/ Fill(p) \/ Return(p)
         \/ UNCHANGED <<done>>
  BY SMTT(30) DEF Next, Step, Interrupt, WriteDone, mntrpc, WriteIntr, WriteFails,
     FlushTagged, FlushDone, FlushIntr, Gate, Sleep, SleepIntr, Awake, ReadDone, ReadReply,
     ReadIntr, MuxNone, MuxOther, Wake, mntgate, GateWake, Answer, AnswerFlush, IgnoreFlush,
     HangUp, vars

\* A call fails for good.
LEMMA FailedFrame ==
  ASSUME [Next]_vars
  PROVE  \/ \E p \in Proc : FlushFails(p) \/ ReadEnds(p) \/ Return(p)
         \/ UNCHANGED <<failed>>
  BY DEF Next, Step, Interrupt, Call, WriteDone, ghost, history, mnt, mntrpc, WriteIntr,
     WriteFails, conn, FlushTagged, FlushDone, FlushIntr, Gate, Sleep, SleepIntr, Awake,
     ReadDone, ReadReply, ReadIntr, MuxNone, MuxOwn, MuxOther, Fill, Wake, mntgate, GateWake,
     Answer, local, AnswerFlush, IgnoreFlush, HangUp, vars

\* What a request knows of its flush.
LEMMA FlushFrame ==
  ASSUME [Next]_vars
  PROVE  \/ \E p \in Proc : Call(p) \/ FlushTagged(p) \/ FlushFails(p) \/ ReadEnds(p) \/ Return(p)
         \/ UNCHANGED <<flushed, ftag>>
  BY SMTT(30) DEF Next, Step, Interrupt, WriteDone, mntrpc, WriteIntr, WriteFails, FlushDone,
     FlushIntr, Gate, Sleep, SleepIntr, Awake, ReadDone, ReadReply, ReadIntr, MuxNone, MuxOwn,
     MuxOther, Fill, Wake, mntgate, GateWake, Answer, AnswerFlush, IgnoreFlush, HangUp, vars

\* The connection moves by writes, by reads, by answers and by its end.
LEMMA ConnFrame ==
  ASSUME [Next]_vars
  PROVE  \/ \E p \in Proc : WriteDone(p) \/ WriteIntr(p) \/ FlushDone(p) \/ FlushIntr(p) \/ ReadReply(p)
         \/ \E m \in srv : Answer(m) \/ AnswerFlush(m) \/ IgnoreFlush(m)
         \/ HangUp
         \/ UNCHANGED <<srv, stream, hungup>>
<1>1. ASSUME NEW p \in Proc, Call(p) \/ WriteFails(p) \/ FlushTagged(p) \/ FlushFails(p)
             \/ Gate(p) \/ Sleep(p) \/ Awake(p)
      PROVE  UNCHANGED <<srv, stream, hungup>>
  BY <1>1, FlushFailsEnds DEF Call, WriteFails, FlushTagged, FlushEnds, Gate, Sleep, Awake,
     conn
<1>2. ASSUME NEW p \in Proc, ReadDone(p) \/ ReadEnds(p) \/ MuxNone(p) \/ MuxOwn(p)
             \/ MuxOther(p) \/ Fill(p) \/ Wake(p)
      PROVE  UNCHANGED <<srv, stream, hungup>>
  BY <1>2 DEF ReadDone, ReadEnds, MuxNone, MuxOwn, MuxOther, Fill, Wake, conn
<1>3. ASSUME NEW p \in Proc, mntgate(p) \/ GateWake(p) \/ Return(p) \/ SleepIntr(p)
             \/ ReadIntr(p)
      PROVE  UNCHANGED <<srv, stream, hungup>>
  BY <1>3 DEF mntgate, GateWake, Return, SleepIntr, ReadIntr, conn
<1>4. UNCHANGED vars => UNCHANGED <<srv, stream, hungup>>
  BY DEF vars, conn
<1> QED
  BY <1>1, <1>2, <1>3, <1>4 DEF Next, Step, Interrupt

\* A connection that has ended has ended.
LEMMA HungFrame ==
  ASSUME [Next]_vars, hungup
  PROVE  hungup'
  BY ConnFrame DEF WriteDone, WriteIntr, FlushDone, FlushIntr, ReadReply, Answer, AnswerFlush,
     IgnoreFlush, HangUp

\* Interrupts are only counted up.
LEMMA IntrFrame ==
  ASSUME Struct, [Next]_vars
  PROVE  nintr \in Nat /\ nintr' \in Nat /\ nintr' >= nintr
<1>1. nintr \in Nat
  BY MountAssumption DEF Struct, TypeOK
<1>2. nintr' = nintr \/ nintr' = nintr + 1
<2>1. ASSUME NEW p \in Proc, Call(p) \/ WriteDone(p) \/ WriteFails(p) \/ FlushTagged(p)
             \/ FlushDone(p) \/ FlushFails(p) \/ Gate(p) \/ Sleep(p)
      PROVE  nintr' = nintr \/ nintr' = nintr + 1
  BY <2>1, FlushFailsEnds DEF Call, WriteDone, WriteFails, FlushTagged, FlushDone, FlushEnds,
     Gate, Sleep, ghost, Interrupted
<2>2. ASSUME NEW p \in Proc, Awake(p) \/ ReadDone(p) \/ ReadReply(p) \/ ReadEnds(p)
             \/ MuxNone(p) \/ MuxOwn(p) \/ MuxOther(p) \/ Fill(p)
      PROVE  nintr' = nintr \/ nintr' = nintr + 1
  BY <2>2 DEF Awake, ReadDone, ReadReply, ReadEnds, MuxNone, MuxOwn, MuxOther, Fill, ghost,
     Interrupted
<2>3. ASSUME NEW p \in Proc, Wake(p) \/ mntgate(p) \/ GateWake(p) \/ Return(p) \/ WriteIntr(p)
             \/ FlushIntr(p) \/ SleepIntr(p) \/ ReadIntr(p)
      PROVE  nintr' = nintr \/ nintr' = nintr + 1
  BY <2>3 DEF Wake, mntgate, GateWake, Return, WriteIntr, FlushIntr, SleepIntr, ReadIntr,
     ghost, Interrupted
<2>4. ASSUME HangUp \/ UNCHANGED vars \/ \E m \in srv : Answer(m) \/ AnswerFlush(m) \/ IgnoreFlush(m)
      PROVE  nintr' = nintr \/ nintr' = nintr + 1
  BY <2>4 DEF HangUp, vars, Answer, AnswerFlush, IgnoreFlush, ghost, local
<2> QED
  BY <2>1, <2>2, <2>3, <2>4 DEF Next, Step, Interrupt
<1> QED
  BY <1>1, <1>2

\* What an interrupt may have met stays.
LEMMA MetFrame ==
  ASSUME Struct, [Next]_vars
  PROVE  (hungup \/ cut => hungup' \/ cut') /\ (Met => Met')
<1>1. hungup \/ cut => hungup' \/ cut'
  BY HungFrame, CutFrame
<1> QED
  BY <1>1, IntrFrame DEF Met

\* A flush that fails after an interrupt is one of the two.
LEMMA FlushFailsMet ==
  ASSUME Struct, NEW p \in Proc, FlushFails(p), nintr # 0
  PROVE  Met'
<1>1. nintr \in Nat /\ (nintr' = nintr \/ nintr' = nintr + 1)
  BY FlushFailsEnds, MountAssumption DEF FlushEnds, Interrupted, Struct, TypeOK
<1>2. hungup' \/ cut'
  BY FlushFailsEnds DEF FlushEnds, conn
<1> QED
  BY <1>1, <1>2 DEF Met

\* A process holds what it held, unless it starts or ends a call.
LEMMA RpcKept ==
  ASSUME Struct, [Next]_vars, NEW p \in Proc
  PROVE  \/ rpc'[p] = rpc[p] /\ call'[p] = call[p] /\ ~ Call(p) /\ ~ Return(p)
         \/ Call(p) /\ rpc'[p] = Head(rpcfree) /\ call'[p] = ncall + 1 /\ rpc[p] = nil
         \/ Return(p) /\ rpc'[p] = nil /\ call'[p] = 0 /\ done[rpc[p]] \in BOOLEAN
<1> USE DEF Struct, TypeOK, Held
<1>1. CASE Call(p)
  BY <1>1 DEF Call, At
<1>2. CASE Return(p)
<2>1. rpc[p] \in Rpc
  BY <1>2 DEF Return, At
<2> QED
  BY <1>2, <2>1 DEF Return
<1>3. CASE ~ Call(p) /\ ~ Return(p)
<2>1. ASSUME NEW q \in Proc, Call(q) \/ Return(q) PROVE rpc'[p] = rpc[p] /\ call'[p] = call[p]
  BY <1>3, <2>1 DEF Call, Return
<2> QED
  BY <1>3, <2>1, RpcFrame
<1> QED
  BY <1>1, <1>2, <1>3

\* Nobody else's Mntrpc is cleared when one is taken off the free list or put back.
LEMMA OthersRpc ==
  ASSUME Struct, NEW p \in Proc, NEW q \in Proc, p # q, rpc[q] # nil
  PROVE  /\ Call(p) => Head(rpcfree) # rpc[q] /\ Head(rpcfree) \in Rpc
         /\ rpc[p] # rpc[q] /\ rpc[q] \in Rpc
<1>1. rpc[p] # rpc[q] /\ rpc[q] \in Rpc
  BY DEF Struct, TypeOK, OneHolder
<1>2. ASSUME Call(p) PROVE Head(rpcfree) # rpc[q] /\ Head(rpcfree) \in Rpc
<2>1. rpcfree \in Seq(Rpc) /\ rpcfree # <<>>
  BY <1>2 DEF Struct, TypeOK, Call
<2>2. Has(rpcfree, Head(rpcfree)) /\ Head(rpcfree) \in Rpc
  BY <2>1, ListTail
<2> QED
  BY <2>2 DEF Struct, FreeList
<1> QED
  BY <1>1, <1>2

\* What the reader has read stays where it is until it is done with it.
LEMMA GotKept ==
  ASSUME Struct, [Next]_vars, NEW q \in Proc, pc[q] \in {"mux", "fill"},
         pc'[q] \in {"mux", "fill"}
  PROVE  Got(q)' = Got(q) /\ rpc'[q] = rpc[q]
<1>1. rpc'[q] = rpc[q]
  BY RpcKept DEF Struct, TypeOK, Call, Return, At
<1>2. rip = q /\ rpc[q] \in Rpc /\ reply \in [Rpc -> Message]
  BY DEF Struct, TypeOK, OneReader, ReadPlaces, Held
<1>3. reply'[rpc[q]] = reply[rpc[q]]
<2>1. ASSUME NEW p \in Proc, Call(p) PROVE reply'[rpc[q]] = reply[rpc[q]]
<3>1. p # q /\ rpc[q] # nil
  BY <2>1, <1>2, TagFacts DEF Call, At
<3> QED
  BY <1>2, <2>1, <3>1, OthersRpc DEF Call
<2>2. ASSUME NEW p \in Proc, Return(p) PROVE reply'[rpc[q]] = reply[rpc[q]]
<3>1. p # q /\ rpc[q] # nil
  BY <2>2, <1>2, TagFacts DEF Return, At
<3> QED
  BY <1>2, <2>2, <3>1, OthersRpc DEF Return
<2>3. ASSUME NEW p \in Proc, ReadReply(p) \/ Fill(p) PROVE FALSE
<3>1. rip = p
  BY <2>3 DEF ReadReply, Fill, At, Struct, OneReader, ReadPlaces
<3>2. pc[p] = "read" \/ pc'[p] = "wake"
  BY <2>3 DEF ReadReply, Fill, At, Struct, TypeOK
<3> QED
  BY <1>2, <3>1, <3>2
<2> QED
  BY <2>1, <2>2, <2>3, ReplyFrame
<1> QED
  BY <1>1, <1>3 DEF Got

\* How a process gets to the places that matter below.
Moved(r) ==
  \/ pc'[r] = pc[r]
  \/ pc[r] = "asleep" /\ pc'[r] = "awake"
  \/ pc'[r] = "write" /\ Call(r)
  \/ pc'[r] = "flush" /\ (WriteFails(r) \/ WriteIntr(r) \/ SleepIntr(r) \/ ReadIntr(r))
  \/ pc'[r] = "flushw" /\ FlushTagged(r)
  \/ pc'[r] = "mux" /\ ReadReply(r)
  \/ pc'[r] = "fill" /\ MuxOther(r)
  \/ pc'[r] = "wake" /\ Fill(r)
  \/ pc'[r] = "asleep" /\ Sleep(r)
  \/ pc'[r] \notin {"write", "flush", "flushw", "mux", "fill", "wake", "asleep"}
LEMMA PcStep ==
  ASSUME Struct, [Next]_vars, NEW r \in Proc
  PROVE  Moved(r)
<1>0. pc \in [Proc -> Place]
  BY DEF Struct, TypeOK
<1>1. ASSUME NEW p \in Proc, Call(p) PROVE Moved(r)
<2>1. IF r = p THEN pc'[r] = "write" ELSE pc'[r] = pc[r]
  BY <1>0, <1>1 DEF Call, At
<2> QED
  BY <1>1, <2>1 DEF Moved
<1>2. ASSUME NEW p \in Proc, WriteFails(p) PROVE Moved(r)
<2>1. IF r = p THEN pc'[r] = "flush" ELSE pc'[r] = pc[r]
  BY <1>0, <1>2 DEF WriteFails, At
<2> QED
  BY <1>2, <2>1 DEF Moved
<1>3. ASSUME NEW p \in Proc, WriteIntr(p) PROVE Moved(r)
<2>1. IF r = p THEN pc'[r] = "flush" ELSE pc'[r] = pc[r]
  BY <1>0, <1>3 DEF WriteIntr, At
<2> QED
  BY <1>3, <2>1 DEF Moved
<1>4. ASSUME NEW p \in Proc, SleepIntr(p) PROVE Moved(r)
<2>1. IF r = p THEN pc'[r] = "flush" ELSE pc'[r] = pc[r]
  BY <1>0, <1>4 DEF SleepIntr, At
<2> QED
  BY <1>4, <2>1 DEF Moved
<1>5. ASSUME NEW p \in Proc, ReadIntr(p) PROVE Moved(r)
<2>1. IF r = p THEN pc'[r] = "flush" ELSE pc'[r] = pc[r]
  BY <1>0, <1>5 DEF ReadIntr, At
<2> QED
  BY <1>5, <2>1 DEF Moved
<1>6. ASSUME NEW p \in Proc, FlushTagged(p) PROVE Moved(r)
<2>1. IF r = p THEN pc'[r] = "flushw" ELSE pc'[r] = pc[r]
  BY <1>0, <1>6 DEF FlushTagged, At
<2> QED
  BY <1>6, <2>1 DEF Moved
<1>7. ASSUME NEW p \in Proc, ReadReply(p) PROVE Moved(r)
<2>1. IF r = p THEN pc'[r] = "mux" ELSE pc'[r] = pc[r]
  BY <1>0, <1>7 DEF ReadReply, At
<2> QED
  BY <1>7, <2>1 DEF Moved
<1>8. ASSUME NEW p \in Proc, MuxOther(p) PROVE Moved(r)
<2>1. IF r = p THEN pc'[r] = "fill" ELSE pc'[r] = pc[r]
  BY <1>0, <1>8 DEF MuxOther, At
<2> QED
  BY <1>8, <2>1 DEF Moved
<1>9. ASSUME NEW p \in Proc, Fill(p) PROVE Moved(r)
<2>1. IF r = p THEN pc'[r] = "wake" ELSE pc'[r] = pc[r]
  BY <1>0, <1>9 DEF Fill, At
<2> QED
  BY <1>9, <2>1 DEF Moved
<1>10. ASSUME NEW p \in Proc, Sleep(p) PROVE Moved(r)
<2>1. IF r = p THEN pc'[r] \in {"asleep", "awake"} ELSE pc'[r] = pc[r]
  BY <1>0, <1>10 DEF Sleep, At
<2> QED
  BY <1>10, <2>1 DEF Moved
<1>11. ASSUME NEW p \in Proc, WriteDone(p) \/ FlushDone(p) \/ FlushIntr(p) \/ FlushFails(p)
             \/ Gate(p) \/ Awake(p) \/ ReadDone(p) \/ ReadEnds(p) \/ MuxNone(p) \/ MuxOwn(p)
             \/ mntgate(p) \/ Return(p) PROVE Moved(r)
<2>1. \/ pc'[r] = pc[r]
      \/ pc'[r] \notin {"write", "flush", "flushw", "mux", "fill", "wake", "asleep"}
  BY <1>0, <1>11 DEF WriteDone, At, FlushDone, Resume, FlushIntr, FlushFails, Gate, Awake,
     ReadDone, ReadEnds, MuxNone, MuxOwn, mntgate, Return
<2> QED
  BY <2>1 DEF Moved
<1>12. ASSUME NEW p \in Proc, Wake(p) \/ GateWake(p) PROVE Moved(r)
<2>1. \/ pc'[r] = pc[r]
      \/ pc[r] = "asleep" /\ pc'[r] = "awake"
      \/ pc'[r] \in {"read", "ret"}
  BY <1>0, <1>12 DEF Wake, GateWake, Wakeup, Asleep
<2> QED
  BY <2>1 DEF Moved
<1>13. ASSUME \/ UNCHANGED vars \/ HangUp
             \/ \E m \in srv : Answer(m) \/ AnswerFlush(m) \/ IgnoreFlush(m)
      PROVE  Moved(r)
<2>1. pc' = pc
  BY <1>13 DEF Answer, AnswerFlush, IgnoreFlush, HangUp, vars, local
<2> QED
  BY <2>1 DEF Moved
<1> QED
  BY <1>1, <1>2, <1>3, <1>4, <1>5, <1>6, <1>7, <1>8, <1>9, <1>10, <1>11, <1>12, <1>13 DEF
     Next, Step, Interrupt

-----------------------------------------------------------------------------
(* Messages.                                                               *)

\* A call has a request of its own, and one owner.
LEMMA OwnerFacts ==
  ASSUME Struct, NEW p \in Proc, NEW q \in Proc
  PROVE  /\ rpc[p] = rpc[q] /\ rpc[p] # nil => p = q
         /\ call[p] = call[q] /\ call[p] # 0 => p = q
         /\ rpc[p] # nil <=> call[p] # 0
         /\ rpc[p] # nil => rpc[p] \in Rpc /\ call[p] \in 1..ncall
<1>1. call[p] \in 0..MaxCall /\ MaxCall \in Nat /\ ncall \in 0..MaxCall /\ call[p] <= ncall
  BY MountAssumption DEF Struct, TypeOK, Numbered
<1> QED
  BY <1>1 DEF Struct, TypeOK, Held, OneHolder, Numbered

\* What is on the queue is an Mntrpc.
LEMMA HasRpc ==
  ASSUME Struct, NEW x, Has(queue, x)
  PROVE  x \in Rpc /\ x # nil
<1>1. queue \in Seq(Rpc)
  BY DEF Struct, TypeOK
<1> QED
  BY <1>1, TagFacts DEF Has

\* Every message that is on its way is accounted for.
LEMMA PendingGood ==
  ASSUME Messages, NEW m, Pending(m)
  PROVE  Good(m)
  BY DEF Messages, Pending, InStream, InMux

\* Where messages come from.
Written(m) ==
  /\ ~ hungup
  /\ \E p \in Proc : (WriteDone(p) \/ WriteIntr(p)) /\ m = Request(rpc[p], call[p])
FlushSent(m) ==
  /\ ~ hungup
  /\ \E p \in Proc : (FlushDone(p) \/ FlushIntr(p)) /\ m = Tflush(ftag[rpc[p]], rpc[p], call[p])
LEMMA PendingStep ==
  ASSUME Struct, [Next]_vars
  PROVE  /\ \A m \in srv' : m \in srv \/ Written(m) \/ FlushSent(m)
         /\ \A i \in 1..Len(stream') : InStream(stream'[i]) \/ stream'[i] \in srv
         /\ \A q \in Proc : Muxing(q)' => (Muxing(q) /\ Got(q)' = Got(q)) \/ InStream(Got(q)')
<1>0. stream \in Seq(Message) /\ srv \subseteq Message
  BY DEF Struct, TypeOK
<1>1. \A m \in srv' : m \in srv \/ Written(m) \/ FlushSent(m)
<2>1. ASSUME NEW p \in Proc, WriteDone(p) \/ WriteIntr(p)
      PROVE  srv' \subseteq srv \/ (~ hungup /\ srv' \subseteq srv \cup {Request(rpc[p], call[p])})
  BY <2>1 DEF WriteDone, WriteIntr, Sent
<2>2. ASSUME NEW p \in Proc, FlushDone(p) \/ FlushIntr(p)
      PROVE  \/ srv' \subseteq srv
             \/ ~ hungup /\ srv' \subseteq srv \cup {Tflush(ftag[rpc[p]], rpc[p], call[p])}
  BY <2>2 DEF FlushDone, FlushIntr, Sent
<2>3. ASSUME NEW p \in Proc, ReadReply(p) PROVE srv' = srv
  BY <2>3 DEF ReadReply
<2>4. ASSUME NEW m \in srv, Answer(m) \/ AnswerFlush(m) \/ IgnoreFlush(m) PROVE srv' \subseteq srv
  BY <2>4 DEF Answer, AnswerFlush, IgnoreFlush
<2>5. ASSUME HangUp PROVE srv' = {}
  BY <2>5 DEF HangUp
<2> QED
  BY <2>1, <2>2, <2>3, <2>4, <2>5, ConnFrame DEF Written, FlushSent
<1>2. \A i \in 1..Len(stream') : InStream(stream'[i]) \/ stream'[i] \in srv
<2>1. ASSUME NEW m \in srv, Answer(m) \/ AnswerFlush(m) \/ IgnoreFlush(m)
      PROVE  \A i \in 1..Len(stream') : InStream(stream'[i]) \/ stream'[i] \in srv
<3>1. (stream' = Append(stream, m) \/ stream' = stream) /\ m \in Message
  BY <1>0, <2>1 DEF Answer, AnswerFlush, IgnoreFlush
<3> QED
  BY <1>0, <3>1, ListAppend DEF InStream
<2>2. ASSUME NEW p \in Proc, ReadReply(p) PROVE \A i \in 1..Len(stream') : InStream(stream'[i])
<3>1. stream # <<>> /\ stream' = Tail(stream)
  BY <2>2 DEF ReadReply
<3> QED
  BY <1>0, <3>1, ListTail DEF InStream
<2>3. CASE stream' = stream
  BY <2>3 DEF InStream
<2>4. \/ \E m \in srv : Answer(m) \/ AnswerFlush(m) \/ IgnoreFlush(m)
      \/ \E p \in Proc : ReadReply(p)
      \/ stream' = stream
  BY ConnFrame DEF WriteDone, WriteIntr, FlushDone, FlushIntr, HangUp
<2> QED
  BY <2>1, <2>2, <2>3, <2>4
<1>3. ASSUME NEW q \in Proc, Muxing(q)'
      PROVE  (Muxing(q) /\ Got(q)' = Got(q)) \/ InStream(Got(q)')
<2>1. CASE Muxing(q)
  BY <1>3, <2>1, GotKept DEF Muxing
<2>2. CASE ~ Muxing(q)
<3>1. ReadReply(q)
  BY <1>3, <2>2, PcStep DEF Moved, Muxing
<3>2. rpc'[q] = rpc[q] /\ rpc[q] \in Rpc /\ stream # <<>>
  BY <3>1 DEF ReadReply, At, Struct, TypeOK, Held
<3>3. Got(q)' = Head(stream)
  BY <3>1, <3>2 DEF ReadReply, Got, Struct, TypeOK
<3>4. Len(stream) \in Nat \ {0} /\ Head(stream) = stream[1]
  BY <1>0, <3>2, ListTail
<3>5. 1 \in 1..Len(stream)
  BY <3>4
<3> QED
  BY <3>3, <3>4, <3>5 DEF InStream
<2> QED
  BY <2>1, <2>2
<1> QED
  BY <1>1, <1>2, <1>3

\* A request that has gone has gone.
LEMMA SureKept ==
  ASSUME Struct, [Next]_vars, NEW p \in Proc, Sure(p), ~ Call(p)
  PROVE  Sure(p)'
<1>1. nintr \in Nat /\ nintr' \in Nat /\ nintr' >= nintr
  BY IntrFrame
<1>2. pc'[p] # "write"
  BY PcStep DEF Moved, Sure
<1>3. ASSUME nintr' = 0, pc'[p] \in FlushPlaces PROVE pc[p] = "write" \/ pc[p] \in FlushPlaces
  BY <1>1, <1>3, PcStep DEF Moved, FlushPlaces, WriteFails, WriteIntr, SleepIntr, ReadIntr,
     Interrupted, FlushTagged, At
<1> QED
  BY <1>1, <1>2, <1>3 DEF Sure

\* The owner of an answer keeps waiting for it while its request is on the queue.
LEMMA PlainKept ==
  ASSUME Inv, [Next]_vars, NEW m, PlainOf(m), Has(queue', m.tag)
  PROVE  PlainOf(m)'
<1>1. PICK p \in Proc : rpc[p] = m.tag /\ call[p] = m.call /\ Sure(p) /\ Has(queue, m.tag)
  BY DEF PlainOf
<1>2. Struct /\ IInv
  BY DEF Inv
<1>3. rpc[p] \in Rpc /\ rpc[p] # nil /\ ~ done[rpc[p]]
  BY <1>1, <1>2, HasRpc DEF IInv, Linked
<1>4. ~ Return(p)
  BY <1>2, <1>3 DEF Return, At, IInv, Ended, EndPlaces
<1>5. rpc'[p] = rpc[p] /\ call'[p] = call[p] /\ ~ Call(p)
  BY <1>2, <1>3, <1>4, RpcKept
<1>6. Sure(p)'
  BY <1>1, <1>2, <1>5, SureKept
<1> QED
  BY <1>1, <1>5, <1>6 DEF PlainOf

\* A call keeps its Mntrpc, and the next call has another number.
LEMMA OfCallKept ==
  ASSUME Struct, [Next]_vars, NEW m, OfCall(m)
  PROVE  OfCall(m)'
<1>1. ncall \in Nat
  BY MountAssumption DEF Struct, TypeOK
<1>2. ncall' = ncall \/ ncall' = ncall + 1
  BY RpcFrame DEF Call, Return
<1>3. m.call \in 1..ncall' /\ m.call # 0 /\ m.call # ncall + 1
  BY <1>1, <1>2 DEF OfCall
<1>4. ASSUME NEW p \in Proc, call'[p] = m.call PROVE rpc'[p] = m.tag
  BY <1>3, <1>4, RpcKept DEF OfCall
<1> QED
  BY <1>3, <1>4 DEF OfCall

\* What is known of a flush stays true.
LEMMA FlushKept ==
  ASSUME Inv, [Next]_vars, NEW m, FlushOf(m),
         \A p \in Proc : FlushTagged(p) => m.tag # mflush
  PROVE  FlushOf(m)'
<1>1. Struct /\ IInv
  BY DEF Inv
<1>2. nintr' > 0
  BY <1>1, IntrFrame DEF FlushOf
<1>3. m.call \in 1..ncall' /\ m.call # 0 /\ m.call # ncall + 1
<2>1. ncall \in Nat
  BY <1>1, MountAssumption DEF Struct, TypeOK
<2>2. ncall' = ncall \/ ncall' = ncall + 1
  BY RpcFrame DEF Call, Return
<2> QED
  BY <2>1, <2>2 DEF FlushOf
<1>4. ASSUME NEW p \in Proc, rpc'[p] # nil, ~ Call(p)
      PROVE  /\ rpc[p] # nil /\ rpc[p] \in Rpc /\ rpc'[p] = rpc[p] /\ call'[p] = call[p]
             /\ failed[p] \/ flushed[rpc[p]] => failed'[p] \/ flushed'[rpc[p]]
             /\ flushed'[rpc[p]] => \/ FlushTagged(p) /\ ftag'[rpc[p]] = mflush
                                    \/ flushed[rpc[p]] /\ ftag'[rpc[p]] = ftag[rpc[p]]
<2>1. rpc[p] # nil /\ rpc[p] \in Rpc /\ rpc'[p] = rpc[p] /\ call'[p] = call[p] /\ ~ Return(p)
  BY <1>1, <1>4, RpcKept DEF Struct, TypeOK
<2>2. /\ flushed \in [Rpc -> BOOLEAN] /\ ftag \in [Rpc -> FlushTag \cup {0}]
      /\ failed \in [Proc -> BOOLEAN]
  BY <1>1 DEF Struct, TypeOK
<2>3. ASSUME NEW q \in Proc, Call(q) \/ Return(q)
      PROVE  flushed'[rpc[p]] = flushed[rpc[p]] /\ ftag'[rpc[p]] = ftag[rpc[p]]
<3>1. p # q
  BY <1>4, <2>1, <2>3
<3>2. rpc[q] # rpc[p] /\ (Call(q) => Head(rpcfree) # rpc[p])
  BY <1>1, <2>1, <3>1, OthersRpc
<3> QED
  BY <2>1, <2>2, <2>3, <3>2 DEF Call, Return
<2>4. ASSUME NEW q \in Proc, FlushTagged(q), q # p
      PROVE  flushed'[rpc[p]] = flushed[rpc[p]] /\ ftag'[rpc[p]] = ftag[rpc[p]]
<3>1. rpc[q] # rpc[p]
  BY <1>1, <2>1, <2>4, OthersRpc
<3> QED
  BY <2>1, <2>2, <2>4, <3>1 DEF FlushTagged
<2>5. ASSUME FlushTagged(p) PROVE flushed'[rpc[p]] /\ ftag'[rpc[p]] = mflush
  BY <2>1, <2>2, <2>5 DEF FlushTagged
<2>6. ASSUME NEW q \in Proc, FlushFails(q) \/ ReadEnds(q)
      PROVE  /\ ftag' = ftag
             /\ flushed'[rpc[p]] => flushed[rpc[p]]
             /\ failed[p] \/ flushed[rpc[p]] => failed'[p] \/ flushed'[rpc[p]]
<3>1. /\ ftag' = ftag /\ flushed' = [flushed EXCEPT ![rpc[q]] = FALSE]
      /\ failed' = [failed EXCEPT ![q] = TRUE]
  BY <2>6, FlushFailsEnds DEF FlushEnds, ReadEnds, mntqrm
<3>2. q # p => rpc[q] # rpc[p]
  BY <1>1, <2>1, OthersRpc
<3> QED
  BY <2>1, <2>2, <3>1, <3>2
<2>7. CASE \E q \in Proc : FlushFails(q) \/ ReadEnds(q)
  BY <2>1, <2>6, <2>7
<2>8. CASE ~ \E q \in Proc : FlushFails(q) \/ ReadEnds(q)
<3>1. flushed[rpc[p]] => flushed'[rpc[p]]
  BY <2>3, <2>4, <2>5, <2>8, FlushFrame
<3>2. flushed'[rpc[p]] => \/ FlushTagged(p) /\ ftag'[rpc[p]] = mflush
                          \/ flushed[rpc[p]] /\ ftag'[rpc[p]] = ftag[rpc[p]]
  BY <2>3, <2>4, <2>5, <2>8, FlushFrame
<3>3. failed'[p] = failed[p]
<4>1. ASSUME NEW q \in Proc, Return(q) PROVE failed'[p] = failed[p]
  BY <2>1, <2>2, <4>1 DEF Return
<4> QED
  BY <2>8, <4>1, FailedFrame
<3> QED
  BY <2>1, <3>1, <3>2, <3>3
<2> QED
  BY <2>7, <2>8
<1>5. ASSUME NEW p \in Proc, call'[p] = m.call
      PROVE  rpc'[p] = m.old /\ pc'[p] # "write" /\ (failed'[p] \/ flushed'[rpc'[p]])
<2>1. ~ Call(p) /\ ~ Return(p) /\ rpc'[p] = rpc[p] /\ call'[p] = call[p]
  BY <1>1, <1>3, <1>5, RpcKept
<2>2. rpc[p] = m.old /\ pc[p] # "write" /\ (failed[p] \/ flushed[rpc[p]]) /\ rpc[p] # nil
  BY <1>1, <1>3, <1>5, <2>1, OwnerFacts DEF FlushOf
<2>3. pc'[p] # "write"
  BY <1>1, <2>1, <2>2, PcStep DEF Moved
<2> QED
  BY <1>4, <2>1, <2>2, <2>3
<1>6. ASSUME NEW p \in Proc, rpc'[p] # nil, flushed'[rpc'[p]], ftag'[rpc'[p]] = m.tag
      PROVE  m.call = call'[p]
<2>1. ~ Call(p)
<3> SUFFICES ASSUME Call(p) PROVE FALSE
  OBVIOUS
<3>1. Head(rpcfree) \in Rpc /\ rpc'[p] = Head(rpcfree)
  BY <1>1, ListTail DEF Call, Struct, TypeOK
<3> QED
  BY <1>1, <1>6, <3>1 DEF Call, Struct, TypeOK
<2> QED
  BY <1>4, <1>6, <2>1 DEF FlushOf
<1> QED
  BY <1>2, <1>3, <1>5, <1>6 DEF FlushOf

\* mountmux: whom a reply fits, it is for; and no other answer to it is on its way.
LEMMA MuxRight ==
  ASSUME Inv, NEW q \in Proc, Muxing(q), NEW x, Has(queue, x), Fits(x, Got(q).tag)
  PROVE  /\ \E p \in Proc : rpc[p] = x /\ call[p] = Got(q).call /\ Sure(p)
         /\ \A m \in srv : Plain(m) => m.tag # x
         /\ \A i \in 1..Len(stream) : Plain(stream[i]) => stream[i].tag # x
<1> DEFINE g == Got(q)
<1>1. Struct /\ Messages /\ Once /\ Order /\ Linked
  BY DEF Inv, IInv
<1>2. x \in Rpc /\ x # nil
  BY <1>1, HasRpc
<1>3. Good(g)
  BY <1>1 DEF Messages
<1>4. PICK p \in Proc : rpc[p] = x
  BY <1>1, <1>2 DEF Linked
<1>5. flushed[x] \in BOOLEAN /\ ftag[x] \in FlushTag \cup {0}
  BY <1>1, <1>2 DEF Struct, TypeOK
<1>6. CASE Plain(g)
<2>1. PlainOf(g) \/ Orphan(g)
  BY <1>3, <1>6 DEF Good
<2>2. g.tag \in Rpc
  BY <1>1, <2>1, HasRpc DEF PlainOf, Orphan
<2>3. x = g.tag
  BY <1>5, <2>2, TagFacts DEF Fits
<2>4. PICK r \in Proc : rpc[r] = g.tag /\ call[r] = g.call /\ Sure(r) /\ Has(queue, g.tag)
  BY <2>1, <2>3 DEF Orphan, PlainOf
<2> QED
  BY <1>1, <1>6, <2>4, <2>3 DEF Once, Apart
<1>7. CASE ~ Plain(g)
<2>1. FlushOf(g)
  BY <1>3, <1>7 DEF Good
<2>2. flushed[x] /\ ftag[x] = g.tag
  BY <1>2, <2>1, TagFacts DEF Fits, FlushOf
<2>3. g.call = call[p] /\ pc[p] # "write" /\ nintr # 0
  BY <1>2, <1>4, <2>1, <2>2 DEF FlushOf
<2>4. ASSUME NEW m, m.tag = x, Plain(m), PlainOf(m) \/ Orphan(m) PROVE m.call = g.call
<3>1. PICK r \in Proc : rpc[r] = m.tag /\ call[r] = m.call
  BY <2>4 DEF PlainOf, Orphan
<3>2. r = p
  BY <1>1, <1>2, <1>4, <2>4, <3>1, OwnerFacts
<3> QED
  BY <2>3, <3>1, <3>2
<2>5. \A m \in srv : Plain(m) => m.tag # x
  BY <1>1, <1>7, <2>4 DEF Messages, Good, Order, NotOf
<2>6. \A i \in 1..Len(stream) : Plain(stream[i]) => stream[i].tag # x
  BY <1>1, <1>7, <2>4 DEF Messages, Good, Order, NotOf
<2> QED
  BY <1>4, <2>3, <2>5, <2>6 DEF Sure
<1> QED
  BY <1>6, <1>7

-----------------------------------------------------------------------------
(* Each part of the invariant is kept: faults, calls, the queue.           *)

\* Nothing is sent on a connection that has ended; who flushes has been interrupted.
LEMMA FaultsStep == Inv /\ Assumed /\ [Next]_vars => Faults'
<1> SUFFICES ASSUME Inv, Assumed, [Next]_vars PROVE Faults'
  OBVIOUS
<1> USE DEF Faults, FlushPlaces
<1>0. /\ pc \in [Proc -> Place] /\ nintr \in Nat /\ nil \notin Proc /\ Faults
      /\ \A p \in Proc : rip = p => pc[p] \in ReadPlaces \cup FlushPlaces
  BY MountAssumption DEF Inv, IInv, Struct, TypeOK, OneReader
<1>a. \A x \in ReadPlaces : x \notin {"write", "gate", "flush", "flushw"}
  BY DEF ReadPlaces
<1>1. ASSUME NEW p \in Proc, WriteDone(p) \/ FlushDone(p) PROVE Faults'
  BY <1>1, <1>0, <1>a DEF WriteDone, At, Sent, ghost, history, mnt, mntrpc, FlushDone, Resume
<1>2. ASSUME NEW p \in Proc, WriteIntr(p) \/ FlushIntr(p) \/ SleepIntr(p) \/ ReadIntr(p)
             PROVE Faults'
  BY <1>2, <1>0, <1>a DEF WriteIntr, At, Interrupted, Sent, mnt, mntrpc, FlushIntr, Resume,
     SleepIntr, conn, ReadIntr
<1>3. ASSUME NEW p \in Proc, Call(p) \/ WriteFails(p) \/ FlushTagged(p)
             \/ Sleep(p) \/ Awake(p) \/ ReadDone(p) \/ ReadReply(p) \/ ReadEnds(p)
             \/ MuxNone(p) \/ MuxOwn(p) \/ MuxOther(p) \/ Fill(p) \/ Return(p) PROVE Faults'
  BY <1>3, <1>0, <1>a DEF Call, At, conn, WriteFails, ghost, mnt, FlushTagged,
     Sleep, Awake, ReadDone, ReadReply, ReadEnds, MuxNone, MuxOwn, MuxOther, Fill,
     Return
<1>b. ASSUME NEW p \in Proc, FlushFails(p) PROVE Faults'
<2>1. /\ At(p, "flushw", IF rip = p THEN "mntgate" ELSE "ret")
      /\ hungup' = hungup /\ srv' = srv /\ rip' = rip
      /\ nintr' = nintr \/ nintr' = nintr + 1
  BY <1>b, FlushFailsEnds DEF FlushEnds, Interrupted, conn
<2>2. nintr' = 0 => nintr = 0
  BY <1>0, <2>1
<2> QED
  BY <1>0, <2>1, <2>2 DEF At
<1>4. ASSUME NEW p \in Proc, Gate(p) \/ mntgate(p) PROVE Faults'
  BY <1>4, <1>0, <1>a DEF Gate, At, ghost, history, mntrpc, conn, mntgate
<1>5. ASSUME NEW p \in Proc, Wake(p) \/ GateWake(p) PROVE Faults'
  BY <1>5, <1>0, <1>a DEF Wake, Wakeup, Asleep, ghost, history, mnt, mntrpc, conn, GateWake
<1>6. ASSUME NEW m \in srv, Answer(m) \/ AnswerFlush(m) \/ IgnoreFlush(m) PROVE Faults'
  BY <1>6, <1>0, <1>a DEF Answer, ghost, history, mnt, mntrpc, local, AnswerFlush, IgnoreFlush
<1>7. ASSUME HangUp PROVE Faults'
  BY <1>7, <1>0, <1>a DEF HangUp, ghost, history, mnt, mntrpc, local
<1>8. CASE UNCHANGED vars
  BY <1>8, <1>0 DEF vars, local, ghost, history, mnt, mntrpc, conn
<1> QED
  BY <1>1, <1>2, <1>3, <1>b, <1>4, <1>5, <1>6, <1>7, <1>8 DEF Next, Step, Interrupt

\* done, flushed and failed mean at each place what they should.
LEMMA EndedStep == Inv /\ Assumed /\ [Next]_vars => Ended'
<1> SUFFICES ASSUME Inv, Assumed, [Next]_vars, NEW r \in Proc
             PROVE  /\ failed'[r] => pc'[r] \in EndPlaces
                    /\ pc'[r] \in EndPlaces => done'[rpc'[r]]
                    /\ pc'[r] = "write" => ~ done'[rpc'[r]] /\ ~ flushed'[rpc'[r]]
                    /\ pc'[r] = "flushw" => flushed'[rpc'[r]] /\ ftag'[rpc'[r]] \in FlushTag
  BY DEF Ended
<1> DEFINE G == /\ failed'[r] => pc'[r] \in EndPlaces
                /\ pc'[r] \in EndPlaces => done'[rpc'[r]]
                /\ pc'[r] = "write" => ~ done'[rpc'[r]] /\ ~ flushed'[rpc'[r]]
                /\ pc'[r] = "flushw" => flushed'[rpc'[r]] /\ ftag'[rpc'[r]] \in FlushTag
<1>0. Struct /\ Ended /\ Filling
  BY DEF Inv, IInv
<1>t. /\ pc \in [Proc -> Place] /\ rpc \in [Proc -> Rpc \cup {nil}] /\ failed \in [Proc -> BOOLEAN]
      /\ done \in [Rpc -> BOOLEAN] /\ flushed \in [Rpc -> BOOLEAN] /\ mflush \in FlushTag
      /\ ftag \in [Rpc -> FlushTag \cup {0}] /\ hand \in [Proc -> Rpc \cup {nil}] /\ nil \notin Rpc
  BY <1>0, TagFacts DEF Struct, TypeOK
<1>h. \A p \in Proc : pc[p] # "out" => rpc[p] \in Rpc
  BY <1>0, <1>t DEF Struct, Held
<1>e. /\ failed[r] => pc[r] \in EndPlaces
      /\ pc[r] \in EndPlaces => done[rpc[r]]
      /\ pc[r] = "write" => ~ done[rpc[r]] /\ ~ flushed[rpc[r]]
      /\ pc[r] = "flushw" => flushed[rpc[r]] /\ ftag[rpc[r]] \in FlushTag
  BY <1>0 DEF Ended
<1>o. \A p \in Proc : p # r /\ rpc[r] # nil => rpc[p] # rpc[r]
  BY <1>0 DEF Struct, OneHolder
<1> USE DEF EndPlaces
<1>1. ASSUME NEW p \in Proc, Call(p) PROVE G
<2>1. Head(rpcfree) \in Rpc /\ (p # r /\ rpc[r] # nil => Head(rpcfree) # rpc[r])
  BY <1>0, <1>1, OthersRpc, ListTail DEF Call, Struct, TypeOK
<2>2. CASE p = r
  BY <1>1, <1>t, <1>e, <2>1, <2>2 DEF Call, At
<2>3. CASE p # r
  BY <1>1, <1>t, <1>h, <1>e, <2>1, <2>3 DEF Call, At
<2> QED
  BY <2>2, <2>3
<1>2. ASSUME NEW p \in Proc, Return(p) PROVE G
<2>1. CASE p = r
  BY <1>2, <1>t, <1>e, <2>1 DEF Return, At
<2>2. CASE p # r
  BY <1>2, <1>t, <1>h, <1>e, <1>o, <2>2 DEF Return, At
<2> QED
  BY <2>1, <2>2
<1>3. ASSUME NEW p \in Proc, FlushTagged(p) PROVE G
  BY <1>3, <1>t, <1>h, <1>e, <1>o DEF FlushTagged, At
<1>4. ASSUME NEW p \in Proc, FlushFails(p) \/ ReadEnds(p) PROVE G
<2>1. rpc[p] \in Rpc /\ (pc'[p] \in {"mntgate", "ret"})
  BY <1>4, <1>t, <1>h DEF FlushFails, ReadEnds, At
<2>2. CASE p = r
  BY <1>4, <1>t, <2>1, <2>2 DEF FlushFails, ReadEnds, mntqrm
<2>3. CASE p # r
<3>1. /\ rpc'[r] = rpc[r] /\ pc'[r] = pc[r] /\ failed'[r] = failed[r] /\ ftag' = ftag
      /\ done' = [done EXCEPT ![rpc[p]] = TRUE] /\ flushed' = [flushed EXCEPT ![rpc[p]] = FALSE]
  BY <1>4, <1>t, <2>3, FlushFailsEnds DEF FlushEnds, ReadEnds, mntqrm, At
<3>2. rpc[r] \in Rpc => done'[rpc[r]] = done[rpc[r]] /\ flushed'[rpc[r]] = flushed[rpc[r]]
  BY <1>t, <1>o, <2>3, <3>1
<3>3. pc[r] # "out" => rpc[r] \in Rpc
  BY <1>h
<3> QED
  BY <1>e, <3>1, <3>2, <3>3
<2> QED
  BY <2>2, <2>3
<1>5. ASSUME NEW p \in Proc, MuxOwn(p) PROVE G
  BY <1>5, <1>t, <1>h, <1>e, <1>o DEF MuxOwn, At
<1>6. ASSUME NEW p \in Proc, Fill(p) PROVE G
<2>1. pc[p] = "fill" /\ hand[p] \in Rpc
  BY <1>0, <1>6, <1>t DEF Fill, At, Struct, Held, HandPlaces
<2>2. Waits(p) \/ GivenUp(p)
  BY <1>0, <2>1 DEF Filling
<2>4. ASSUME Waits(p) PROVE pc[r] = "write" => rpc[r] # hand[p]
<3>1. PICK s \in Proc : rpc[s] = hand[p] /\ Sure(s)
  BY <2>4 DEF Waits
<3> QED
  BY <1>h, <1>o, <3>1, <1>t DEF Sure
<2>5. ASSUME GivenUp(p) PROVE pc[r] = "write" => rpc[r] # hand[p]
<3>1. ~ Has(queue, hand[p])
  BY <1>6, AssumedFacts
<3>2. rpc[r] = hand[p] => failed[r]
  BY <2>5, <3>1 DEF GivenUp
<3> QED
  BY <1>e, <3>2
<2>3. pc[r] = "write" => rpc[r] # hand[p]
  BY <2>2, <2>4, <2>5
<2> QED
  BY <1>6, <1>t, <1>h, <1>e, <2>1, <2>3 DEF Fill, At
<1>7. ASSUME NEW p \in Proc, Wake(p) \/ GateWake(p) PROVE G
  BY <1>7, <1>t, <1>h, <1>e DEF Wake, GateWake, Wakeup, Asleep, mntrpc
<1>8. ASSUME NEW p \in Proc, WriteDone(p) \/ WriteIntr(p) \/ WriteFails(p) \/ FlushDone(p)
             \/ FlushIntr(p) \/ Gate(p) \/ Sleep(p) \/ SleepIntr(p) \/ Awake(p)
             \/ ReadDone(p) \/ ReadReply(p) \/ ReadIntr(p) \/ MuxNone(p) \/ MuxOther(p)
             \/ mntgate(p) PROVE G
  BY <1>8, <1>t, <1>h, <1>e DEF WriteDone, At, ghost, history, mnt, mntrpc, WriteIntr, WriteFails,
     conn, FlushDone, Resume, FlushIntr, Gate, Sleep, SleepIntr, Awake, ReadDone, ReadReply,
     ReadIntr, MuxNone, MuxOther, mntgate
<1>9. ASSUME \/ UNCHANGED vars \/ HangUp
             \/ \E m \in srv : Answer(m) \/ AnswerFlush(m) \/ IgnoreFlush(m)
      PROVE  G
  BY <1>9, <1>e DEF Answer, AnswerFlush, IgnoreFlush, HangUp, vars, local, mntrpc
<1> QED
  BY <1>1, <1>2, <1>3, <1>4, <1>5, <1>6, <1>7, <1>8, <1>9 DEF Next, Step, Interrupt

\* Unlinking one request leaves the others linked.
LEMMA LinkedKept ==
  ASSUME Inv, [Next]_vars, NEW p \in Proc, rpc' = rpc, rpc[p] \in Rpc,
         queue' = Unlinked(queue, rpc[p]), done' = [done EXCEPT ![rpc[p]] = TRUE],
         \A q \in Proc : pc[q] = "fill" => pc'[q] = "fill" /\ hand'[q] = hand[q]
  PROVE  Linked'
<1>0. Struct /\ Linked
  BY DEF Inv, IInv
<1>1. queue \in Seq(Rpc) /\ done \in [Rpc -> BOOLEAN] /\ nil \notin Rpc
  BY <1>0, TagFacts DEF Struct, TypeOK
<1>2. NoDup(queue') /\ \A x : Has(queue', x) <=> Has(queue, x) /\ x # rpc[p]
  BY <1>0, <1>1, ListRemove DEF Linked
<1>3. \A x \in Rpc : Has(queue', x) => ~ done'[x] /\ \E q \in Proc : rpc'[q] = x
  BY <1>0, <1>1, <1>2 DEF Linked
<1>4. ASSUME NEW r \in Proc, rpc'[r] # nil, ~ done'[rpc'[r]]
      PROVE  Has(queue', rpc'[r]) \/ \E q \in Proc : pc'[q] = "fill" /\ hand'[q] = rpc'[r]
<2>1. rpc[r] \in Rpc /\ rpc[r] # rpc[p] /\ ~ done[rpc[r]]
  BY <1>0, <1>1, <1>4 DEF Struct, TypeOK
<2> QED
  BY <1>0, <1>1, <1>2, <2>1 DEF Linked
<1> QED
  BY <1>2, <1>3, <1>4 DEF Linked

\* The queue holds what is not answered, and once.
LEMMA LinkedStep == Inv /\ Assumed /\ [Next]_vars => Linked'
<1> SUFFICES ASSUME Inv, Assumed, [Next]_vars PROVE Linked'
  OBVIOUS
<1>0. Struct /\ Linked /\ Filling /\ Ended
  BY DEF Inv, IInv
<1>t. /\ pc \in [Proc -> Place] /\ rpc \in [Proc -> Rpc \cup {nil}] /\ done \in [Rpc -> BOOLEAN]
      /\ hand \in [Proc -> Rpc \cup {nil}] /\ queue \in Seq(Rpc) /\ nil \notin Rpc
  BY <1>0, TagFacts DEF Struct, TypeOK
<1>h. \A p \in Proc : pc[p] # "out" => rpc[p] \in Rpc
  BY <1>0, <1>t DEF Struct, Held
<1>1. ASSUME NEW p \in Proc, Call(p) PROVE Linked'
<2> DEFINE x == Head(rpcfree)
<2>1. x \in Rpc /\ Has(rpcfree, x)
  BY <1>0, <1>1, ListTail DEF Call, Struct, TypeOK
<2>2. /\ queue' = <<x>> \o queue /\ rpc' = [rpc EXCEPT ![p] = x] /\ done' = [done EXCEPT ![x] = FALSE]
      /\ hand' = hand /\ pc' = [pc EXCEPT ![p] = "write"] /\ pc[p] = "out"
  BY <1>1 DEF Call, At
<2> HIDE DEF x
<2>3. \A q \in Proc : rpc[q] # x
  BY <1>0, <2>1 DEF Struct, FreeList
<2>4. ~ Has(queue, x)
  BY <1>0, <2>1, <2>3 DEF Linked
<2>5. NoDup(queue') /\ \A y : Has(queue', y) <=> Has(queue, y) \/ y = x
  BY <1>0, <1>t, <2>1, <2>2, <2>4, ListPush DEF Linked
<2>6. rpc'[p] = x /\ \A q \in Proc : q # p => rpc'[q] = rpc[q]
  BY <1>t, <2>2
<2>7. rpc[p] = nil
  BY <1>0, <2>2 DEF Struct, Held
<2>8. \A y \in Rpc : Has(queue', y) => ~ done'[y] /\ \E q \in Proc : rpc'[q] = y
  BY <1>0, <1>t, <2>1, <2>2, <2>5, <2>6, <2>7 DEF Linked
<2>9. ASSUME NEW r \in Proc, rpc'[r] # nil, ~ done'[rpc'[r]]
      PROVE  Has(queue', rpc'[r]) \/ \E q \in Proc : pc'[q] = "fill" /\ hand'[q] = rpc'[r]
<3>1. CASE r = p
  BY <2>5, <2>6, <3>1
<3>2. CASE r # p
<4>1. rpc'[r] = rpc[r] /\ rpc[r] \in Rpc /\ ~ done[rpc[r]]
  BY <1>t, <2>1, <2>2, <2>3, <2>6, <2>9, <3>2
<4>2. Has(queue, rpc[r]) \/ \E q \in Proc : pc[q] = "fill" /\ hand[q] = rpc[r]
  BY <1>0, <2>9, <4>1 DEF Linked
<4> QED
  BY <1>t, <2>2, <2>5, <4>1, <4>2
<3> QED
  BY <3>1, <3>2
<2> QED
  BY <2>5, <2>8, <2>9 DEF Linked
<1>2. ASSUME NEW p \in Proc, Return(p) PROVE Linked'
<2>1. rpc[p] \in Rpc /\ done[rpc[p]]
  BY <1>0, <1>2, <1>h DEF Return, At, Ended, EndPlaces
<2>2. /\ queue' = queue /\ rpc' = [rpc EXCEPT ![p] = nil] /\ done' = [done EXCEPT ![rpc[p]] = FALSE]
      /\ hand' = hand /\ pc' = [pc EXCEPT ![p] = "out"] /\ pc[p] = "ret"
  BY <1>2 DEF Return, At, mnt
<2>3. ~ Has(queue, rpc[p])
  BY <1>0, <2>1 DEF Linked
<2>4. \A x \in Rpc : Has(queue', x) => ~ done'[x] /\ \E q \in Proc : rpc'[q] = x
  BY <1>0, <1>t, <2>1, <2>2, <2>3 DEF Linked
<2>5. ASSUME NEW r \in Proc, rpc'[r] # nil, ~ done'[rpc'[r]]
      PROVE  Has(queue', rpc'[r]) \/ \E q \in Proc : pc'[q] = "fill" /\ hand'[q] = rpc'[r]
<3>1. r # p /\ rpc'[r] = rpc[r] /\ rpc[r] # rpc[p]
  BY <1>0, <1>t, <2>1, <2>2, <2>5 DEF Struct, OneHolder
<3>2. ~ done[rpc[r]]
  BY <1>t, <2>1, <2>2, <2>5, <3>1
<3>3. Has(queue, rpc[r]) \/ \E q \in Proc : pc[q] = "fill" /\ hand[q] = rpc[r]
  BY <1>0, <2>5, <3>1, <3>2 DEF Linked
<3> QED
  BY <1>t, <2>2, <3>1, <3>3
<2> QED
  BY <1>0, <2>2, <2>4, <2>5 DEF Linked, NoDup
<1>3. ASSUME NEW p \in Proc, FlushFails(p) \/ ReadEnds(p) \/ MuxOwn(p) PROVE Linked'
<2>1. rpc[p] \in Rpc /\ pc[p] # "fill"
  BY <1>3, <1>h DEF FlushFails, ReadEnds, MuxOwn, At
<2>2. /\ rpc' = rpc /\ queue' = Unlinked(queue, rpc[p]) /\ done' = [done EXCEPT ![rpc[p]] = TRUE]
      /\ hand' = hand /\ \A q \in Proc : q # p => pc'[q] = pc[q]
  BY <1>3, <1>t DEF FlushFails, ReadEnds, MuxOwn, At, mntqrm
<2> QED
  BY <2>1, <2>2, LinkedKept
<1>4. ASSUME NEW p \in Proc, MuxOther(p) PROVE Linked'
<2>1. PICK i \in 1..Len(queue) :
        queue' = Unlinked(queue, queue[i]) /\ hand' = [hand EXCEPT ![p] = queue[i]]
  BY <1>4 DEF MuxOther
<2> DEFINE x == queue[i]
<2>2. x \in Rpc
  BY <1>t
<2>3. rpc' = rpc /\ done' = done /\ pc[p] = "mux" /\ pc' = [pc EXCEPT ![p] = "fill"]
  BY <1>4 DEF MuxOther, At, mntrpc
<2>4. NoDup(queue') /\ \A y : Has(queue', y) <=> Has(queue, y) /\ y # x
  BY <1>0, <1>t, <2>1, ListRemove DEF Linked
<2>5. pc'[p] = "fill" /\ hand'[p] = x
  BY <1>t, <2>1, <2>3
<2>6. \A q \in Proc : pc[q] = "fill" => pc'[q] = "fill" /\ hand'[q] = hand[q]
  BY <1>t, <2>1, <2>3
<2> HIDE DEF x
<2>7. ASSUME NEW r \in Proc, rpc'[r] # nil, ~ done'[rpc'[r]]
      PROVE  Has(queue', rpc'[r]) \/ \E q \in Proc : pc'[q] = "fill" /\ hand'[q] = rpc'[r]
<3>1. Has(queue, rpc[r]) \/ \E q \in Proc : pc[q] = "fill" /\ hand[q] = rpc[r]
  BY <1>0, <2>3, <2>7 DEF Linked
<3> QED
  BY <2>3, <2>4, <2>5, <2>6, <3>1
<2> QED
  BY <1>0, <2>3, <2>4, <2>7 DEF Linked
<1>5. ASSUME NEW p \in Proc, Fill(p) PROVE Linked'
<2>1. pc[p] = "fill" /\ hand[p] \in Rpc
  BY <1>0, <1>5, <1>t DEF Fill, At, Struct, Held, HandPlaces
<2>2. /\ queue' = queue /\ rpc' = rpc /\ done' = [done EXCEPT ![hand[p]] = TRUE]
      /\ hand' = hand /\ \A q \in Proc : q # p => pc'[q] = pc[q]
  BY <1>5, <1>t DEF Fill, At, mnt
<2>3. ~ Has(queue, hand[p])
  BY <1>5, AssumedFacts
<2>4. \A x \in Rpc : Has(queue', x) => ~ done'[x] /\ \E q \in Proc : rpc'[q] = x
  BY <1>0, <1>t, <2>1, <2>2, <2>3 DEF Linked
<2>5. ASSUME NEW r \in Proc, rpc'[r] # nil, ~ done'[rpc'[r]]
      PROVE  Has(queue', rpc'[r]) \/ \E q \in Proc : pc'[q] = "fill" /\ hand'[q] = rpc'[r]
<3>1. rpc[r] \in Rpc /\ rpc[r] # hand[p] /\ ~ done[rpc[r]]
  BY <1>t, <2>1, <2>2, <2>5
<3>2. Has(queue, rpc[r]) \/ \E q \in Proc : pc[q] = "fill" /\ hand[q] = rpc[r]
  BY <1>0, <2>2, <2>5, <3>1 DEF Linked
<3> QED
  BY <2>2, <3>1, <3>2
<2> QED
  BY <1>0, <2>2, <2>4, <2>5 DEF Linked, NoDup
<1>6. ASSUME NEW p \in Proc, WriteDone(p) \/ WriteIntr(p) \/ WriteFails(p) \/ FlushTagged(p)
             \/ FlushDone(p) \/ FlushIntr(p) \/ Gate(p) \/ Sleep(p) \/ SleepIntr(p)
             \/ Awake(p) \/ ReadDone(p) \/ ReadReply(p) \/ ReadIntr(p) \/ MuxNone(p)
             \/ Wake(p) \/ mntgate(p) \/ GateWake(p) PROVE Linked'
<2>1. queue' = queue /\ rpc' = rpc /\ done' = done
  BY <1>6 DEF WriteDone, mnt, mntrpc, WriteIntr, WriteFails, FlushTagged, FlushDone,
     FlushIntr, Gate, Sleep, SleepIntr, Awake, ReadDone, ReadReply, ReadIntr, MuxNone, Wake,
     mntgate, GateWake
<2>2. \A q \in Proc : pc[q] = "fill" => pc'[q] = "fill" /\ hand'[q] = hand[q]
  BY <1>6, <1>t DEF WriteDone, At, WriteIntr, WriteFails, FlushTagged, FlushDone, Resume,
     FlushIntr, Gate, Sleep, SleepIntr, Awake, ReadDone, ReadReply, ReadIntr, MuxNone, Wake,
     Wakeup, Asleep, mntgate, GateWake
<2> QED
  BY <1>0, <2>1, <2>2 DEF Linked, NoDup, Has
<1>7. ASSUME \/ UNCHANGED vars \/ HangUp
             \/ \E m \in srv : Answer(m) \/ AnswerFlush(m) \/ IgnoreFlush(m)
      PROVE  Linked'
<2>1. queue' = queue /\ rpc' = rpc /\ done' = done /\ pc' = pc /\ hand' = hand
  BY <1>7 DEF Answer, AnswerFlush, IgnoreFlush, HangUp, vars, local, mntrpc, mnt
<2> QED
  BY <1>0, <2>1 DEF Linked, NoDup, Has
<1> QED
  BY <1>1, <1>2, <1>3, <1>4, <1>5, <1>6, <1>7 DEF Next, Step, Interrupt

\* What the reader has in hand stays there until it is filled in.
LEMMA HandFill ==
  ASSUME Struct, [Next]_vars, NEW q \in Proc, pc[q] = "fill", pc'[q] = "fill"
  PROVE  hand'[q] = hand[q]
<1>1. pc \in [Proc -> Place] /\ hand \in [Proc -> Rpc \cup {nil}]
  BY DEF Struct, TypeOK
<1> QED
  BY <1>1, ZenonT(40) DEF Next, Step, Interrupt, Call, At, WriteDone, WriteIntr, WriteFails,
     FlushTagged, FlushDone, Resume, FlushIntr, FlushFails, Gate, Sleep, SleepIntr, Awake,
     ReadDone, ReadReply, ReadIntr, ReadEnds, MuxNone, MuxOwn, MuxOther, Fill, Wake, mntgate,
     GateWake, Return, Answer, local, AnswerFlush, IgnoreFlush, HangUp, vars

\* While the reader fills in another's call, nobody else reads, muxes or fills in.
LEMMA OnlyFiller ==
  ASSUME Struct, NEW q \in Proc, pc[q] = "fill", pc'[q] = "fill", NEW r \in Proc
  PROVE  ~ ReadEnds(r) /\ ~ MuxOwn(r) /\ ~ MuxOther(r) /\ ~ Fill(r)
<1>1. rip = q /\ pc \in [Proc -> Place]
  BY DEF Struct, TypeOK, OneReader, ReadPlaces
<1>2. ASSUME ReadEnds(r) \/ MuxOwn(r) \/ MuxOther(r) \/ Fill(r) PROVE FALSE
<2>1. rip = r
  BY <1>2 DEF ReadEnds, MuxOwn, MuxOther, Fill, At, Struct, OneReader, ReadPlaces
<2>2. pc[r] # "fill" \/ pc'[r] = "wake"
  BY <1>1, <1>2 DEF ReadEnds, MuxOwn, MuxOther, Fill, At
<2> QED
  BY <1>1, <2>1, <2>2
<1> QED
  BY <1>2

\* Who has given up, or has taken the Mntrpc again, stays so until it is filled in.
LEMMA GivenUpKept ==
  ASSUME Inv, [Next]_vars, NEW q \in Proc, pc[q] = "fill", pc'[q] = "fill", GivenUp(q)
  PROVE  GivenUp(q)'
<1>0. Struct /\ Linked
  BY DEF Inv, IInv
<1>t. /\ failed \in [Proc -> BOOLEAN] /\ rpc \in [Proc -> Rpc \cup {nil}]
      /\ done \in [Rpc -> BOOLEAN] /\ hand \in [Proc -> Rpc \cup {nil}]
      /\ queue \in Seq(Rpc) /\ nil \notin Rpc
  BY <1>0, TagFacts DEF Struct, TypeOK
<1>1. hand'[q] = hand[q] /\ hand[q] \in Rpc
  BY <1>0, <1>t, HandFill DEF Struct, Held, HandPlaces
<1>2. Met'
  BY <1>0, MetFrame DEF GivenUp
<1>3. ASSUME NEW s \in Proc, rpc'[s] = hand[q]
      PROVE  Has(queue', hand[q]) \/ (failed'[s] /\ done'[hand[q]])
<2>1. ~ Return(s)
  BY <1>1, <1>3, <1>t DEF Return
<2>2. CASE Call(s)
<3>1. queue' = <<Head(rpcfree)>> \o queue /\ rpc'[s] = Head(rpcfree)
  BY <1>t, <2>2 DEF Call
<3> QED
  BY <1>1, <1>3, <1>t, <3>1, ListPush
<2>3. CASE ~ Call(s)
<3>1. rpc[s] = hand[q] /\ rpc[s] # nil
  BY <1>0, <1>1, <1>3, <1>t, <2>1, <2>3, RpcKept
<3>2. ASSUME NEW r \in Proc, FlushFails(r), r = s PROVE failed'[s] /\ done'[hand[q]]
  BY <1>1, <1>t, <3>1, <3>2 DEF FlushFails, mntqrm
<3>3. ASSUME Has(queue, hand[q]), \A r \in Proc : FlushFails(r) => r # s
      PROVE  Has(queue', hand[q])
<4>1. ASSUME NEW r \in Proc, Call(r) PROVE Has(queue', hand[q])
<5>1. Head(rpcfree) \in Rpc /\ queue' = <<Head(rpcfree)>> \o queue
  BY <1>0, <4>1, ListTail DEF Call, Struct, TypeOK
<5> QED
  BY <1>t, <3>3, <5>1, ListPush
<4>2. ASSUME NEW r \in Proc, FlushFails(r) PROVE Has(queue', hand[q])
<5>1. queue' = Unlinked(queue, rpc[r]) /\ rpc[r] # hand[q]
  BY <1>0, <3>1, <3>3, <4>2 DEF FlushFails, mntqrm, Struct, OneHolder
<5> QED
  BY <1>0, <1>t, <3>3, <5>1, ListRemove DEF Linked
<4> QED
  BY <1>0, <3>3, <4>1, <4>2, OnlyFiller, QueueFrame
<3>4. ASSUME failed[s], done[hand[q]], \A r \in Proc : FlushFails(r) => r # s
      PROVE  failed'[s] /\ done'[hand[q]]
<4>1. failed'[s]
<5>1. ASSUME NEW r \in Proc, FlushFails(r) \/ Return(r) PROVE failed'[s]
  BY <1>t, <2>1, <3>4, <5>1 DEF FlushFails, mntqrm, Return
<5> QED
  BY <1>0, <3>4, <5>1, OnlyFiller, FailedFrame
<4>2. done'[hand[q]]
<5>1. ASSUME NEW r \in Proc, Call(r) \/ Return(r) PROVE done'[hand[q]]
<6>1. r # s
  BY <2>1, <2>3, <5>1
<6>2. rpc[r] # hand[q] /\ (Call(r) => Head(rpcfree) # hand[q])
  BY <1>0, <3>1, <6>1, OthersRpc
<6> QED
  BY <1>1, <1>t, <3>4, <5>1, <6>2 DEF Call, Return
<5>2. ASSUME NEW r \in Proc, FlushFails(r) PROVE done'[hand[q]]
  BY <1>1, <1>t, <3>4, <5>2 DEF FlushFails, mntqrm
<5> QED
  BY <1>0, <3>4, <5>1, <5>2, OnlyFiller, DoneFrame
<4> QED
  BY <4>1, <4>2
<3>5. Has(queue, hand[q]) \/ (failed[s] /\ done[hand[q]])
  BY <3>1 DEF GivenUp
<3> QED
  BY <3>2, <3>3, <3>4, <3>5
<2> QED
  BY <2>2, <2>3
<1> QED
  BY <1>1, <1>2, <1>3 DEF GivenUp

\* Who waits for the reader goes on waiting, or gives up.
LEMMA WaitsKept ==
  ASSUME Inv, [Next]_vars, NEW q \in Proc, pc[q] = "fill", pc'[q] = "fill", Waits(q)
  PROVE  Waits(q)' \/ GivenUp(q)'
<1>0. Struct /\ Linked /\ Filling /\ Ended /\ Faults
  BY DEF Inv, IInv
<1>t. /\ pc \in [Proc -> Place] /\ rpc \in [Proc -> Rpc \cup {nil}] /\ done \in [Rpc -> BOOLEAN]
      /\ hand \in [Proc -> Rpc \cup {nil}] /\ queue \in Seq(Rpc) /\ nil \notin Rpc
      /\ failed \in [Proc -> BOOLEAN]
  BY <1>0, TagFacts DEF Struct, TypeOK
<1>1. PICK p \in Proc : p # q /\ rpc[p] = hand[q] /\ Sure(p) /\ Got(q).call = call[p]
  BY DEF Waits
<1>2. ~ Has(queue, hand[q]) /\ ~ done[hand[q]] /\ hand[q] \in Rpc
  BY <1>0, <1>t DEF Waits, Struct, Held, HandPlaces
<1>3. hand'[q] = hand[q]
  BY <1>0, HandFill
<1>4. CASE FlushFails(p)
<2>1. pc[p] = "flushw" /\ rpc' = rpc
  BY <1>4 DEF FlushFails, At
<2>2. nintr # 0
  BY <1>1, <2>1 DEF Sure, FlushPlaces
<2>3. Met'
  BY <1>0, <1>4, <2>2, FlushFailsMet
<2>4. failed'[p] /\ done'[hand[q]]
  BY <1>1, <1>2, <1>4, <1>t DEF FlushFails, mntqrm
<2>5. \A s \in Proc : rpc'[s] = hand[q] => s = p
  BY <1>0, <1>1, <1>2, <1>t, <2>1 DEF Struct, OneHolder
<2> QED
  BY <1>3, <2>3, <2>4, <2>5 DEF GivenUp
<1>5. CASE ~ FlushFails(p)
<2>4. ~ Return(p) /\ ~ Call(p)
<3>1. rpc[p] # nil /\ ~ done[rpc[p]]
  BY <1>t, <1>1, <1>2
<3>2. pc[p] # "out" /\ pc[p] # "ret"
  BY <1>0, <3>1 DEF Struct, Held, Ended, EndPlaces
<3> QED
  BY <3>2 DEF Return, Call, At
<2>5. rpc'[p] = rpc[p] /\ call'[p] = call[p] /\ Sure(p)'
  BY <1>0, <1>1, <2>4, RpcKept, SureKept
<2>6. Got(q)' = Got(q)
  BY <1>0, GotKept
<2>7. ASSUME NEW r \in Proc, Call(r)
      PROVE  Head(rpcfree) # hand[q] /\ Head(rpcfree) \in Rpc
  BY <1>0, <1>t, <1>1, <1>2, <2>4, <2>7, OthersRpc
<2>8. ASSUME NEW r \in Proc, FlushFails(r) PROVE rpc[r] # hand[q] /\ rpc[r] \in Rpc
<3>1. r # p /\ pc[r] = "flushw"
  BY <1>5, <2>8 DEF FlushFails, At
<3>2. rpc[r] # nil
  BY <1>0, <3>1 DEF Struct, Held
<3> QED
  BY <1>0, <1>t, <1>1, <1>2, <3>1, <3>2 DEF Struct, OneHolder
<2>9. ~ done'[hand[q]]
<3>1. ASSUME NEW r \in Proc, Call(r) PROVE ~ done'[hand[q]]
  BY <1>t, <1>2, <2>7, <3>1 DEF Call
<3>2. ASSUME NEW r \in Proc, Return(r) PROVE ~ done'[hand[q]]
  BY <1>t, <1>2, <3>2 DEF Return
<3>3. ASSUME NEW r \in Proc, FlushFails(r) PROVE ~ done'[hand[q]]
  BY <1>t, <1>2, <2>8, <3>3 DEF FlushFails, mntqrm
<3> QED
  BY <1>0, <1>2, <3>1, <3>2, <3>3, OnlyFiller, DoneFrame
<2>10. ~ Has(queue', hand[q])
<3>1. ASSUME NEW r \in Proc, Call(r) PROVE ~ Has(queue', hand[q])
<4>1. queue' = <<Head(rpcfree)>> \o queue
  BY <3>1 DEF Call
<4> QED
  BY <1>t, <1>2, <2>7, <3>1, <4>1, ListPush
<3>2. ASSUME NEW r \in Proc, FlushFails(r) PROVE ~ Has(queue', hand[q])
<4>1. queue' = Unlinked(queue, rpc[r])
  BY <3>2 DEF FlushFails, mntqrm
<4> QED
  BY <1>0, <1>t, <1>2, <4>1, ListRemove DEF Linked
<3>3. CASE queue' = queue
  BY <1>2, <3>3
<3> QED
  BY <1>0, <3>1, <3>2, <3>3, OnlyFiller, QueueFrame
<2> QED
  BY <1>1, <1>3, <2>5, <2>6, <2>9, <2>10 DEF Waits
<1> QED
  BY <1>4, <1>5

\* The reader reads for one call at a time, and what it has in hand is its owner's.
LEMMA FillingStep == Inv /\ Assumed /\ [Next]_vars => Filling'
<1> SUFFICES ASSUME Inv, Assumed, [Next]_vars, NEW q \in Proc, pc'[q] = "fill"
             PROVE  Waits(q)' \/ GivenUp(q)'
  BY DEF Filling
<1>0. Struct /\ Linked /\ Filling
  BY DEF Inv, IInv
<1>t. /\ pc \in [Proc -> Place] /\ rpc \in [Proc -> Rpc \cup {nil}] /\ done \in [Rpc -> BOOLEAN]
      /\ hand \in [Proc -> Rpc \cup {nil}] /\ queue \in Seq(Rpc) /\ nil \notin Rpc
  BY <1>0, TagFacts DEF Struct, TypeOK
<1>1. CASE pc[q] = "fill"
  BY <1>0, <1>1, WaitsKept, GivenUpKept DEF Filling
<1>2. CASE pc[q] # "fill"
<2>1. MuxOther(q)
  BY <1>0, <1>2, PcStep DEF Moved
<2>2. PICK i \in 1..Len(queue) :
        /\ IsFirst(i, Fitting(reply[rpc[q]].tag)) /\ queue[i] # rpc[q]
        /\ queue' = Unlinked(queue, queue[i]) /\ hand' = [hand EXCEPT ![q] = queue[i]]
  BY <2>1 DEF MuxOther
<2>3. rpc' = rpc /\ call' = call /\ done' = done /\ Muxing(q) /\ hand'[q] = queue[i]
  BY <1>t, <2>1, <2>2 DEF MuxOther, At, mntrpc, ghost, history, Muxing
<2>4. Has(queue, queue[i]) /\ Fits(queue[i], Got(q).tag) /\ queue[i] \in Rpc
  BY <1>t, <2>2 DEF Has, IsFirst, Fitting, Got
<2>5. PICK p \in Proc : rpc[p] = queue[i] /\ call[p] = Got(q).call /\ Sure(p)
  BY <2>3, <2>4, MuxRight
<2>6. Got(q)' = Got(q)
  BY <1>0, <2>3, GotKept DEF Muxing
<2>7. Sure(p)'
<3>1. ~ Call(p)
  BY <1>0, <1>t, <2>4, <2>5 DEF Call, At, Struct, Held
<3> QED
  BY <1>0, <2>5, <3>1, SureKept
<2>8. ~ Has(queue', queue[i]) /\ ~ done[queue[i]]
  BY <1>0, <1>t, <2>2, <2>4, ListRemove DEF Linked
<2>9. p # q
  BY <2>2, <2>5
<2> QED
  BY <2>2, <2>3, <2>5, <2>6, <2>7, <2>8, <2>9 DEF Waits
<1> QED
  BY <1>1, <1>2

-----------------------------------------------------------------------------
(* Each part of the invariant is kept: the messages.                       *)

\* When the reader is through with a reply, nobody has one.
LEMMA NoMux ==
  ASSUME Struct, NEW r \in Proc, MuxNone(r) \/ MuxOwn(r) \/ MuxOther(r) \/ ReadEnds(r),
         NEW q \in Proc
  PROVE  ~ Muxing(q)' /\ (q # r => pc'[q] = pc[q] /\ ~ Muxing(q))
<1>1. pc[r] \in {"mux", "read"} /\ pc'[r] # "mux" /\ \A s \in Proc : s # r => pc'[s] = pc[s]
  BY DEF Struct, TypeOK, MuxNone, MuxOwn, MuxOther, ReadEnds, At
<1>2. \A s \in Proc : pc[s] = "mux" => s = r
  BY <1>1 DEF Struct, OneReader, ReadPlaces
<1> QED
  BY <1>1, <1>2 DEF Muxing

\* The request that an answer on its way belongs to stays on the queue, or its call gives up.
LEMMA StillQueued ==
  ASSUME Inv, [Next]_vars, NEW m, Plain(m), PlainOf(m), Pending(m)'
  PROVE  Has(queue', m.tag) \/ Met'
<1>0. Struct /\ Linked /\ Faults
  BY DEF Inv, IInv
<1>1. PICK p \in Proc : rpc[p] = m.tag /\ call[p] = m.call /\ Sure(p) /\ Has(queue, m.tag)
  BY DEF PlainOf
<1>2. queue \in Seq(Rpc) /\ stream \in Seq(Message)
  BY <1>0 DEF Struct, TypeOK
<1>3. ASSUME NEW x, queue' = Unlinked(queue, x), m.tag # x PROVE Has(queue', m.tag)
  BY <1>0, <1>1, <1>2, <1>3, ListRemove DEF Linked
<1>4. ASSUME NEW r \in Proc, Call(r) PROVE Has(queue', m.tag)
<2>1. Head(rpcfree) \in Rpc /\ queue' = <<Head(rpcfree)>> \o queue
  BY <1>0, <1>4, ListTail DEF Call, Struct, TypeOK
<2> QED
  BY <1>1, <1>2, <2>1, ListPush
<1>5. ASSUME NEW r \in Proc, FlushFails(r) PROVE Has(queue', m.tag) \/ Met'
<2>1. pc[r] = "flushw" /\ queue' = Unlinked(queue, rpc[r])
  BY <1>5 DEF FlushFails, At, mntqrm
<2>2. CASE r = p
<3>1. nintr # 0
  BY <1>1, <2>1, <2>2 DEF Sure, FlushPlaces
<3> QED
  BY <1>0, <1>5, <3>1, FlushFailsMet
<2>3. CASE r # p
<3>1. rpc[r] # m.tag
  BY <1>0, <1>1, <2>3, HasRpc, OwnerFacts
<3> QED
  BY <1>3, <2>1, <3>1
<2> QED
  BY <2>2, <2>3
<1>6. ASSUME NEW r \in Proc, ReadEnds(r) PROVE FALSE
<2>1. srv' = {} /\ stream' = <<>>
  BY <1>0, <1>6 DEF ReadEnds, Faults, conn
<2>2. ~ InMux(m)'
  BY <1>0, <1>6, NoMux DEF InMux
<2> QED
  BY <2>1, <2>2 DEF Pending, InStream
<1>7. ASSUME NEW r \in Proc, MuxOwn(r) \/ MuxOther(r) PROVE Has(queue', m.tag)
<2>1. PICK i \in 1..Len(queue) :
        IsFirst(i, Fitting(reply[rpc[r]].tag)) /\ queue' = Unlinked(queue, queue[i])
  BY <1>7 DEF MuxOwn, MuxOther
<2>2. Muxing(r) /\ Has(queue, queue[i]) /\ Fits(queue[i], Got(r).tag)
  BY <1>7, <2>1 DEF MuxOwn, MuxOther, At, Muxing, Has, IsFirst, Fitting, Got
<2>3. m \in srv \/ InStream(m)
<3>1. ~ InMux(m)' /\ srv' = srv /\ stream' = stream
  BY <1>0, <1>7, NoMux DEF InMux, MuxOwn, MuxOther, conn
<3> QED
  BY <3>1 DEF Pending, InStream
<2>4. m.tag # queue[i]
  BY <2>2, <2>3, MuxRight DEF InStream
<2> QED
  BY <1>3, <2>1, <2>4
<1>8. CASE queue' = queue
  BY <1>1, <1>8
<1> QED
  BY <1>4, <1>5, <1>6, <1>7, <1>8, QueueFrame

\* What is known of a message holds as long as it is on its way.
LEMMA GoodKept ==
  ASSUME Inv, Assumed, [Next]_vars, NEW m, Pending(m), Pending(m)'
  PROVE  Good(m)'
<1>0. Struct /\ Messages /\ Linked
  BY DEF Inv, IInv
<1>1. Good(m)
  BY <1>0, PendingGood
<1>2. ASSUME Plain(m) PROVE PlainOf(m)' \/ Orphan(m)'
<2>1. CASE PlainOf(m)
<3>1. m.tag \in Rpc
  BY <1>0, <2>1, HasRpc DEF PlainOf
<3>2. PICK p \in Proc : rpc[p] = m.tag /\ call[p] = m.call
  BY <2>1 DEF PlainOf
<3>3. rpc[p] # nil
  BY <1>0, <2>1, <3>2, HasRpc DEF PlainOf
<3>4. OfCall(m)
  BY <1>0, <3>2, <3>3, OwnerFacts DEF OfCall
<3>5. OfCall(m)'
  BY <1>0, <3>4, OfCallKept
<3> QED
  BY <1>2, <2>1, <3>1, <3>5, StillQueued, PlainKept DEF Orphan
<2>2. CASE Orphan(m)
<3>1. Met'
  BY <1>0, <2>2, MetFrame DEF Orphan
<3>2. ~ Has(queue', m.tag)
<4>1. ASSUME NEW r \in Proc, Call(r) PROVE ~ Has(queue', m.tag)
<5>1. OnItsWay(m.tag)
  BY DEF OnItsWay, Pending, InStream, InMux, Muxing, Got
<5>2. Head(rpcfree) # m.tag
  BY <4>1, <5>1, AssumedFacts
<5>3. Head(rpcfree) \in Rpc /\ queue' = <<Head(rpcfree)>> \o queue /\ queue \in Seq(Rpc)
  BY <1>0, <4>1, ListTail DEF Call, Struct, TypeOK
<5> QED
  BY <2>2, <5>2, <5>3, ListPush DEF Orphan
<4>2. ASSUME NEW x, queue' = Unlinked(queue, x) PROVE ~ Has(queue', m.tag)
  BY <1>0, <2>2, <4>2, ListRemove DEF Linked, Orphan, Struct, TypeOK
<4>3. ASSUME NEW r \in Proc, FlushFails(r) \/ ReadEnds(r) \/ MuxOwn(r) \/ MuxOther(r)
      PROVE  \E x : queue' = Unlinked(queue, x)
  BY <4>3 DEF FlushFails, ReadEnds, MuxOwn, MuxOther, mntqrm
<4>4. CASE queue' = queue
  BY <2>2, <4>4 DEF Orphan
<4> QED
  BY <4>1, <4>2, <4>3, <4>4, QueueFrame
<3>3. OfCall(m)'
  BY <1>0, <2>2, OfCallKept DEF Orphan
<3> QED
  BY <2>2, <3>1, <3>2, <3>3 DEF Orphan
<2> QED
  BY <1>1, <1>2, <2>1, <2>2 DEF Good
<1>3. ASSUME ~ Plain(m) PROVE FlushOf(m)'
<2>1. FlushOf(m)
  BY <1>1, <1>3 DEF Good
<2>2. OnItsWay(m.tag)
  BY DEF OnItsWay, Pending, InStream, InMux, Muxing, Got
<2>3. ASSUME NEW p \in Proc, FlushTagged(p) PROVE m.tag # mflush
  BY <2>2, <2>3, AssumedFacts DEF TagUsed
<2> QED
  BY <2>1, <2>3, FlushKept
<1> QED
  BY <1>2, <1>3 DEF Good, Plain

\* A request that is written is on the queue, and nothing else answers to its tag.
LEMMA WriterQueued ==
  ASSUME Inv, NEW p \in Proc, pc[p] = "write"
  PROVE  /\ Has(queue, rpc[p]) /\ rpc[p] \in Rpc /\ call[p] \in 1..ncall
         /\ \A m : Plain(m) /\ (PlainOf(m) \/ Orphan(m)) => m.tag # rpc[p]
         /\ \A m : ~ Plain(m) /\ FlushOf(m) => m.call # call[p]
<1>0. Struct /\ Linked /\ Filling /\ Ended
  BY DEF Inv, IInv
<1>1. rpc[p] \in Rpc /\ rpc[p] # nil /\ call[p] \in 1..ncall
  BY <1>0, TagFacts, OwnerFacts DEF Struct, Held, TypeOK
<1>2. ~ done[rpc[p]]
  BY <1>0 DEF Ended
<1>3. ASSUME NEW q \in Proc, pc[q] = "fill", hand[q] = rpc[p] PROVE Has(queue, rpc[p])
<2>1. ASSUME NEW s \in Proc, rpc[s] = hand[q], Sure(s) PROVE FALSE
<3>1. s = p
  BY <1>0, <1>1, <1>3, <2>1, OwnerFacts
<3> QED
  BY <2>1, <3>1 DEF Sure
<2>2. GivenUp(q)
  BY <1>0, <1>3, <2>1 DEF Filling, Waits
<2>3. ~ failed[p]
  BY <1>0 DEF Ended, EndPlaces
<2> QED
  BY <1>3, <2>2, <2>3 DEF GivenUp
<1>4. Has(queue, rpc[p])
  BY <1>0, <1>1, <1>2, <1>3 DEF Linked
<1>5. ASSUME NEW m, PlainOf(m), m.tag = rpc[p] PROVE FALSE
<2>1. PICK s \in Proc : rpc[s] = m.tag /\ Sure(s)
  BY <1>5 DEF PlainOf
<2>2. s = p
  BY <1>0, <1>1, <1>5, <2>1, OwnerFacts
<2> QED
  BY <2>1, <2>2 DEF Sure
<1> QED
  BY <1>1, <1>4, <1>5 DEF FlushOf, Orphan

\* What is sent is accounted for.
LEMMA SentGood ==
  ASSUME Inv, Assumed, [Next]_vars, NEW m, Written(m) \/ FlushSent(m)
  PROVE  Good(m)'
<1>0. Struct /\ Faults /\ Ended /\ FlushTags
  BY DEF Inv, IInv
<1>n. nintr \in Nat /\ nintr' \in Nat /\ nintr' >= nintr
  BY <1>0, IntrFrame
<1>1. ASSUME Written(m) PROVE Good(m)'
<2>1. PICK p \in Proc : (WriteDone(p) \/ WriteIntr(p)) /\ m = Request(rpc[p], call[p])
  BY <1>1 DEF Written
<2>2. pc[p] = "write" /\ rpc' = rpc /\ call' = call /\ queue' = queue
  BY <2>1 DEF WriteDone, WriteIntr, At, mnt, ghost, history
<2>3. m.tag = rpc[p] /\ m.call = call[p] /\ m.old = nil
  BY <2>1 DEF Request
<2>4. Has(queue, rpc[p])
  BY <2>2, WriterQueued
<2>5. Sure(p)'
<3>1. ASSUME WriteDone(p) PROVE pc'[p] = "gate"
  BY <1>0, <3>1 DEF WriteDone, At, Struct, TypeOK
<3>2. ASSUME WriteIntr(p) PROVE pc'[p] = "flush" /\ nintr' # 0
  BY <1>0, <1>n, <3>2 DEF WriteIntr, At, Struct, TypeOK, Interrupted
<3> QED
  BY <2>1, <3>1, <3>2 DEF Sure, FlushPlaces
<2>6. PlainOf(m)'
  BY <2>2, <2>3, <2>4, <2>5 DEF PlainOf
<2> QED
  BY <2>3, <2>6 DEF Good, Plain
<1>2. ASSUME FlushSent(m) PROVE Good(m)'
<2>1. PICK p \in Proc : (FlushDone(p) \/ FlushIntr(p)) /\ m = Tflush(ftag[rpc[p]], rpc[p], call[p])
  BY <1>2 DEF FlushSent
<2>2. /\ pc[p] = "flushw" /\ rpc' = rpc /\ call' = call /\ ncall' = ncall
      /\ flushed' = flushed /\ ftag' = ftag
  BY <2>1 DEF FlushDone, FlushIntr, Resume, At, mntrpc, ghost, history
<2>3. m.tag = ftag[rpc[p]] /\ m.call = call[p] /\ m.old = rpc[p]
  BY <2>1 DEF Tflush
<2>4. rpc[p] # nil /\ rpc[p] \in Rpc /\ call[p] \in 1..ncall
  BY <1>0, <2>2, OwnerFacts DEF Struct, Held
<2>5. flushed[rpc[p]] /\ ftag[rpc[p]] \in FlushTag
  BY <1>0, <2>2 DEF Ended
<2>6. ~ hungup
  BY <1>2 DEF FlushSent
<2>7. nintr' > 0
  BY <1>0, <1>n, <2>2, <2>6 DEF Faults, FlushPlaces
<2>8. pc'[p] # "write"
  BY <1>0, <2>1 DEF FlushDone, FlushIntr, Resume, At, Struct, TypeOK
<2>9. ASSUME NEW q \in Proc, call[q] = call[p] PROVE q = p
  BY <1>0, <2>4, <2>9, OwnerFacts
<2>10. ASSUME NEW q \in Proc, rpc[q] # nil, flushed[rpc[q]], ftag[rpc[q]] = ftag[rpc[p]] PROVE q = p
  BY <1>0, <2>4, <2>5, <2>6, <2>10 DEF FlushTags
<2>11. FlushOf(m)'
  BY <2>2, <2>3, <2>4, <2>5, <2>7, <2>8, <2>9, <2>10 DEF FlushOf
<2> QED
  BY <2>3, <2>4, <2>11 DEF Good, Plain
<1> QED
  BY <1>1, <1>2

\* All messages on their way stay accounted for.
LEMMA MessagesStep == Inv /\ Assumed /\ [Next]_vars => Messages'
<1> SUFFICES ASSUME Inv, Assumed, [Next]_vars PROVE Messages'
  OBVIOUS
<1>0. Struct
  BY DEF Inv
<1>1. ASSUME NEW m, Pending(m)' PROVE Good(m)'
<2>1. CASE Pending(m)
  BY <1>1, <2>1, GoodKept
<2>2. CASE ~ Pending(m)
<3>1. Written(m) \/ FlushSent(m)
  BY <1>0, <1>1, <2>2, PendingStep DEF Pending, InStream, InMux
<3> QED
  BY <3>1, SentGood
<2> QED
  BY <2>1, <2>2
<1> QED
  BY <1>1 DEF Messages, Pending, InStream, InMux

\* A reply is read by ReadReply, and otherwise stays.
LEMMA MuxKept ==
  ASSUME Struct, [Next]_vars, NEW q \in Proc, Muxing(q)'
  PROVE  ReadReply(q) \/ (Muxing(q) /\ Got(q)' = Got(q))
<1>1. pc'[q] = "mux"
  BY DEF Muxing
<1>2. pc[q] = "mux" \/ ReadReply(q)
  BY <1>1, PcStep DEF Moved
<1> QED
  BY <1>1, <1>2, GotKept DEF Muxing

\* m0 answers no request that is on its way, and no flush of it is.
FreshMsg(m0) == \A n : Pending(n) => Apart(n, m0) /\ NotOf(n, m0)
MuxSame == \A q \in Proc : Muxing(q)' => Muxing(q) /\ Got(q)' = Got(q)

\* The ways a step can move messages.
LEMMA ConnCases ==
  ASSUME Inv, Assumed, [Next]_vars
  PROVE  \/ /\ MuxSame /\ stream' = stream
            /\ (srv' \subseteq srv \/ \E m0 : FreshMsg(m0) /\ srv' \subseteq srv \cup {m0})
         \/ \E m \in srv : /\ MuxSame /\ stream' = Append(stream, m) /\ srv' \subseteq srv \ {m}
                           /\ \A n \in srv' : NotOf(m, n)
         \/ \E p \in Proc : /\ ReadReply(p) /\ srv' = srv /\ stream # <<>> /\ stream' = Tail(stream)
                            /\ \A q \in Proc : Muxing(q)' => q = p
                            /\ Got(p)' = Head(stream)
<1> DEFINE S == /\ MuxSame /\ stream' = stream
                /\ (srv' \subseteq srv \/ \E m0 : FreshMsg(m0) /\ srv' \subseteq srv \cup {m0})
<1>0. Struct /\ Messages
  BY DEF Inv, IInv
<1>t. pc \in [Proc -> Place] /\ srv \subseteq Message /\ stream \in Seq(Message)
  BY <1>0 DEF Struct, TypeOK
<1>r. ASSUME NEW p \in Proc, ReadReply(p)
      PROVE  /\ srv' = srv /\ stream # <<>> /\ stream' = Tail(stream)
             /\ \A q \in Proc : Muxing(q)' => q = p
             /\ Got(p)' = Head(stream)
<2>1. pc[p] = "read" /\ \A q \in Proc : q # p => pc'[q] = pc[q]
  BY <1>r, <1>t DEF ReadReply, At
<2>2. \A q \in Proc : pc[q] = "mux" => q = p
  BY <1>0, <2>1 DEF Struct, OneReader, ReadPlaces
<2>3. rpc' = rpc /\ rpc[p] \in Rpc
  BY <1>0, <1>r, <2>1 DEF ReadReply, Struct, Held, TypeOK
<2>4. Got(p)' = Head(stream)
  BY <1>0, <1>r, <2>3 DEF ReadReply, Got, Struct, TypeOK
<2> QED
  BY <1>r, <2>1, <2>2, <2>4 DEF ReadReply, Muxing
<1>s. (\A p \in Proc : ~ ReadReply(p)) => MuxSame
  BY <1>0, MuxKept DEF MuxSame
<1>1. ASSUME NEW p \in Proc, WriteDone(p) \/ WriteIntr(p), MuxSame PROVE S
<2> DEFINE m0 == Request(rpc[p], call[p])
<2>1. pc[p] = "write" /\ srv' \subseteq srv \cup {m0} /\ stream' = stream
  BY <1>1 DEF WriteDone, WriteIntr, At, Sent
<2>2. m0.tag = rpc[p] /\ m0.call = call[p] /\ Plain(m0)
  BY DEF Request, Plain
<2> HIDE DEF m0
<2>3. ASSUME NEW n, Pending(n) PROVE Apart(n, m0) /\ NotOf(n, m0)
<3>1. Good(n)
  BY <1>0, <2>3, PendingGood
<3> QED
  BY <2>1, <2>2, <3>1, WriterQueued DEF Good, Apart, NotOf
<2>4. FreshMsg(m0)
  BY <2>3 DEF FreshMsg
<2> QED
  BY <1>1, <2>1, <2>4
<1>2. ASSUME NEW p \in Proc, FlushDone(p) \/ FlushIntr(p), MuxSame PROVE S
<2> DEFINE m0 == Tflush(ftag[rpc[p]], rpc[p], call[p])
<2>1. pc[p] = "flushw" /\ srv' \subseteq srv \cup {m0} /\ stream' = stream
  BY <1>0, <1>2 DEF FlushDone, FlushIntr, Resume, At, Sent
<2>2. rpc[p] # nil
  BY <1>0, <2>1 DEF Struct, Held
<2>3. ~ Plain(m0)
  BY <2>2 DEF Tflush, Plain
<2> HIDE DEF m0
<2>4. FreshMsg(m0)
  BY <2>3 DEF FreshMsg, Apart, NotOf
<2> QED
  BY <1>2, <2>1, <2>4
<1>3. ASSUME HangUp \/ UNCHANGED <<srv, stream, hungup>>, MuxSame PROVE S
  BY <1>3 DEF HangUp
<1>4. ASSUME NEW m \in srv, Answer(m) \/ AnswerFlush(m)
      PROVE  /\ stream' = Append(stream, m) /\ srv' \subseteq srv \ {m}
             /\ \A n \in srv' : NotOf(m, n)
<2>1. stream' = Append(stream, m) /\ srv' \subseteq srv \ {m}
  BY <1>4 DEF Answer, AnswerFlush
<2>2. ASSUME NEW n \in srv', ~ Plain(m), Plain(n), m.call = n.call PROVE FALSE
  BY <1>4, <2>2 DEF Answer, AnswerFlush, Plain
<2> QED
  BY <2>1, <2>2 DEF NotOf
<1>5. ASSUME NEW m \in srv, Answer(m) \/ AnswerFlush(m) \/ IgnoreFlush(m) PROVE MuxSame
<2>1. pc' = pc
  BY <1>5 DEF Answer, AnswerFlush, IgnoreFlush, local
<2> QED
  BY <1>0, <2>1, GotKept DEF MuxSame, Muxing
<1> QED
<2>1. CASE \E p \in Proc : ReadReply(p)
  BY <1>r, <2>1
<2>2. CASE \E m \in srv : Answer(m) \/ AnswerFlush(m)
  BY <1>4, <1>5, <2>2
<2>4. CASE \E m \in srv : IgnoreFlush(m)
<3>1. stream' = stream /\ srv' \subseteq srv
  BY <2>4 DEF IgnoreFlush
<3> QED
  BY <1>5, <2>4, <3>1
<2>3. CASE \A p \in Proc : ~ ReadReply(p)
  BY <1>s, <1>1, <1>2, <1>3, <2>2, <2>3, <2>4, ConnFrame
<2> QED
  BY <2>1, <2>2, <2>3

\* The first of the stream.
LEMMA StreamHead ==
  ASSUME Struct, stream # <<>>
  PROVE  1 \in 1..Len(stream) /\ Head(stream) = stream[1]
<1>1. stream \in Seq(Message)
  BY DEF Struct, TypeOK
<1>2. Len(stream) \in Nat \ {0} /\ Head(stream) = stream[1]
  BY <1>1, ListTail
<1> QED
  BY <1>2

\* One answer to a request, and none after that to its flush.
LEMMA OnceOrderStep == Inv /\ Assumed /\ [Next]_vars => Once' /\ Order'
<1> SUFFICES ASSUME Inv, Assumed, [Next]_vars PROVE Once' /\ Order'
  OBVIOUS
<1>0. Struct /\ Once /\ Order
  BY DEF Inv, IInv
<1>t. srv \subseteq Message /\ stream \in Seq(Message) /\ Len(stream) \in Nat
  BY <1>0 DEF Struct, TypeOK
<1>1. ASSUME MuxSame, stream' = stream, srv' \subseteq srv PROVE Once' /\ Order'
<2>1. Once'
  BY <1>0, <1>1 DEF MuxSame, Once, Apart, Plain
<2>2. Order'
  BY <1>0, <1>1 DEF MuxSame, Order, NotOf, Plain
<2> QED
  BY <2>1, <2>2
<1>2. ASSUME NEW m0, MuxSame, stream' = stream, FreshMsg(m0), srv' \subseteq srv \cup {m0}
      PROVE  Once' /\ Order'
<2>1. \A n \in srv : Apart(n, m0)
  BY <1>2 DEF FreshMsg, Pending
<2>2. \A i \in 1..Len(stream) : Apart(stream[i], m0) /\ NotOf(stream[i], m0)
  BY <1>2 DEF FreshMsg, Pending, InStream
<2>3. \A q \in Proc : Muxing(q) => Apart(Got(q), m0) /\ NotOf(Got(q), m0)
  BY <1>2 DEF FreshMsg, Pending, InMux
<2>4. \A q \in Proc : Muxing(q)' => Muxing(q) /\ Got(q)' = Got(q)
  BY <1>2 DEF MuxSame
<2>5. Once'
  BY <1>0, <1>2, <2>1, <2>2, <2>3, <2>4 DEF Once, Apart, Plain
<2>6. Order'
  BY <1>0, <1>2, <2>2, <2>3, <2>4 DEF Order, NotOf, Plain
<2> QED
  BY <2>5, <2>6
<1>3. ASSUME NEW m \in srv, MuxSame, stream' = Append(stream, m), srv' \subseteq srv \ {m},
             \A n \in srv' : NotOf(m, n)
      PROVE  Once' /\ Order'
<2>1. m \in Message
  BY <1>t
<2>2. /\ Len(stream') = Len(stream) + 1 /\ stream'[Len(stream) + 1] = m
      /\ \A i \in 1..Len(stream) : stream'[i] = stream[i]
      /\ \A i \in 1..(Len(stream) + 1) : i = Len(stream) + 1 \/ i \in 1..Len(stream)
  BY <1>t, <1>3, <2>1, ListAppend
<2>3. \A q \in Proc : Muxing(q)' => Muxing(q) /\ Got(q)' = Got(q)
  BY <1>3 DEF MuxSame
<2>4. \A i \in 1..Len(stream') : stream'[i] = m \/ (i \in 1..Len(stream) /\ stream'[i] = stream[i])
  BY <2>2
<2>5. \A n1, n2 \in srv' : n1 # n2 => Apart(n1, n2)
  BY <1>0, <1>3 DEF Once
<2>6. \A n \in srv' : \A i \in 1..Len(stream') : Apart(n, stream'[i])
  BY <1>0, <1>3, <2>4 DEF Once
<2>7. ASSUME NEW i \in 1..Len(stream'), NEW j \in 1..Len(stream'), i # j
      PROVE  Apart(stream'[i], stream'[j])
<3>1. \A k \in 1..Len(stream) : Apart(stream[k], m) /\ Apart(m, stream[k])
  BY <1>0 DEF Once, Apart
<3> QED
  BY <1>0, <2>2, <2>7, <3>1 DEF Once
<2>8. ASSUME NEW q \in Proc, Muxing(q)'
      PROVE  /\ \A n \in srv' : Apart(n, Got(q)')
             /\ \A i \in 1..Len(stream') : Apart(stream'[i], Got(q)')
  BY <1>0, <1>3, <2>3, <2>4, <2>8 DEF Once
<2>9. Once'
  BY <2>5, <2>6, <2>7, <2>8 DEF Once, Apart, Plain
<2>10. ASSUME NEW i \in 1..Len(stream') PROVE \A n \in srv' : NotOf(stream'[i], n)
  BY <1>0, <1>3, <2>4 DEF Order
<2>11. ASSUME NEW i \in 1..Len(stream'), NEW j \in 1..Len(stream'), i < j
       PROVE  NotOf(stream'[i], stream'[j])
<3>1. i \in 1..Len(stream) /\ stream'[i] = stream[i]
  BY <1>t, <2>2, <2>11
<3> QED
  BY <1>0, <2>4, <2>11, <3>1 DEF Order
<2>12. ASSUME NEW q \in Proc, Muxing(q)'
       PROVE  /\ \A n \in srv' : NotOf(Got(q)', n)
              /\ \A i \in 1..Len(stream') : NotOf(Got(q)', stream'[i])
  BY <1>0, <1>3, <2>3, <2>4, <2>12 DEF Order
<2>13. Order'
  BY <2>10, <2>11, <2>12 DEF Order, NotOf, Plain
<2> QED
  BY <2>9, <2>13
<1>4. ASSUME NEW p \in Proc, srv' = srv, stream # <<>>, stream' = Tail(stream),
             \A q \in Proc : Muxing(q)' => q = p, Got(p)' = Head(stream)
      PROVE  Once' /\ Order'
<2>1. 1 \in 1..Len(stream) /\ Got(p)' = stream[1]
  BY <1>0, <1>4, StreamHead
<2>2. /\ Len(stream') = Len(stream) - 1
      /\ \A i \in 1..Len(stream') : stream'[i] = stream[i + 1] /\ i + 1 \in 1..Len(stream) /\ 1 < i + 1
  BY <1>t, <1>4, ListTail
<2>3. \A n \in srv' : \A i \in 1..Len(stream') : Apart(n, stream'[i]) /\ NotOf(stream'[i], n)
  BY <1>0, <1>4, <2>2 DEF Once, Order
<2>4. ASSUME NEW i \in 1..Len(stream'), NEW j \in 1..Len(stream')
      PROVE  /\ i # j => Apart(stream'[i], stream'[j])
             /\ i < j => NotOf(stream'[i], stream'[j])
<3>1. (i # j => i + 1 # j + 1) /\ (i < j => i + 1 < j + 1)
  OBVIOUS
<3> QED
  BY <1>0, <2>2, <2>4, <3>1 DEF Once, Order
<2>5. ASSUME NEW q \in Proc, Muxing(q)'
      PROVE  /\ \A n \in srv' : Apart(n, Got(q)') /\ NotOf(Got(q)', n)
             /\ \A i \in 1..Len(stream') : Apart(stream'[i], Got(q)') /\ NotOf(Got(q)', stream'[i])
<3>1. Got(q)' = stream[1]
  BY <1>4, <2>1, <2>5
<3>2. \A i \in 1..Len(stream') : i + 1 # 1
  BY <2>2
<3> QED
  BY <1>0, <1>4, <2>1, <2>2, <3>1, <3>2 DEF Once, Order
<2>6. Once'
  BY <1>0, <1>4, <2>3, <2>4, <2>5 DEF Once, Apart, Plain
<2>7. Order'
  BY <2>3, <2>4, <2>5 DEF Order, NotOf, Plain
<2> QED
  BY <2>6, <2>7
<1> QED
  BY <1>1, <1>2, <1>3, <1>4, ConnCases

-----------------------------------------------------------------------------
(* Each part of the invariant is kept: replies, flushes, waking.           *)

\* What a step does to the flush of a request.
LEMMA FlushStep ==
  ASSUME Struct, [Next]_vars, NEW p \in Proc, rpc'[p] # nil, flushed'[rpc'[p]], ~ hungup
  PROVE  /\ rpc'[p] = rpc[p] /\ call'[p] = call[p] /\ rpc[p] \in Rpc
         /\ \/ FlushTagged(p) /\ ftag'[rpc[p]] = mflush
            \/ flushed[rpc[p]] /\ ftag'[rpc[p]] = ftag[rpc[p]]
<1>0. Struct
  OBVIOUS
<1>t. /\ pc \in [Proc -> Place] /\ rpc \in [Proc -> Rpc \cup {nil}] /\ failed \in [Proc -> BOOLEAN]
      /\ done \in [Rpc -> BOOLEAN] /\ flushed \in [Rpc -> BOOLEAN] /\ mflush \in FlushTag
      /\ ftag \in [Rpc -> FlushTag \cup {0}] /\ hand \in [Proc -> Rpc \cup {nil}] /\ nil \notin Rpc
      /\ reply \in [Rpc -> Message] /\ call \in [Proc -> 0..MaxCall]
  BY <1>0, TagFacts DEF Struct, TypeOK
<1>1. ~ Call(p)
<2> SUFFICES ASSUME Call(p) PROVE FALSE
  OBVIOUS
<2>1. Head(rpcfree) \in Rpc /\ rpc'[p] = Head(rpcfree)
  BY <1>t, ListTail DEF Call, Struct, TypeOK
<2> QED
  BY <1>t, <2>1 DEF Call
<1>2. rpc'[p] = rpc[p] /\ call'[p] = call[p] /\ rpc[p] \in Rpc /\ ~ Return(p)
  BY <1>t, <1>1, RpcKept
<1>3. ASSUME NEW q \in Proc, Call(q) \/ Return(q) \/ (FlushTagged(q) /\ q # p)
      PROVE  flushed'[rpc[p]] = flushed[rpc[p]] /\ ftag'[rpc[p]] = ftag[rpc[p]]
<2>1. p # q
  BY <1>1, <1>2, <1>3
<2>2. rpc[q] # rpc[p] /\ (Call(q) => Head(rpcfree) # rpc[p])
  BY <1>t, <1>2, <2>1, OthersRpc
<2> QED
  BY <1>t, <1>2, <1>3, <2>2 DEF Call, Return, FlushTagged
<1>4. ASSUME FlushTagged(p) PROVE ftag'[rpc[p]] = mflush
  BY <1>t, <1>2, <1>4 DEF FlushTagged
<1>5. ASSUME NEW q \in Proc PROVE ~ ReadEnds(q)
  BY DEF ReadEnds
<1>6. ASSUME NEW q \in Proc, FlushFails(q)
      PROVE  (flushed'[rpc[p]] => flushed[rpc[p]]) /\ ftag'[rpc[p]] = ftag[rpc[p]]
<2>1. flushed' = [flushed EXCEPT ![rpc[q]] = FALSE] /\ ftag' = ftag
  BY <1>6, FlushFailsEnds DEF FlushEnds, mntqrm
<2> QED
  BY <1>t, <1>2, <2>1
<1> QED
  BY <1>2, <1>3, <1>4, <1>5, <1>6, FlushFrame

\* No two flushes that are not over have the same tag.
LEMMA FlushTagsStep == Inv /\ Assumed /\ [Next]_vars => FlushTags'
<1> SUFFICES ASSUME Inv, Assumed, [Next]_vars, ~ hungup', NEW p \in Proc, NEW q \in Proc, p # q,
                    rpc'[p] # nil, rpc'[q] # nil, flushed'[rpc'[p]], flushed'[rpc'[q]]
             PROVE  ftag'[rpc'[p]] # ftag'[rpc'[q]]
  BY DEF FlushTags
<1>0. Struct /\ FlushTags
  BY DEF Inv, IInv
<1>1. ~ hungup
  BY ConnFrame DEF WriteDone, WriteIntr, FlushDone, FlushIntr, ReadReply, Answer, AnswerFlush, IgnoreFlush, HangUp
<1>2. /\ rpc'[p] = rpc[p] /\ rpc[p] \in Rpc
      /\ \/ FlushTagged(p) /\ ftag'[rpc[p]] = mflush
         \/ flushed[rpc[p]] /\ ftag'[rpc[p]] = ftag[rpc[p]]
  BY <1>0, <1>1, FlushStep
<1>3. /\ rpc'[q] = rpc[q] /\ rpc[q] \in Rpc
      /\ \/ FlushTagged(q) /\ ftag'[rpc[q]] = mflush
         \/ flushed[rpc[q]] /\ ftag'[rpc[q]] = ftag[rpc[q]]
  BY <1>0, <1>1, FlushStep
<1>4. ~ (FlushTagged(p) /\ FlushTagged(q))
  BY <1>0 DEF FlushTagged, At, Struct, TypeOK
<1>5. ASSUME NEW r \in Proc, FlushTagged(r), NEW s \in Proc, s # r, rpc[s] # nil, flushed[rpc[s]]
      PROVE  ftag[rpc[s]] # mflush
  BY <1>1, <1>5, AssumedFacts DEF TagUsed
<1> QED
  BY <1>0, <1>1, <1>2, <1>3, <1>4, <1>5, TagFacts DEF FlushTags

\* A call that is done has the answer to itself, or has failed.
LEMMA RightStep == Inv /\ Assumed /\ [Next]_vars => Right'
<1> SUFFICES ASSUME Inv, Assumed, [Next]_vars, NEW r \in Proc, rpc'[r] # nil, done'[rpc'[r]],
                    ~ failed'[r]
             PROVE  reply'[rpc'[r]].call = call'[r]
  BY DEF Right, Got
<1>0. Struct /\ Right /\ Filling
  BY DEF Inv, IInv
<1>t. /\ pc \in [Proc -> Place] /\ rpc \in [Proc -> Rpc \cup {nil}] /\ failed \in [Proc -> BOOLEAN]
      /\ done \in [Rpc -> BOOLEAN] /\ flushed \in [Rpc -> BOOLEAN] /\ mflush \in FlushTag
      /\ ftag \in [Rpc -> FlushTag \cup {0}] /\ hand \in [Proc -> Rpc \cup {nil}] /\ nil \notin Rpc
      /\ reply \in [Rpc -> Message] /\ call \in [Proc -> 0..MaxCall]
  BY <1>0, TagFacts DEF Struct, TypeOK
<1>1. ~ Call(r)
<2> SUFFICES ASSUME Call(r) PROVE FALSE
  OBVIOUS
<2>1. Head(rpcfree) \in Rpc /\ rpc'[r] = Head(rpcfree)
  BY <1>0, <1>t, ListTail DEF Call, Struct, TypeOK
<2> QED
  BY <1>t, <2>1 DEF Call
<1>2. rpc'[r] = rpc[r] /\ call'[r] = call[r] /\ rpc[r] \in Rpc /\ rpc[r] # nil /\ ~ Return(r)
  BY <1>0, <1>1, <1>t, RpcKept
<1>3. CASE MuxOwn(r)
<2>1. PICK i \in 1..Len(queue) : IsFirst(i, Fitting(reply[rpc[r]].tag)) /\ queue[i] = rpc[r]
  BY <1>3 DEF MuxOwn
<2>2. Muxing(r) /\ Has(queue, rpc[r]) /\ Fits(rpc[r], Got(r).tag) /\ reply' = reply
  BY <1>3, <2>1 DEF MuxOwn, At, Muxing, Has, IsFirst, Fitting, Got
<2>3. PICK p \in Proc : rpc[p] = rpc[r] /\ call[p] = Got(r).call
  BY <2>2, MuxRight
<2>4. p = r
  BY <1>0, <1>2, <2>3, OwnerFacts
<2> QED
  BY <1>2, <2>2, <2>3, <2>4 DEF Got
<1>4. ASSUME NEW p \in Proc, Fill(p), hand[p] = rpc[r] PROVE reply'[rpc[r]].call = call[r]
<2>1. pc[p] = "fill"
  BY <1>4 DEF Fill, At
<2>2. ~ GivenUp(p)
<3> SUFFICES ASSUME GivenUp(p) PROVE FALSE
  OBVIOUS
<3>1. ~ Has(queue, hand[p]) /\ failed' = failed
  BY <1>4, AssumedFacts DEF Fill
<3> QED
  BY <1>4, <3>1 DEF GivenUp
<2>3. PICK s \in Proc : rpc[s] = hand[p] /\ Got(p).call = call[s]
  BY <1>0, <2>1, <2>2 DEF Filling, Waits
<2>4. s = r
  BY <1>0, <1>2, <1>4, <2>3, OwnerFacts
<2> QED
  BY <1>2, <1>4, <1>t, <2>3, <2>4 DEF Fill, Got
<1>5. ASSUME ~ MuxOwn(r), \A p \in Proc : ~ (Fill(p) /\ hand[p] = rpc[r])
      PROVE  done[rpc[r]] /\ ~ failed[r] /\ reply'[rpc[r]] = reply[rpc[r]]
<2>1. ASSUME NEW p \in Proc, Call(p) \/ Return(p)
      PROVE  done'[rpc[r]] = done[rpc[r]] /\ reply'[rpc[r]] = reply[rpc[r]] /\ failed'[r] = failed[r]
<3>1. p # r
  BY <1>1, <1>2, <2>1
<3>2. rpc[p] # rpc[r] /\ (Call(p) => Head(rpcfree) # rpc[r])
  BY <1>0, <1>2, <3>1, OthersRpc
<3> QED
  BY <1>t, <1>2, <2>1, <3>1, <3>2 DEF Call, Return
<2>2. ASSUME NEW p \in Proc, FlushFails(p) \/ ReadEnds(p) \/ MuxOwn(p) \/ Fill(p)
      PROVE  done'[rpc[r]] = done[rpc[r]] /\ reply'[rpc[r]] = reply[rpc[r]] /\ failed'[r] = failed[r]
<3>1. ASSUME FlushFails(p) \/ ReadEnds(p) PROVE p # r
  BY <1>t, <3>1 DEF FlushFails, ReadEnds, mntqrm
<3>2. Fill(p) \/ rpc[p] # rpc[r]
<4>1. ASSUME ~ Fill(p) PROVE p # r
  BY <1>5, <2>2, <3>1, <4>1
<4> QED
  BY <1>0, <1>2, <4>1, OthersRpc
<3> QED
  BY <1>t, <1>2, <1>5, <2>2, <3>1, <3>2 DEF FlushFails, ReadEnds, MuxOwn, Fill, mntqrm
<2>3. ASSUME NEW p \in Proc, ReadReply(p)
      PROVE  done'[rpc[r]] = done[rpc[r]] /\ reply'[rpc[r]] = reply[rpc[r]] /\ failed'[r] = failed[r]
<3>1. ~ done[rpc[p]] /\ done' = done
  BY <2>3 DEF ReadReply
<3>2. rpc[p] # rpc[r]
  BY <1>2, <3>1
<3> QED
  BY <1>t, <1>2, <2>3, <3>2 DEF ReadReply
<2>4. CASE \A p \in Proc : /\ ~ Call(p) /\ ~ Return(p) /\ ~ FlushFails(p) /\ ~ ReadEnds(p)
                           /\ ~ MuxOwn(p) /\ ~ Fill(p) /\ ~ ReadReply(p)
<3>1. failed' = failed
  BY <2>4 DEF Next, Step, Interrupt, WriteDone, WriteIntr, WriteFails, FlushTagged,
     FlushDone, FlushIntr, Gate, Sleep, SleepIntr, Awake, ReadDone, ReadIntr, MuxNone,
     MuxOther, Wake, mntgate, GateWake, Answer, local, AnswerFlush, IgnoreFlush, HangUp, vars, local
<3> QED
  BY <1>2, <2>4, <3>1, DoneFrame, ReplyFrame
<2> QED
  BY <1>2, <2>1, <2>2, <2>3, <2>4
<1> QED
  BY <1>0, <1>2, <1>3, <1>4, <1>5 DEF Right, Got

\* How a process leaves the places that matter below.
Left(s) ==
  \/ pc'[s] = pc[s]
  \/ pc[s] = "write" /\ (WriteDone(s) \/ WriteIntr(s) \/ WriteFails(s))
  \/ pc[s] = "flush" /\ FlushTagged(s)
  \/ pc[s] = "flushw" /\ (FlushDone(s) \/ FlushIntr(s) \/ FlushFails(s))
  \/ pc[s] = "gate" /\ Gate(s)
  \/ pc[s] = "sleep" /\ Sleep(s)
  \/ pc[s] = "asleep" /\ (SleepIntr(s) \/ pc'[s] = "awake")
  \/ pc[s] = "awake" /\ Awake(s)
  \/ pc[s] = "mux" /\ (MuxNone(s) \/ MuxOwn(s) \/ MuxOther(s))
  \/ pc[s] = "wake" /\ Wake(s)
  \/ pc[s] = "gatewake" /\ GateWake(s)
  \/ pc[s] \notin {"write", "flush", "flushw", "gate", "sleep", "asleep", "awake", "mux", "wake",
                   "gatewake"}
LEMMA PcLeave ==
  ASSUME Struct, [Next]_vars, NEW s \in Proc
  PROVE  Left(s)
<1>0. pc \in [Proc -> Place]
  BY DEF Struct, TypeOK
<1>1. ASSUME NEW p \in Proc, WriteDone(p) \/ WriteIntr(p) \/ WriteFails(p) PROVE Left(s)
<2>1. IF s = p THEN pc[s] = "write" ELSE pc'[s] = pc[s]
  BY <1>0, <1>1 DEF WriteDone, WriteIntr, WriteFails, At
<2> QED
  BY <1>1, <2>1 DEF Left
<1>2. ASSUME NEW p \in Proc, FlushTagged(p) PROVE Left(s)
<2>1. IF s = p THEN pc[s] = "flush" ELSE pc'[s] = pc[s]
  BY <1>0, <1>2 DEF FlushTagged, At
<2> QED
  BY <1>2, <2>1 DEF Left
<1>3. ASSUME NEW p \in Proc, FlushDone(p) \/ FlushIntr(p) \/ FlushFails(p) PROVE Left(s)
<2>1. IF s = p THEN pc[s] = "flushw" ELSE pc'[s] = pc[s]
  BY <1>0, <1>3 DEF FlushDone, FlushIntr, FlushFails, At, Resume
<2> QED
  BY <1>3, <2>1 DEF Left
<1>4. ASSUME NEW p \in Proc, Gate(p) PROVE Left(s)
<2>1. IF s = p THEN pc[s] = "gate" ELSE pc'[s] = pc[s]
  BY <1>0, <1>4 DEF Gate, At
<2> QED
  BY <1>4, <2>1 DEF Left
<1>5. ASSUME NEW p \in Proc, Sleep(p) PROVE Left(s)
<2>1. IF s = p THEN pc[s] = "sleep" ELSE pc'[s] = pc[s]
  BY <1>0, <1>5 DEF Sleep, At
<2> QED
  BY <1>5, <2>1 DEF Left
<1>6. ASSUME NEW p \in Proc, SleepIntr(p) PROVE Left(s)
<2>1. IF s = p THEN pc[s] = "asleep" ELSE pc'[s] = pc[s]
  BY <1>0, <1>6 DEF SleepIntr, At
<2> QED
  BY <1>6, <2>1 DEF Left
<1>7. ASSUME NEW p \in Proc, Awake(p) PROVE Left(s)
<2>1. IF s = p THEN pc[s] = "awake" ELSE pc'[s] = pc[s]
  BY <1>0, <1>7 DEF Awake, At
<2> QED
  BY <1>7, <2>1 DEF Left
<1>8. ASSUME NEW p \in Proc, MuxNone(p) \/ MuxOwn(p) \/ MuxOther(p) PROVE Left(s)
<2>1. IF s = p THEN pc[s] = "mux" ELSE pc'[s] = pc[s]
  BY <1>0, <1>8 DEF MuxNone, MuxOwn, MuxOther, At
<2> QED
  BY <1>8, <2>1 DEF Left
<1>9. ASSUME NEW p \in Proc, Call(p) \/ ReadDone(p) \/ ReadReply(p) \/ ReadIntr(p)
             \/ ReadEnds(p) \/ Fill(p) \/ mntgate(p) \/ Return(p) PROVE Left(s)
<2>1. IF s = p THEN pc[s] \in {"out", "read", "fill", "mntgate", "ret"} ELSE pc'[s] = pc[s]
  BY <1>0, <1>9 DEF Call, ReadDone, ReadReply, ReadIntr, ReadEnds, Fill, mntgate, Return, At
<2> QED
  BY <2>1 DEF Left
<1>10. ASSUME NEW p \in Proc, Wake(p) PROVE Left(s)
<2>1. s = p => pc[s] = "wake"
  BY <1>10 DEF Wake
<2>2. ASSUME s # p PROVE pc'[s] = pc[s] \/ (pc[s] = "asleep" /\ pc'[s] = "awake")
  BY <1>0, <1>10, <2>2 DEF Wake, Wakeup, Asleep
<2> QED
  BY <1>10, <2>1, <2>2 DEF Left
<1>11. ASSUME NEW p \in Proc, GateWake(p) PROVE Left(s)
<2>1. s = p => pc[s] = "gatewake"
  BY <1>11 DEF GateWake
<2>2. ASSUME s # p PROVE pc'[s] = pc[s] \/ (pc[s] = "asleep" /\ pc'[s] = "awake")
  BY <1>0, <1>11, <2>2 DEF GateWake, Wakeup, Asleep
<2> QED
  BY <1>11, <2>1, <2>2 DEF Left
<1>12. ASSUME \/ UNCHANGED vars \/ HangUp
             \/ \E m \in srv : Answer(m) \/ AnswerFlush(m) \/ IgnoreFlush(m)
      PROVE  Left(s)
<2>1. pc' = pc
  BY <1>12 DEF Answer, AnswerFlush, IgnoreFlush, HangUp, vars, local
<2> QED
  BY <2>1 DEF Left
<1> QED
  BY <1>1, <1>2, <1>3, <1>4, <1>5, <1>6, <1>7, <1>8, <1>9, <1>10, <1>11, <1>12 DEF Next,
     Step, Interrupt

\* Whom a process is about to wake stays the same until it does.
LEMMA HandKept ==
  ASSUME Struct, [Next]_vars, NEW s \in Proc, pc[s] \in {"wake", "gatewake"},
         ~ Wake(s), ~ GateWake(s)
  PROVE  pc'[s] = pc[s] /\ hand'[s] = hand[s]
<1>0. pc \in [Proc -> Place] /\ hand \in [Proc -> Rpc \cup {nil}]
  BY DEF Struct, TypeOK
<1>1. pc'[s] = pc[s]
  BY PcLeave DEF Left
<1>2. ASSUME NEW p \in Proc, MuxOther(p) \/ mntgate(p) \/ Wake(p) \/ GateWake(p)
      PROVE  hand'[s] = hand[s]
<2>1. p # s
  BY <1>0, <1>2 DEF MuxOther, mntgate, At
<2> QED
  BY <1>0, <1>2, <2>1 DEF MuxOther, mntgate, Wake, GateWake
<1>3. (\E p \in Proc : MuxOther(p) \/ mntgate(p) \/ Wake(p) \/ GateWake(p)) \/ hand' = hand
<2>1. ASSUME NEW p \in Proc, Call(p) \/ WriteDone(p) \/ WriteFails(p) \/ FlushTagged(p)
             \/ FlushDone(p) \/ FlushFails(p) \/ Gate(p)
      PROVE  hand' = hand
  BY <2>1, FlushFailsEnds DEF Call, WriteDone, WriteFails, FlushTagged, FlushDone, FlushEnds,
     Gate, local
<2>2. ASSUME NEW p \in Proc, Sleep(p) \/ Awake(p) \/ ReadDone(p) \/ ReadReply(p)
             \/ ReadEnds(p) \/ MuxNone(p) \/ MuxOwn(p)
      PROVE  hand' = hand
  BY <2>2 DEF Sleep, Awake, ReadDone, ReadReply, ReadEnds, MuxNone, MuxOwn, local
<2>3. ASSUME NEW p \in Proc, Fill(p) \/ Return(p) \/ WriteIntr(p) \/ FlushIntr(p)
             \/ SleepIntr(p) \/ ReadIntr(p)
      PROVE  hand' = hand
  BY <2>3 DEF Fill, Return, WriteIntr, FlushIntr, SleepIntr, ReadIntr, local
<2>4. ASSUME HangUp \/ UNCHANGED vars \/ \E m \in srv : Answer(m) \/ AnswerFlush(m) \/ IgnoreFlush(m)
      PROVE  hand' = hand
  BY <2>4 DEF HangUp, vars, Answer, AnswerFlush, IgnoreFlush, local
<2> QED
  BY <2>1, <2>2, <2>3, <2>4 DEF Next, Step, Interrupt
<1> QED
  BY <1>1, <1>2, <1>3

\* Whose calls become done in a step.
LEMMA DoneStep ==
  ASSUME Struct, [Next]_vars, NEW r \in Proc, rpc[r] # nil, ~ done[rpc[r]], done'[rpc[r]]
  PROVE  \/ FlushFails(r) \/ ReadEnds(r) \/ MuxOwn(r)
         \/ \E p \in Proc : Fill(p) /\ hand[p] = rpc[r]
<1>0. done \in [Rpc -> BOOLEAN] /\ rpc[r] \in Rpc
  BY DEF Struct, TypeOK
<1>1. ASSUME NEW p \in Proc, Call(p) PROVE FALSE
<2>1. p # r
  BY <1>1 DEF Call, At, Struct, Held
<2> QED
  BY <1>0, <1>1, <2>1, OthersRpc DEF Call
<1>2. ASSUME NEW p \in Proc, Return(p) PROVE FALSE
  BY <1>0, <1>2 DEF Return
<1>3. ASSUME NEW p \in Proc, FlushFails(p) \/ ReadEnds(p) \/ MuxOwn(p) PROVE p = r
<2> SUFFICES ASSUME p # r PROVE FALSE
  OBVIOUS
<2>1. rpc[p] # rpc[r]
  BY OthersRpc
<2> QED
  BY <1>0, <1>3, <2>1 DEF FlushFails, ReadEnds, MuxOwn, mntqrm
<1>4. ASSUME NEW p \in Proc, Fill(p) PROVE hand[p] = rpc[r]
  BY <1>0, <1>4 DEF Fill
<1> QED
  BY <1>1, <1>2, <1>3, <1>4, DoneFrame

\* Nobody sleeps on when its call is done.
LEMMA DoneWokenStep == Inv /\ Assumed /\ [Next]_vars => DoneWoken'
<1> SUFFICES ASSUME Inv, Assumed, [Next]_vars, NEW r \in Proc, pc'[r] = "asleep", done'[rpc'[r]]
             PROVE  \E q \in Proc : pc'[q] = "wake" /\ hand'[q] = rpc'[r]
  BY DEF DoneWoken
<1>0. Struct /\ DoneWoken
  BY DEF Inv, IInv
<1>1. pc[r] = "asleep" \/ Sleep(r)
  BY <1>0, PcStep DEF Moved
<1>2. rpc'[r] = rpc[r] /\ rpc[r] # nil
<2>1. pc[r] # "out" /\ pc[r] # "ret"
  BY <1>1 DEF Sleep, At
<2> QED
  BY <1>0, <2>1, RpcKept DEF Call, Return, At, Struct, Held
<1>3. ~ Sleep(r)
<2> SUFFICES ASSUME Sleep(r) PROVE FALSE
  OBVIOUS
<2>1. done' = done /\ pc' = [pc EXCEPT ![r] = IF rpcattn(rpc[r]) THEN "awake" ELSE "asleep"]
  BY DEF Sleep, At, mntrpc
<2>2. ~ rpcattn(rpc[r])
  BY <1>0, <2>1 DEF Struct, TypeOK
<2> QED
  BY <1>2, <2>1, <2>2 DEF rpcattn
<1>4. pc[r] = "asleep"
  BY <1>1, <1>3
<1>5. CASE done[rpc[r]]
<2>1. PICK q \in Proc : pc[q] = "wake" /\ hand[q] = rpc[r]
  BY <1>0, <1>4, <1>5 DEF DoneWoken
<2>2. ~ Wake(q)
<3> SUFFICES ASSUME Wake(q) PROVE FALSE
  OBVIOUS
<3>1. pc'[r] \in {"read", "awake"}
  BY <1>0, <1>4, <2>1 DEF Wake, Wakeup, Asleep, Struct, TypeOK
<3> QED
  BY <3>1
<2>3. ~ GateWake(q)
  BY <2>1 DEF GateWake
<2> QED
  BY <1>0, <1>2, <2>1, <2>2, <2>3, HandKept
<1>6. CASE ~ done[rpc[r]]
<2>1. ~ FlushFails(r) /\ ~ ReadEnds(r) /\ ~ MuxOwn(r)
  BY <1>4 DEF FlushFails, ReadEnds, MuxOwn, At
<2>2. PICK p \in Proc : Fill(p) /\ hand[p] = rpc[r]
  BY <1>0, <1>2, <1>6, <2>1, DoneStep
<2>3. pc'[p] = "wake" /\ hand' = hand
  BY <1>0, <2>2 DEF Fill, At, Struct, TypeOK
<2> QED
  BY <1>2, <2>2, <2>3
<1> QED
  BY <1>5, <1>6

\* A waiter whose flush fails leaves, and unless that is recorded somebody else comes.
LEMMA FlushFailsMover ==
  ASSUME Struct, NEW s \in Proc, FlushFails(s), rip = nil, nintr > 0, fault' = {},
         NEW r \in Proc, pc'[r] = "asleep"
  PROVE  \E p \in Proc : Mover(p)'
<1>t. /\ pc \in [Proc -> Place] /\ rpc \in [Proc -> Rpc \cup {nil}] /\ done \in [Rpc -> BOOLEAN]
      /\ nil \notin Rpc /\ nil \notin Proc
  BY TagFacts, MountAssumption DEF Struct, TypeOK
<1>a. /\ pc' = [pc EXCEPT ![s] = "ret"] /\ rpc' = rpc /\ hand' = hand
      /\ done' = [done EXCEPT ![rpc[s]] = TRUE] /\ pc[s] = "flushw"
      /\ nintr' = nintr \/ nintr' = nintr + 1
  BY <1>t, FlushFailsEnds DEF FlushEnds, At, mntqrm, Interrupted
<1>1. /\ pc' = [pc EXCEPT ![s] = "ret"] /\ rpc' = rpc /\ hand' = hand /\ nintr' > 0
      /\ done' = [done EXCEPT ![rpc[s]] = TRUE] /\ pc[s] = "flushw"
  BY <1>a, MountAssumption DEF Struct, TypeOK
<1>2. pc[r] = "asleep" /\ \A p \in Proc : p # s => pc'[p] = pc[p]
  BY <1>t, <1>1
<1>3. PICK q \in Proc : q # s /\ Coming(q)
  BY <1>2 DEF FlushFails, Record
<1>4. pc'[q] = pc[q] /\ rpc'[q] = rpc[q] /\ hand'[q] = hand[q]
  BY <1>1, <1>2, <1>3
<1>5. CASE pc[q] \in {"gate", "flush", "flushw"}
  BY <1>1, <1>4, <1>5 DEF Mover, FlushPlaces
<1>6. CASE pc[q] \in {"sleep", "awake"} /\ ~ done[rpc[q]]
<2>1. rpc[q] # nil /\ rpc[s] # nil
  BY <1>1, <1>6 DEF Struct, Held
<2>2. rpc[s] # rpc[q] /\ rpc[q] \in Rpc
  BY <1>3, <2>1, OthersRpc
<2>3. ~ done'[rpc'[q]]
  BY <1>1, <1>4, <1>6, <1>t, <2>2
<2> QED
  BY <1>4, <1>6, <2>3 DEF Mover
<1>7. CASE pc[q] = "gatewake" /\ \E p \in Proc : pc[p] = "asleep" /\ rpc[p] = hand[q]
<2>1. PICK p \in Proc : pc[p] = "asleep" /\ rpc[p] = hand[q]
  BY <1>7
<2>2. p # s
  BY <1>1, <2>1
<2>3. pc'[p] = "asleep" /\ rpc'[p] = hand'[q]
  BY <1>1, <1>2, <1>4, <2>1, <2>2
<2> QED
  BY <1>4, <1>7, <2>3 DEF Mover
<1> QED
  BY <1>3, <1>5, <1>6, <1>7 DEF Coming

\* The role of the reader is not dropped while somebody sleeps, as long as no fault is
\* recorded.
LEMMA SomeMoverStep == Inv /\ Assumed /\ [Next]_vars => SomeMover'
<1> SUFFICES ASSUME Inv, Assumed, [Next]_vars, fault' = {}, rip' = nil,
                    NEW r \in Proc, pc'[r] = "asleep"
             PROVE  \E p \in Proc : Mover(p)'
  BY DEF SomeMover
<1>0. Struct /\ DoneWoken /\ SomeMover /\ Linked /\ fault = {}
  BY FaultGrows DEF Inv, IInv
<1>t. /\ pc \in [Proc -> Place] /\ rpc \in [Proc -> Rpc \cup {nil}] /\ done \in [Rpc -> BOOLEAN]
      /\ hand \in [Proc -> Rpc \cup {nil}] /\ nil \notin Rpc /\ nil \notin Proc
  BY <1>0, TagFacts, MountAssumption DEF Struct, TypeOK
<1>h. \A p \in Proc : pc[p] # "out" => rpc[p] \in Rpc
  BY <1>0, <1>t DEF Struct, Held
<1>n. nintr \in Nat /\ nintr' \in Nat /\ nintr' >= nintr
  BY <1>0, IntrFrame
<1>g. ASSUME NEW p \in Proc PROVE ~ (Gate(p) /\ rip = nil)
  BY <1>t DEF Gate
<1>1. CASE \E p \in Proc : mntgate(p)
<2>1. PICK p \in Proc : mntgate(p)
  BY <1>1
<2>2. pc[p] = "mntgate" /\ rip = p /\ done' = done /\ rpc' = rpc
  BY <1>0, <2>1 DEF mntgate, At, Struct, OneReader, ReadPlaces, mntrpc
<2>3. pc[r] = "asleep" /\ \A s \in Proc : s # p => pc'[s] = pc[s]
  BY <1>t, <2>1 DEF mntgate, At
<2>4. rpc[r] \in Rpc /\ ~ done[rpc[r]]
<3>1. ~ \E q \in Proc : pc[q] = "wake"
  BY <1>0, <2>2 DEF Struct, OneReader, ReadPlaces
<3> QED
  BY <1>0, <1>h, <2>3, <3>1 DEF DoneWoken
<2>5. ~ \E q \in Proc : pc[q] = "fill"
  BY <1>0, <2>2 DEF Struct, OneReader, ReadPlaces
<2>6. Has(queue, rpc[r])
  BY <1>0, <1>t, <2>4, <2>5 DEF Linked
<2>7. Sleepers # {}
  BY <2>3, <2>4, <2>6 DEF Has, Sleepers, Asleep
<2>8. PICK i \in 1..Len(queue) :
        IsFirst(i, Sleepers) /\ At(p, "mntgate", "gatewake") /\ hand' = [hand EXCEPT ![p] = queue[i]]
  BY <2>1, <2>7 DEF mntgate
<2>9. PICK s \in Proc : pc[s] = "asleep" /\ rpc[s] = queue[i]
  BY <2>8 DEF IsFirst, Sleepers, Asleep
<2>10. pc'[s] = "asleep" /\ pc'[p] = "gatewake" /\ hand'[p] = rpc'[s]
  BY <1>t, <2>2, <2>3, <2>8, <2>9 DEF At
<2> QED
  BY <2>10 DEF Mover
<1>2. CASE \A p \in Proc : ~ mntgate(p)
<2>1. rip = nil
<3>1. (\E p \in Proc : Gate(p)) \/ rip' = rip
<4>1. ASSUME NEW p \in Proc, Call(p) \/ WriteDone(p) \/ WriteFails(p) \/ FlushTagged(p)
             \/ FlushDone(p) \/ FlushFails(p) \/ Sleep(p) \/ Awake(p)
      PROVE  rip' = rip
  BY <4>1, FlushFailsEnds DEF Call, WriteDone, WriteFails, FlushTagged, FlushDone, FlushEnds,
     Sleep, Awake, mnt
<4>2. ASSUME NEW p \in Proc, ReadDone(p) \/ ReadReply(p) \/ ReadEnds(p) \/ MuxNone(p)
             \/ MuxOwn(p) \/ MuxOther(p) \/ Fill(p) \/ Wake(p)
      PROVE  rip' = rip
  BY <4>2 DEF ReadDone, ReadReply, ReadEnds, MuxNone, MuxOwn, MuxOther, Fill, Wake, mnt
<4>3. ASSUME NEW p \in Proc, GateWake(p) \/ Return(p) \/ WriteIntr(p) \/ FlushIntr(p)
             \/ SleepIntr(p) \/ ReadIntr(p)
      PROVE  rip' = rip
  BY <4>3 DEF GateWake, Return, WriteIntr, FlushIntr, SleepIntr, ReadIntr, mnt
<4>4. ASSUME HangUp \/ UNCHANGED vars \/ \E m \in srv : Answer(m) \/ AnswerFlush(m) \/ IgnoreFlush(m)
      PROVE  rip' = rip
  BY <4>4 DEF HangUp, vars, Answer, AnswerFlush, IgnoreFlush, mnt, local
<4> QED
  BY <1>2, <4>1, <4>2, <4>3, <4>4 DEF Next, Step, Interrupt
<3>2. ASSUME NEW p \in Proc, Gate(p) PROVE rip = nil
  BY <1>t, <3>2 DEF Gate
<3> QED
  BY <3>1, <3>2
<2>2. ASSUME NEW p \in Proc, pc[p] = "asleep" PROVE ~ done[rpc[p]] /\ rpc[p] \in Rpc
<3>1. ~ \E q \in Proc : pc[q] = "wake"
  BY <1>0, <1>t, <2>1 DEF Struct, OneReader, ReadPlaces
<3> QED
  BY <1>0, <1>h, <2>2, <3>1 DEF DoneWoken
<2>3. ASSUME NEW p \in Proc, ~ done[rpc[p]], rpc[p] \in Rpc, pc[p] # "flushw"
      PROVE  ~ done'[rpc[p]]
<3>1. ~ FlushFails(p)
  BY <2>3 DEF FlushFails, At
<3>2. ASSUME NEW q \in Proc PROVE ~ ReadEnds(q) /\ ~ MuxOwn(q) /\ ~ Fill(q)
<4>1. pc[q] \notin {"read", "mux", "fill"}
  BY <1>0, <1>t, <2>1 DEF Struct, OneReader, ReadPlaces
<4> QED
  BY <4>1 DEF ReadEnds, MuxOwn, Fill, At
<3> QED
  BY <1>0, <1>t, <2>3, <3>1, <3>2, DoneStep
<2>4. ASSUME NEW p \in Proc, pc[p] \notin {"out", "ret"} PROVE rpc'[p] = rpc[p] /\ rpc[p] \in Rpc
  BY <1>0, <1>h, <2>4, RpcKept DEF Call, Return, At
<2>5. pc[r] = "asleep"
<3>1. ~ Sleep(r)
<4> SUFFICES ASSUME Sleep(r) PROVE FALSE
  OBVIOUS
<4>1. pc'[r] = "awake"
  BY <1>t, <2>1 DEF Sleep, At, rpcattn
<4> QED
  BY <4>1
<3> QED
  BY <1>0, <3>1, PcStep DEF Moved
<2>6. PICK s \in Proc : Mover(s)
  BY <1>0, <2>1, <2>5 DEF SomeMover
<2>7. ASSUME pc[s] = "gate" PROVE Mover(s)'
<3>1. pc'[s] = "gate"
  BY <1>0, <1>g, <2>1, <2>7, PcLeave DEF Left
<3> QED
  BY <3>1 DEF Mover
<2>8. ASSUME pc[s] \in {"sleep", "awake"}, ~ done[rpc[s]] PROVE Mover(s)'
<3>1. rpc'[s] = rpc[s] /\ ~ done'[rpc[s]]
  BY <2>3, <2>4, <2>8
<3>2. ASSUME Sleep(s) PROVE pc'[s] = "awake"
  BY <1>t, <2>1, <3>2 DEF Sleep, At, rpcattn
<3>3. ASSUME Awake(s) PROVE pc'[s] = "gate"
  BY <1>t, <2>8, <3>3 DEF Awake, At
<3>4. pc'[s] \in {"sleep", "awake", "gate"}
  BY <1>0, <2>8, <3>2, <3>3, PcLeave DEF Left
<3> QED
  BY <3>1, <3>4 DEF Mover
<2>9. ASSUME pc[s] \in FlushPlaces, nintr > 0 PROVE \E p \in Proc : Mover(p)'
<3>1. nintr' > 0
  BY <1>n, <2>9
<3>2. ASSUME FlushTagged(s) PROVE pc'[s] = "flushw"
  BY <1>t, <3>2 DEF FlushTagged, At
<3>3. ASSUME FlushDone(s) \/ FlushIntr(s) PROVE pc'[s] = "gate"
  BY <1>t, <2>1, <3>3 DEF FlushDone, FlushIntr, Resume, At
<3>4. CASE FlushFails(s)
  BY <1>0, <2>1, <2>9, <3>4, FlushFailsMover
<3>5. CASE ~ FlushFails(s)
<4>1. pc'[s] \in {"flush", "flushw", "gate"}
  BY <1>0, <2>9, <3>2, <3>3, <3>5, PcLeave DEF Left, FlushPlaces
<4> QED
  BY <3>1, <4>1 DEF Mover, FlushPlaces
<3> QED
  BY <3>4, <3>5
<2>10. ASSUME pc[s] = "gatewake", NEW q \in Proc, pc[q] = "asleep", rpc[q] = hand[s]
       PROVE  \E p \in Proc : Mover(p)'
<3>1. rpc'[q] = rpc[q] /\ ~ done'[rpc[q]]
  BY <2>2, <2>3, <2>4, <2>10
<3>2. CASE pc'[q] = "awake"
  BY <3>1, <3>2 DEF Mover
<3>3. CASE SleepIntr(q)
<4>1. pc'[q] = "flush" /\ nintr' > 0
  BY <1>n, <1>t, <3>3 DEF SleepIntr, At, Interrupted
<4> QED
  BY <4>1 DEF Mover, FlushPlaces
<3>4. CASE pc'[q] = "asleep"
<4>1. ~ GateWake(s)
<5> SUFFICES ASSUME GateWake(s) PROVE FALSE
  OBVIOUS
<5>1. pc'[q] \in {"ret", "awake"}
  BY <1>t, <2>10 DEF GateWake, Wakeup, Asleep
<5> QED
  BY <3>4, <5>1
<4>2. ~ Wake(s)
  BY <2>10 DEF Wake
<4>3. pc'[s] = "gatewake" /\ hand'[s] = hand[s]
  BY <1>0, <2>10, <4>1, <4>2, HandKept
<4> QED
  BY <2>10, <3>1, <3>4, <4>3 DEF Mover
<3> QED
  BY <1>0, <2>10, <3>2, <3>3, <3>4, PcLeave DEF Left
<2> QED
  BY <2>6, <2>7, <2>8, <2>9, <2>10 DEF Mover
<1> QED
  BY <1>1, <1>2

\* A message on its way stays so until it is read and muxed, or a flush makes the server
\* drop it, or is not answered.
LEMMA PendingLost ==
  ASSUME Struct, [Next]_vars, NEW m, Pending(m), ~ Pending(m)', ~ hungup'
  PROVE  \/ \E f \in srv : AnswerFlush(f) /\ Plain(m) /\ m.call = f.call
         \/ \E f \in srv : IgnoreFlush(f) /\ m = f
         \/ \E r \in Proc : (MuxNone(r) \/ MuxOwn(r) \/ MuxOther(r)) /\ Muxing(r) /\ Got(r) = m
<1>t. stream \in Seq(Message) /\ srv \subseteq Message
  BY DEF Struct, TypeOK
<1>0. m \notin srv' /\ ~ InStream(m)' /\ ~ InMux(m)'
  BY DEF Pending
<1>a. ASSUME NEW k \in srv, Answer(k) \/ AnswerFlush(k)
      PROVE  /\ stream' = Append(stream, k) /\ InStream(k)'
             /\ \A i \in 1..Len(stream) : InStream(stream[i])'
<2>1. stream' = Append(stream, k) /\ k \in Message
  BY <1>a, <1>t DEF Answer, AnswerFlush
<2>2. Len(stream') = Len(stream) + 1 /\ Len(stream) \in Nat
  BY <1>t, <2>1, ListAppend
<2>3. stream'[Len(stream) + 1] = k /\ \A i \in 1..Len(stream) : stream'[i] = stream[i]
  BY <1>t, <2>1, ListAppend
<2>4. Len(stream) + 1 \in 1..Len(stream') /\ \A i \in 1..Len(stream) : i \in 1..Len(stream')
  BY <2>2
<2> QED
  BY <2>1, <2>3, <2>4 DEF InStream
<1>1. CASE m \in srv
<2>1. ASSUME NEW p \in Proc, WriteDone(p) \/ WriteIntr(p) \/ FlushDone(p) \/ FlushIntr(p) \/ ReadReply(p)
      PROVE  srv \subseteq srv'
  BY <2>1 DEF WriteDone, WriteIntr, FlushDone, FlushIntr, ReadReply, Sent
<2>2. ~ HangUp
  BY DEF HangUp
<2>3. ASSUME NEW k \in srv, Answer(k) PROVE FALSE
<3>1. srv' = srv \ {k}
  BY <2>3 DEF Answer
<3> QED
  BY <1>0, <1>1, <1>a, <2>3, <3>1
<2>4. ASSUME NEW k \in srv, AnswerFlush(k) PROVE Plain(m) /\ m.call = k.call
<3>1. srv' = {n \in srv \ {k} : Plain(n) => n.call # k.call}
  BY <2>4 DEF AnswerFlush, Plain
<3> QED
  BY <1>0, <1>1, <1>a, <2>4, <3>1
<2>5. ASSUME NEW k \in srv, IgnoreFlush(k) PROVE m = k
  BY <1>0, <1>1, <2>5 DEF IgnoreFlush
<2> QED
  BY <1>0, <1>1, <2>1, <2>2, <2>3, <2>4, <2>5, ConnFrame
<1>2. CASE InStream(m)
<2>1. PICK i \in 1..Len(stream) : stream[i] = m
  BY <1>2 DEF InStream
<2>2. ASSUME NEW k \in srv, Answer(k) \/ AnswerFlush(k) PROVE FALSE
  BY <1>0, <1>a, <2>1, <2>2
<2>3. ASSUME NEW p \in Proc, ReadReply(p) PROVE FALSE
<3>1. /\ pc' = [pc EXCEPT ![p] = "mux"] /\ stream # <<>> /\ stream' = Tail(stream)
      /\ reply' = [reply EXCEPT ![rpc[p]] = Head(stream)] /\ rpc' = rpc /\ pc[p] = "read"
  BY <2>3 DEF ReadReply, At
<3>2. rpc[p] \in Rpc
  BY <3>1 DEF Struct, Held, TypeOK
<3>3. pc'[p] = "mux" /\ reply'[rpc'[p]] = Head(stream)
  BY <3>1, <3>2 DEF Struct, TypeOK
<3>4. CASE i = 1
<4>1. Got(p)' = m /\ Muxing(p)'
  BY <1>t, <2>1, <3>1, <3>3, <3>4, StreamHead DEF Got, Muxing
<4> QED
  BY <1>0, <4>1 DEF InMux
<3>5. CASE i # 1
<4>1. /\ Len(Tail(stream)) = Len(stream) - 1 /\ Len(stream) \in Nat
      /\ \A j \in 1..(Len(stream) - 1) : Tail(stream)[j] = stream[j + 1]
  BY <1>t, <3>1, ListTail
<4>2. i - 1 \in 1..(Len(stream) - 1) /\ (i - 1) + 1 = i
  BY <3>5, <4>1
<4>3. stream'[i - 1] = m
  BY <2>1, <3>1, <4>1, <4>2
<4> QED
  BY <1>0, <3>1, <4>1, <4>2, <4>3 DEF InStream
<3> QED
  BY <3>4, <3>5
<2>4. stream' # stream
  BY <1>0, <1>2 DEF InStream
<2> QED
  BY <2>2, <2>3, <2>4, ConnFrame DEF WriteDone, WriteIntr, FlushDone, FlushIntr, IgnoreFlush,
     HangUp
<1>3. CASE InMux(m)
<2>1. PICK q \in Proc : Muxing(q) /\ Got(q) = m
  BY <1>3 DEF InMux
<2>2. pc'[q] # "mux"
<3> SUFFICES ASSUME pc'[q] = "mux" PROVE FALSE
  OBVIOUS
<3>1. Got(q)' = m /\ Muxing(q)'
  BY <2>1, GotKept DEF Muxing
<3> QED
  BY <1>0, <3>1 DEF InMux
<2>3. pc[q] = "mux"
  BY <2>1 DEF Muxing
<2>4. MuxNone(q) \/ MuxOwn(q) \/ MuxOther(q)
  BY <2>2, <2>3, PcLeave DEF Left
<2> QED
  BY <2>1, <2>4
<1> QED
  BY <1>1, <1>2, <1>3 DEF Pending

\* The answer that a call waits for is not lost, but a server may not answer its flush.
LEMMA AnswerKept ==
  ASSUME Inv, [Next]_vars, ~ hungup', NEW p \in Proc, rpc[p] # nil,
         Has(queue, rpc[p]), Has(queue', rpc[p]),
         NEW m, Pending(m), Awaits(p, m)
  PROVE  Pending(m)' \/ p \in quiet'
<1>0. Struct /\ Linked /\ Ended /\ Messages /\ ~ hungup
  BY HungFrame DEF Inv, IInv
<1>1. rpc[p] \in Rpc /\ call[p] # 0 /\ m.call = call[p] /\ queue \in Seq(Rpc)
  BY <1>0, OwnerFacts DEF Awaits, Struct, TypeOK
<1>2. Good(m)
  BY <1>0, PendingGood
<1>a. ~ done[rpc[p]] /\ ~ failed[p]
  BY <1>0, <1>1 DEF Linked, Ended
<1>3. ASSUME NEW f \in srv, AnswerFlush(f), Plain(m), m.call = f.call PROVE FALSE
<2>1. ~ Plain(f)
  BY <1>3 DEF Plain, AnswerFlush
<2>2. FlushOf(f)
  BY <1>0, <2>1 DEF Messages, Good
<2>3. flushed[rpc[p]]
  BY <1>1, <1>3, <1>a, <2>2 DEF FlushOf
<2> QED
  BY <1>3, <2>3 DEF Awaits
<1>4. Fits(rpc[p], m.tag)
<2>1. CASE flushed[rpc[p]]
  BY <2>1 DEF Awaits, Fits
<2>2. CASE ~ flushed[rpc[p]]
<3>0. PlainOf(m)
  BY <1>1, <1>2, <2>2 DEF Awaits, Good, Orphan, OfCall
<3>1. PICK s \in Proc : rpc[s] = m.tag /\ call[s] = m.call
  BY <3>0 DEF PlainOf
<3>2. s = p
  BY <1>0, <1>1, <3>1, OwnerFacts
<3> QED
  BY <3>1, <3>2 DEF Fits
<2> QED
  BY <2>1, <2>2
<1>5. ASSUME NEW r \in Proc, MuxNone(r), Got(r) = m PROVE FALSE
<2>1. Fitting(m.tag) = {}
  BY <1>5 DEF MuxNone, Got
<2> QED
  BY <1>4, <2>1 DEF Fitting, Has
<1>6. ASSUME NEW r \in Proc, MuxOwn(r) \/ MuxOther(r), Got(r) = m PROVE FALSE
<2>1. PICK i \in 1..Len(queue) :
        IsFirst(i, Fitting(reply[rpc[r]].tag)) /\ queue' = Unlinked(queue, queue[i])
  BY <1>6 DEF MuxOwn, MuxOther
<2>2. Muxing(r) /\ Has(queue, queue[i]) /\ Fits(queue[i], Got(r).tag)
  BY <1>6, <2>1 DEF MuxOwn, MuxOther, At, Muxing, Has, IsFirst, Fitting, Got
<2>3. PICK s \in Proc : rpc[s] = queue[i] /\ call[s] = m.call
  BY <1>6, <2>2, MuxRight
<2>4. s = p
  BY <1>0, <1>1, <2>3, OwnerFacts
<2>5. ~ Has(queue', rpc[p])
  BY <1>0, <1>1, <2>1, <2>3, <2>4, ListRemove DEF Linked
<2> QED
  BY <2>5
<1>7. ASSUME IgnoreFlush(m) PROVE p \in quiet'
<2>1. ~ Plain(m)
  BY <1>7 DEF IgnoreFlush, Plain
<2> QED
  BY <1>7, <2>1 DEF IgnoreFlush, Awaits
<1> QED
  BY <1>0, <1>3, <1>5, <1>6, <1>7, PendingLost

\* Whoever has sent what it has to send has an answer on its way.
LEMMA AnswerComesStep == Inv /\ Assumed /\ [Next]_vars => AnswerComes'
<1> SUFFICES ASSUME Inv, Assumed, [Next]_vars, ~ hungup', NEW p \in Proc,
                    Has(queue', rpc'[p]), pc'[p] \notin {"write", "flush", "flushw"}
             PROVE  p \in quiet' \/ \E m : Pending(m)' /\ Awaits(p, m)'
  BY DEF AnswerComes, Pending, InStream, InMux
<1>0. Struct /\ Linked /\ Messages /\ Ended /\ AnswerComes
  BY DEF Inv, IInv
<1>t. /\ pc \in [Proc -> Place] /\ rpc \in [Proc -> Rpc \cup {nil}] /\ failed \in [Proc -> BOOLEAN]
      /\ done \in [Rpc -> BOOLEAN] /\ flushed \in [Rpc -> BOOLEAN] /\ mflush \in FlushTag
      /\ ftag \in [Rpc -> FlushTag \cup {0}] /\ hand \in [Proc -> Rpc \cup {nil}] /\ nil \notin Rpc
      /\ reply \in [Rpc -> Message] /\ call \in [Proc -> 0..MaxCall]
  BY <1>0, TagFacts DEF Struct, TypeOK
<1>1. ~ hungup
  BY ConnFrame DEF WriteDone, WriteIntr, FlushDone, FlushIntr, ReadReply, Answer, AnswerFlush, IgnoreFlush, HangUp
<1>2. rpc'[p] \in Rpc /\ rpc'[p] # nil
<2>1. queue' \in Seq(Rpc)
  BY <1>0, StructStep DEF Struct, TypeOK
<2> QED
  BY <1>t, <2>1 DEF Has
<1>3. rpc'[p] = rpc[p] /\ call'[p] = call[p] /\ ~ Call(p) /\ ~ Return(p)
<2>1. ~ Call(p)
  BY <1>t DEF Call, At
<2> QED
  BY <1>0, <1>2, <2>1, RpcKept
<1>4. Has(queue, rpc[p])
<2>1. queue \in Seq(Rpc) /\ NoDup(queue)
  BY <1>0 DEF Struct, TypeOK, Linked
<2>2. ASSUME NEW x, queue' = Unlinked(queue, x) PROVE Has(queue, rpc[p])
  BY <1>3, <2>1, <2>2, ListRemove
<2>3. ASSUME NEW q \in Proc, Call(q) PROVE Has(queue, rpc[p])
<3>1. q # p
  BY <1>3, <2>3
<3>2. Head(rpcfree) # rpc[p] /\ Head(rpcfree) \in Rpc
  BY <1>0, <1>2, <1>3, <2>3, <3>1, OthersRpc
<3>3. queue' = <<Head(rpcfree)>> \o queue
  BY <2>3 DEF Call
<3> QED
  BY <1>3, <2>1, <3>2, <3>3, ListPush
<2>4. ASSUME NEW q \in Proc, FlushFails(q) \/ ReadEnds(q) \/ MuxOwn(q)
      PROVE  queue' = Unlinked(queue, rpc[q])
  BY <2>4 DEF FlushFails, ReadEnds, MuxOwn, mntqrm
<2>5. ASSUME NEW q \in Proc, MuxOther(q) PROVE \E x : queue' = Unlinked(queue, x)
  BY <2>5 DEF MuxOther
<2> QED
  BY <1>3, <2>2, <2>3, <2>4, <2>5, QueueFrame
<1>a. ~ FlushFails(p)
<2> SUFFICES ASSUME FlushFails(p) PROVE FALSE
  OBVIOUS
<2>1. queue' = Unlinked(queue, rpc[p])
  BY FlushFailsEnds DEF FlushEnds, mntqrm
<2>2. ~ Has(queue', rpc[p])
  BY <1>0, <1>2, <1>3, <2>1, ListRemove DEF Linked, Struct, TypeOK
<2> QED
  BY <1>3, <2>2
<1>5. flushed'[rpc[p]] = flushed[rpc[p]] /\ ftag'[rpc[p]] = ftag[rpc[p]]
<2>1. ~ FlushTagged(p)
  BY <1>t DEF FlushTagged, At
<2>2. ASSUME NEW q \in Proc, Call(q) \/ Return(q) \/ FlushTagged(q)
      PROVE  flushed'[rpc[p]] = flushed[rpc[p]] /\ ftag'[rpc[p]] = ftag[rpc[p]]
<3>1. p # q
  BY <1>3, <2>1, <2>2
<3>2. rpc[q] # rpc[p] /\ (Call(q) => Head(rpcfree) # rpc[p])
  BY <1>0, <1>2, <1>3, <3>1, OthersRpc
<3> QED
  BY <1>t, <1>2, <1>3, <2>2, <3>2 DEF Call, Return, FlushTagged
<2>3. ASSUME NEW q \in Proc PROVE ~ ReadEnds(q)
  BY <1>1 DEF ReadEnds
<2>4. ASSUME NEW q \in Proc, FlushFails(q)
      PROVE  flushed'[rpc[p]] = flushed[rpc[p]] /\ ftag'[rpc[p]] = ftag[rpc[p]]
<3>1. flushed' = [flushed EXCEPT ![rpc[q]] = FALSE] /\ ftag' = ftag
  BY <2>4, FlushFailsEnds DEF FlushEnds, mntqrm
<3>2. rpc[q] # rpc[p]
  BY <1>0, <1>2, <1>3, <1>a, <2>4, OthersRpc
<3> QED
  BY <1>t, <1>2, <1>3, <3>1, <3>2
<2> QED
  BY <2>2, <2>3, <2>4, FlushFrame
<1>6. CASE WriteDone(p)
<2>0. PICK m : m = Request(rpc[p], call[p])
  OBVIOUS
<2>1. m \in srv' /\ pc[p] = "write"
  BY <2>0, <1>1, <1>6 DEF WriteDone, Sent, At
<2>2. ~ flushed[rpc[p]]
  BY <1>0, <2>1 DEF Ended
<2>3. Awaits(p, m)'
  BY <1>3, <1>5, <2>0, <2>2 DEF Awaits, Plain, Request
<2> QED
  BY <2>1, <2>3 DEF Pending
<1>7. CASE FlushDone(p) \/ FlushIntr(p)
<2>0. PICK m : m = Tflush(ftag[rpc[p]], rpc[p], call[p])
  OBVIOUS
<2>1. (m \in srv' \/ p \in quiet') /\ pc[p] = "flushw"
  BY <2>0, <1>0, <1>1, <1>7 DEF FlushDone, FlushIntr, Sent, At, Resume
<2>2. flushed[rpc[p]]
  BY <1>0, <2>1 DEF Ended
<2>3. Awaits(p, m)'
  BY <1>2, <1>3, <1>5, <2>0, <2>2 DEF Awaits, Plain, Tflush
<2> QED
  BY <2>1, <2>3 DEF Pending
<1>8. CASE ~ WriteDone(p) /\ ~ FlushDone(p) /\ ~ FlushIntr(p)
<2>1. ~ WriteIntr(p) /\ ~ WriteFails(p) /\ ~ FlushTagged(p) /\ ~ FlushFails(p)
  BY <1>t, <1>1, <1>a DEF WriteIntr, WriteFails, FlushTagged, At
<2>2. pc[p] \notin {"write", "flush", "flushw"}
  BY <1>0, <1>8, <2>1, PcLeave DEF Left
<2>3. p \in quiet \/ \E m : Pending(m) /\ Awaits(p, m)
  BY <1>0, <1>1, <1>4, <2>2 DEF AnswerComes, Pending, InStream, InMux
<2>4. ASSUME NEW m, Pending(m), Awaits(p, m) PROVE p \in quiet' \/ (Pending(m)' /\ Awaits(p, m)')
<3>1. Awaits(p, m)'
  BY <1>3, <1>5, <2>4 DEF Awaits, Plain
<3>2. Pending(m)' \/ p \in quiet'
  BY <1>2, <1>3, <1>4, <2>4, AnswerKept
<3> QED
  BY <3>1, <3>2
<2>5. ASSUME p \in quiet PROVE p \in quiet'
<3>1. ASSUME NEW q \in Proc, FlushTagged(q) \/ FlushIntr(q) \/ Return(q) PROVE p \in quiet'
<4>1. FlushTagged(q) \/ Return(q) => q # p
  BY <1>3, <2>1
<4> QED
  BY <2>5, <3>1, <4>1 DEF FlushTagged, FlushIntr, Return
<3>2. ASSUME NEW m \in srv, IgnoreFlush(m) PROVE p \in quiet'
  BY <2>5, <3>2 DEF IgnoreFlush
<3> QED
  BY <2>5, <3>1, <3>2, QuietFrame
<2> QED
  BY <2>3, <2>4, <2>5
<1> QED
  BY <1>6, <1>7, <1>8

-----------------------------------------------------------------------------
(***************************************************************************)
(* Flush tags.  As long as there are no more interrupts than flush tags,   *)
(* m->flushtag has not come round to a tag in use by the time it is taken: *)
(* the tags given out and the processes about to take one are no more than *)
(* the interrupts.                                                         *)
(***************************************************************************)
Flushing == {p \in Proc : pc[p] = "flush"}
Below ==
  /\ \A m \in srv : m.tag < mflush
  /\ \A i \in 1..Len(stream) : stream[i].tag < mflush
  /\ \A x \in Rpc : ftag[x] < mflush /\ reply[x].tag < mflush
Counted ==
  ~ hungup /\ nintr <= NFlush =>
    \/ Cardinality(Flushing) + mflush <= nintr + Tagfls /\ Below
    \/ Flushing = {} /\ nintr = NFlush

\* The tags in use stay below the next one.
LEMMA BelowStep ==
  ASSUME Struct, Below, [Next]_vars,
         \/ mflush' = mflush /\ \A p \in Proc : ~ FlushTagged(p)
         \/ mflush' = mflush + 1
  PROVE  Below'
<1>t. /\ srv \subseteq Message /\ stream \in Seq(Message) /\ rpc \in [Proc -> Rpc \cup {nil}]
      /\ ftag \in [Rpc -> FlushTag \cup {0}] /\ reply \in [Rpc -> Message]
      /\ hand \in [Proc -> Rpc \cup {nil}] /\ pc \in [Proc -> Place] /\ mflush \in FlushTag
  BY DEF Struct, TypeOK
<1>n. /\ mflush \in Nat /\ 0 < mflush /\ mflush' \in Nat /\ mflush <= mflush'
      /\ \A x \in Rpc : x \in Nat /\ x < mflush
      /\ \A x \in Rpc : ftag[x] \in Nat
<2>1. NRpc \in Nat /\ mflush \in Nat /\ mflush >= NRpc + 1
  BY <1>t, TagFacts DEF FlushTag, Tagfls
<2>2. FlushTag \cup {0} \subseteq Nat
  BY TagFacts
<2>3. \A x \in Rpc : ftag[x] \in Nat
  BY <1>t, <2>2
<2>4. mflush' = mflush \/ mflush' = mflush + 1
  OBVIOUS
<2> QED
  BY <2>1, <2>3, <2>4 DEF Rpc
<1>m. ASSUME NEW t \in Nat, t < mflush PROVE t < mflush'
  BY <1>m, <1>n
<1>g. ASSUME NEW m \in Message PROVE m.tag \in Nat
<2>1. m.tag \in 0..Tagend
  BY DEF Message
<2> QED
  BY <2>1
<1>h. \A p \in Proc : pc[p] # "out" => rpc[p] \in Rpc
  BY <1>t DEF Struct, Held
<1>1. ASSUME NEW m \in srv' PROVE m.tag < mflush'
<2>1. CASE m \in srv
  BY <1>g, <1>m, <1>t, <2>1 DEF Below
<2>2. ASSUME NEW p \in Proc, WriteDone(p) \/ WriteIntr(p), m = Request(rpc[p], call[p])
      PROVE  m.tag < mflush'
<3>1. pc[p] = "write" /\ m.tag = rpc[p]
  BY <2>2 DEF WriteDone, WriteIntr, At, Request
<3> QED
  BY <1>h, <1>m, <1>n, <3>1
<2>3. ASSUME NEW p \in Proc, FlushDone(p) \/ FlushIntr(p), m = Tflush(ftag[rpc[p]], rpc[p], call[p])
      PROVE  m.tag < mflush'
<3>1. pc[p] = "flushw" /\ m.tag = ftag[rpc[p]]
  BY <2>3 DEF FlushDone, FlushIntr, Resume, At, Tflush
<3> QED
  BY <1>h, <1>m, <1>n, <3>1 DEF Below
<2> QED
  BY <2>1, <2>2, <2>3, PendingStep DEF Written, FlushSent
<1>2. ASSUME NEW i \in 1..Len(stream') PROVE stream'[i].tag < mflush'
<2>1. InStream(stream'[i]) \/ stream'[i] \in srv
  BY PendingStep
<2>2. CASE stream'[i] \in srv
  BY <1>g, <1>m, <1>t, <2>2 DEF Below
<2>3. CASE InStream(stream'[i])
<3>1. PICK j \in 1..Len(stream) : stream[j] = stream'[i]
  BY <2>3 DEF InStream
<3>2. stream[j] \in Message /\ stream[j].tag < mflush
  BY <1>t DEF Below
<3> QED
  BY <1>g, <1>m, <3>1, <3>2
<2> QED
  BY <2>1, <2>2, <2>3
<1>3. ASSUME NEW x \in Rpc PROVE ftag'[x] < mflush'
<2>1. ftag[x] < mflush /\ ftag[x] \in Nat
  BY <1>n DEF Below
<2>2. ASSUME NEW p \in Proc, Call(p) \/ Return(p) PROVE ftag'[x] < mflush'
<3>1. ftag'[x] = ftag[x] \/ ftag'[x] = 0
  BY <1>t, <2>2 DEF Call, Return
<3> QED
  BY <1>m, <1>n, <2>1, <3>1
<2>3. ASSUME NEW p \in Proc, FlushTagged(p) PROVE ftag'[x] < mflush'
<3>1. (ftag'[x] = ftag[x] \/ ftag'[x] = mflush) /\ mflush' = mflush + 1
  BY <1>t, <2>3 DEF FlushTagged
<3> QED
  BY <1>n, <2>1, <3>1
<2>4. ASSUME NEW p \in Proc, FlushFails(p) \/ ReadEnds(p) PROVE ftag' = ftag
  BY <2>4 DEF FlushFails, ReadEnds, mntqrm
<2> QED
  BY <1>m, <2>1, <2>2, <2>3, <2>4, FlushFrame
<1>4. ASSUME NEW x \in Rpc PROVE reply'[x].tag < mflush'
<2>1. \A y \in Rpc : reply[y].tag < mflush /\ reply[y].tag \in Nat
  BY <1>g, <1>t DEF Below
<2>2. ASSUME NEW p \in Proc, Call(p) \/ Return(p) PROVE reply'[x].tag < mflush'
<3>1. reply'[x] = reply[x] \/ reply'[x] = NoReply
  BY <1>t, <2>2 DEF Call, Return
<3>2. NoReply.tag = 0
  BY DEF NoReply
<3> QED
  BY <1>m, <1>n, <2>1, <3>1, <3>2
<2>3. ASSUME NEW p \in Proc, ReadReply(p) PROVE reply'[x].tag < mflush'
<3>1. stream # <<>> /\ (reply'[x] = reply[x] \/ reply'[x] = Head(stream))
  BY <1>t, <2>3 DEF ReadReply
<3>2. Head(stream).tag < mflush /\ Head(stream).tag \in Nat
  BY <1>g, <1>t, <3>1, StreamHead DEF Below
<3> QED
  BY <1>m, <2>1, <3>1, <3>2
<2>4. ASSUME NEW p \in Proc, Fill(p) PROVE reply'[x].tag < mflush'
<3>1. rpc[p] \in Rpc /\ (reply'[x] = reply[x] \/ reply'[x] = reply[rpc[p]])
  BY <1>h, <1>t, <2>4 DEF Fill, At
<3> QED
  BY <1>m, <2>1, <3>1
<2> QED
  BY <1>m, <2>1, <2>2, <2>3, <2>4, ReplyFrame
<1> QED
  BY <1>1, <1>2, <1>3, <1>4 DEF Below

\* The count is kept.
LEMMA CountedStep == Struct /\ Counted /\ [Next]_vars => Counted'
<1> SUFFICES ASSUME Struct, Counted, [Next]_vars, ~ hungup', nintr' <= NFlush
             PROVE  Counted'
  BY DEF Counted
<1>1. ~ hungup
  BY ConnFrame DEF WriteDone, WriteIntr, FlushDone, FlushIntr, ReadReply, Answer, AnswerFlush, IgnoreFlush, HangUp
<1>t. pc \in [Proc -> Place] /\ mflush \in FlushTag
  BY DEF Struct, TypeOK
<1>i. nintr \in Nat /\ nintr' \in Nat /\ nintr' >= nintr
  BY IntrFrame
<1>n. /\ nintr \in Nat /\ nintr <= NFlush /\ NFlush \in Nat
      /\ Tagfls \in Nat /\ mflush \in Nat /\ mflush >= Tagfls /\ Tagend = Tagfls + NFlush
  BY <1>i, <1>t, MountAssumption, TagFacts DEF FlushTag, Tagend
<1>f. /\ IsFiniteSet(Flushing) /\ Cardinality(Flushing) \in Nat
      /\ Cardinality(Flushing) = 0 <=> Flushing = {}
<2>1. Flushing \in SUBSET Proc /\ IsFiniteSet(Proc)
  BY MountAssumption DEF Flushing
<2> QED
  BY <2>1, FS_Subset, FS_CardinalityType, FS_EmptySet
<1>2. ASSUME NEW p \in Proc, WriteIntr(p) \/ SleepIntr(p) \/ ReadIntr(p) PROVE Counted'
<2>1. /\ Flushing' = Flushing \cup {p} /\ p \notin Flushing
      /\ nintr' = nintr + 1 /\ mflush' = mflush
  BY <1>t, <1>2 DEF WriteIntr, SleepIntr, ReadIntr, At, Interrupted, Flushing, mnt
<2>2. Cardinality(Flushing') = Cardinality(Flushing) + 1
  BY <1>f, <2>1, FS_AddElement
<2>3. Cardinality(Flushing) + mflush <= nintr + Tagfls /\ Below
  BY <1>1, <1>n, <2>1 DEF Counted
<2>4. \A q \in Proc : ~ FlushTagged(q)
  BY <1>n, <2>1 DEF FlushTagged, ghost, history
<2>5. Below'
  BY <2>1, <2>3, <2>4, BelowStep
<2> QED
  BY <1>f, <1>n, <2>1, <2>2, <2>3, <2>5 DEF Counted
<1>3. ASSUME NEW p \in Proc, FlushTagged(p) PROVE Counted'
<2>1. /\ Flushing' = Flushing \ {p} /\ p \in Flushing /\ nintr' = nintr
      /\ mflush' = IF mflush + 1 = Tagend THEN Tagfls ELSE mflush + 1
  BY <1>t, <1>3 DEF FlushTagged, At, Flushing, ghost, history
<2>2. Cardinality(Flushing') = Cardinality(Flushing) - 1 /\ IsFiniteSet(Flushing')
  BY <1>f, <2>1, FS_RemoveElement
<2>3. Cardinality(Flushing) + mflush <= nintr + Tagfls /\ Below /\ Cardinality(Flushing) > 0
  BY <1>1, <1>f, <1>n, <2>1 DEF Counted
<2>4. CASE mflush + 1 = Tagend
<3>1. Cardinality(Flushing) = 1 /\ nintr = NFlush
  BY <1>f, <1>n, <2>3, <2>4
<3>2. Flushing' = {}
  BY <2>2, <3>1, FS_EmptySet
<3> QED
  BY <2>1, <3>1, <3>2 DEF Counted
<2>5. CASE mflush + 1 # Tagend
<3>1. mflush' = mflush + 1
  BY <2>1, <2>5
<3>2. Below'
  BY <2>3, <3>1, BelowStep
<3> QED
  BY <1>f, <1>n, <2>1, <2>2, <2>3, <3>1, <3>2 DEF Counted
<2> QED
  BY <2>4, <2>5
<1>4. ASSUME NEW p \in Proc, FlushIntr(p) \/ FlushFails(p) PROVE Counted'
<2>1. Flushing' = Flushing /\ nintr' = nintr + 1 /\ mflush' = mflush
<3>1. CASE FlushIntr(p)
  BY <1>t, <3>1 DEF FlushIntr, Resume, At, Interrupted, Flushing, mnt
<3>2. CASE FlushFails(p)
  BY <1>t, <1>1, <3>2, FlushFailsEnds DEF FlushEnds, At, Interrupted, Flushing
<3> QED
  BY <1>4, <3>1, <3>2
<2>2. \A q \in Proc : ~ FlushTagged(q)
  BY <1>n, <2>1 DEF FlushTagged, ghost, history
<2>3. Cardinality(Flushing) + mflush <= nintr + Tagfls /\ Below
  BY <1>1, <1>n, <2>1 DEF Counted
<2>4. Below'
  BY <2>1, <2>2, <2>3, BelowStep
<2> QED
  BY <1>f, <1>n, <2>1, <2>3, <2>4 DEF Counted
<1>5. CASE \A p \in Proc : /\ ~ WriteIntr(p) /\ ~ SleepIntr(p) /\ ~ ReadIntr(p)
                           /\ ~ FlushTagged(p) /\ ~ FlushIntr(p) /\ ~ FlushFails(p)
<2>1. nintr' = nintr /\ mflush' = mflush
<3>1. ASSUME NEW p \in Proc, Call(p) \/ WriteDone(p) \/ WriteFails(p) \/ FlushDone(p)
             \/ Gate(p) \/ Sleep(p)
      PROVE  nintr' = nintr /\ mflush' = mflush
  BY <3>1 DEF Call, WriteDone, WriteFails, FlushDone, Gate, Sleep, ghost, mnt
<3>2. ASSUME NEW p \in Proc, Awake(p) \/ ReadDone(p) \/ ReadReply(p) \/ ReadEnds(p)
             \/ MuxNone(p) \/ MuxOwn(p) \/ MuxOther(p)
      PROVE  nintr' = nintr /\ mflush' = mflush
  BY <3>2 DEF Awake, ReadDone, ReadReply, ReadEnds, MuxNone, MuxOwn, MuxOther, ghost, mnt
<3>3. ASSUME NEW p \in Proc, Fill(p) \/ Wake(p) \/ mntgate(p) \/ GateWake(p) \/ Return(p)
      PROVE  nintr' = nintr /\ mflush' = mflush
  BY <3>3 DEF Fill, Wake, mntgate, GateWake, Return, ghost, mnt
<3>4. ASSUME HangUp \/ UNCHANGED vars \/ \E m \in srv : Answer(m) \/ AnswerFlush(m) \/ IgnoreFlush(m)
      PROVE  nintr' = nintr /\ mflush' = mflush
  BY <3>4 DEF HangUp, vars, Answer, AnswerFlush, IgnoreFlush, ghost, mnt, local
<3> QED
  BY <1>5, <3>1, <3>2, <3>3, <3>4 DEF Next, Step, Interrupt
<2>2. ASSUME NEW q \in Proc PROVE pc[q] = "flush" <=> pc'[q] = "flush"
<3>1. ~ WriteFails(q)
  BY <1>1 DEF WriteFails
<3> QED
  BY <1>5, <3>1, PcStep, PcLeave DEF Moved, Left
<2>3. Flushing' = Flushing
  BY <2>2 DEF Flushing
<2>4. Below => Below'
  BY <1>5, <2>1, BelowStep
<2> QED
  BY <1>1, <1>n, <2>1, <2>3, <2>4 DEF Counted
<1> QED
  BY <1>2, <1>3, <1>4, <1>5

\* At first no tag is given out.
LEMMA CountedInit == Init => Counted
<1> SUFFICES ASSUME Init PROVE Counted
  OBVIOUS
<1>1. Flushing = {} /\ Cardinality(Flushing) = 0
  BY FS_EmptySet DEF Init, Flushing
<1>2. Tagfls \in Nat /\ 0 < Tagfls
  BY TagFacts DEF Tagfls
<1>3. Below
  BY <1>2 DEF Init, Below, NoReply
<1> QED
  BY <1>1, <1>2, <1>3 DEF Init, Counted

\* m->flushtag wraps: with no more interrupts than flush tags, mntflush does not take a
\* tag that a message on its way or another request still has.
LEMMA TagFresh ==
  ASSUME Struct, Counted, ~ hungup, nintr <= NFlush, NEW p \in Proc, pc[p] = "flush"
  PROVE  ~ TagUsed(p, mflush)
<1>1. Below
  BY DEF Counted, Flushing
<1>2. mflush \in Nat /\ ~ (mflush < mflush)
  BY TagFacts DEF Struct, TypeOK
<1>3. \A q \in Proc : (pc[q] = "mux" \/ rpc[q] # nil) => rpc[q] \in Rpc
  BY DEF Struct, TypeOK, Held
<1>4. ~ OnItsWay(mflush)
  BY <1>1, <1>2, <1>3 DEF Below, OnItsWay
<1> QED
  BY <1>1, <1>2, <1>3, <1>4 DEF Below, TagUsed

-----------------------------------------------------------------------------
(***************************************************************************)
(* Faults are rare.  The invariant IInv holds until a tag is in use twice  *)
(* or an Mntrpc is torn, and it says where each fault can come from.       *)
(***************************************************************************)

\* What it takes for a fault: an interrupt, and after it the end of the connection, a
\* Tflush that another interrupt has made fail, or a flush tag for the second time.
Rare == fault # {} => nintr > 0 /\ (hungup \/ cut \/ nintr > NFlush)

\* What is on its way is good.
LEMMA OnItsWayGood ==
  ASSUME Messages, NEW t, OnItsWay(t)
  PROVE  \E m : Good(m) /\ m.tag = t
  BY DEF Messages, OnItsWay, Muxing, Got

\* A fault that is new.
LEMMA FirstFault ==
  ASSUME Struct, IInv, Counted, [Next]_vars, fault = {}, fault' # {}
  PROVE  nintr' > 0 /\ (hungup' \/ cut' \/ nintr' > NFlush)
<1>0. Messages /\ Filling /\ SomeMover /\ Faults
  BY DEF IInv
<1>n. nintr \in Nat /\ NFlush \in Nat
  BY MountAssumption DEF Struct, TypeOK
<1>t. rpc \in [Proc -> Rpc \cup {nil}] /\ mflush \in FlushTag /\ rpcfree \in Seq(Rpc)
      /\ Rpc \cap FlushTag = {} /\ nil \notin FlushTag
  BY TagFacts DEF Struct, TypeOK
<1>1. ASSUME NEW p \in Proc, Call(p) PROVE Met
<2>1. OnItsWay(Head(rpcfree)) /\ rpcfree # <<>>
  BY <1>1 DEF Call, Record
<2>2. Has(rpcfree, Head(rpcfree)) /\ Head(rpcfree) \in Rpc
  BY <1>t, <2>1, ListTail
<2>3. PICK m : Good(m) /\ m.tag = Head(rpcfree)
  BY <1>0, <2>1, OnItsWayGood
<2>4. ~ PlainOf(m)
  BY <2>2, <2>3 DEF PlainOf, Struct, FreeList
<2>5. ~ FlushOf(m)
  BY <1>t, <2>2, <2>3 DEF FlushOf
<2> QED
  BY <2>3, <2>4, <2>5 DEF Good, Orphan
<1>2. ASSUME NEW p \in Proc, FlushTagged(p) PROVE nintr > 0 /\ (hungup \/ nintr > NFlush)
<2>1. TagUsed(p, mflush) /\ pc[p] = "flush"
  BY <1>2 DEF FlushTagged, Record, At
<2>2. CASE hungup
<3>1. PICK m : Good(m) /\ m.tag = mflush
  BY <1>0, <2>1, <2>2, OnItsWayGood DEF TagUsed
<3>2. ~ PlainOf(m) /\ ~ Orphan(m)
  BY <1>t, <3>1 DEF PlainOf, Orphan
<3> QED
  BY <2>2, <3>1, <3>2 DEF Good, FlushOf
<2>3. CASE ~ hungup
<3>1. nintr # 0
  BY <1>0, <2>1, <2>3 DEF Faults, FlushPlaces
<3>2. ~ (nintr <= NFlush)
  BY <2>1, <2>3, TagFresh
<3> QED
  BY <1>n, <3>1, <3>2
<2> QED
  BY <2>2, <2>3
<1>3. ASSUME NEW p \in Proc, Fill(p) PROVE Met
<2>1. Has(queue, hand[p]) /\ pc[p] = "fill"
  BY <1>3 DEF Fill, Record, At
<2> QED
  BY <1>0, <2>1 DEF Filling, Waits, GivenUp
<1>4. ASSUME NEW p \in Proc, FlushFails(p) PROVE Met'
<2>1. /\ pc[p] = "flushw" /\ rip = nil /\ \E q \in Proc : pc[q] = "asleep"
      /\ ~ \E q \in Proc : q # p /\ Coming(q)
  BY <1>4 DEF FlushFails, Record, At
<2>2. PICK q \in Proc : Mover(q)
  BY <1>0, <2>1 DEF SomeMover
<2>3. q = p
<3>1. Coming(q)
  BY <2>2 DEF Mover, Coming, FlushPlaces
<3> QED
  BY <2>1, <3>1
<2>4. nintr # 0
  BY <1>n, <2>1, <2>2, <2>3 DEF Mover
<2> QED
  BY <1>4, <2>4, FlushFailsMet
<1>5. Met' => nintr' > 0 /\ (hungup' \/ cut')
  BY DEF Met
<1>6. Met => Met'
  BY MetFrame
<1>7. (hungup => hungup') /\ nintr' \in Nat /\ nintr' >= nintr
  BY HungFrame, IntrFrame
<1>8. ASSUME nintr > 0, hungup \/ nintr > NFlush
      PROVE  nintr' > 0 /\ (hungup' \/ nintr' > NFlush)
  BY <1>n, <1>7, <1>8
<1> QED
  BY <1>1, <1>2, <1>3, <1>4, <1>5, <1>6, <1>8, FaultFrame

-----------------------------------------------------------------------------
(* The properties.                                                         *)

\* Nothing is on its way at first.
LEMMA InvInit == Init => Inv
<1> SUFFICES ASSUME Init PROVE IInv
  BY StructInit DEF Inv
<1>1. /\ \A p \in Proc : pc[p] = "out" /\ rpc[p] = nil /\ ~ failed[p]
      /\ queue = <<>> /\ srv = {} /\ stream = <<>> /\ ~ hungup /\ Len(queue) = 0 /\ Len(stream) = 0
  BY DEF Init
<1>2. 1..Len(queue) = {} /\ 1..Len(stream) = {}
  BY <1>1
<1>3. Faults /\ Ended /\ Linked /\ Filling
  BY <1>1, <1>2 DEF Faults, Ended, Linked, Filling, NoDup, Has, FlushPlaces, EndPlaces
<1>4. Messages /\ Once /\ Order /\ FlushTags
  BY <1>1, <1>2 DEF Messages, Once, Order, FlushTags, Muxing
<1>5. Right /\ DoneWoken /\ SomeMover /\ AnswerComes
  BY <1>1, <1>2 DEF Right, DoneWoken, SomeMover, AnswerComes, Has
<1> QED
  BY <1>3, <1>4, <1>5 DEF IInv

\* The invariant is inductive.
LEMMA InvStep == Inv /\ Assumed /\ [Next]_vars => Inv'
<1> SUFFICES ASSUME Inv, Assumed, [Next]_vars PROVE Inv'
  OBVIOUS
<1>1. Struct'
  BY StructStep DEF Inv
<1>2. IInv'
  BY FaultsStep, EndedStep, LinkedStep, FillingStep, MessagesStep, OnceOrderStep, FlushTagsStep,
     RightStep, DoneWokenStep, SomeMoverStep, AnswerComesStep DEF IInv
<1> QED
  BY <1>1, <1>2 DEF Inv

\* As long as no tag is in use twice and nothing is torn, the invariant holds; and it
\* holds as long as it takes to know what a fault takes.
MountInv == Struct /\ (Clean => IInv) /\ Counted /\ Rare

\* It holds at first.
LEMMA MountInit == Init => MountInv
<1> SUFFICES ASSUME Init PROVE MountInv
  OBVIOUS
<1>1. fault = {}
  BY DEF Init
<1> QED
  BY <1>1, InvInit, CountedInit DEF MountInv, Rare, Inv

\* Every step of the driver and the server keeps it.
LEMMA MountStep == MountInv /\ [Next]_vars => MountInv'
<1> SUFFICES ASSUME MountInv, [Next]_vars PROVE MountInv'
  OBVIOUS
<1>0. Struct /\ Counted /\ Rare /\ (Clean => IInv)
  BY DEF MountInv
<1>1. Struct' /\ Counted'
  BY <1>0, StructStep, CountedStep
<1>2. ASSUME Clean' PROVE IInv'
<2>1. Clean
  BY <1>2, FaultGrows DEF Clean
<2>2. Inv /\ Assumed
  BY <1>0, <1>2, <2>1 DEF Inv, Assumed
<2> QED
  BY <2>2, InvStep DEF Inv
<1>3. Rare'
<2> SUFFICES ASSUME fault' # {}
             PROVE  nintr' > 0 /\ (hungup' \/ cut' \/ nintr' > NFlush)
  BY DEF Rare
<2>1. CASE fault # {}
<3>1. nintr > 0 /\ (hungup \/ cut \/ nintr > NFlush)
  BY <1>0, <2>1 DEF Rare
<3>2. nintr \in Nat /\ nintr' \in Nat /\ nintr' >= nintr /\ NFlush \in Nat
  BY <1>0, IntrFrame, MountAssumption
<3>3. hungup \/ cut => hungup' \/ cut'
  BY <1>0, MetFrame
<3> QED
  BY <3>1, <3>2, <3>3
<2>2. CASE fault = {}
<3>1. IInv
  BY <1>0, <2>2 DEF Clean
<3> QED
  BY <1>0, <2>2, <3>1, FirstFault
<2> QED
  BY <2>1, <2>2
<1> QED
  BY <1>1, <1>2, <1>3 DEF MountInv

\* What is on the queue: from Linked, and what is linked has an owner and so is not free.
LEMMA QueueFromInv == MountInv => QueueExact
<1> SUFFICES ASSUME MountInv PROVE QueueExact
  OBVIOUS
<1>c. CASE ~ Clean
<2>1. Excused({"reused", "torn"})
  BY <1>c DEF MountInv, Clean, Rare, Excused
<2> QED
  BY <2>1 DEF QueueExact
<1> SUFFICES ASSUME Clean PROVE QueueExact
  BY <1>c
<1>1. Struct /\ Linked
  BY DEF MountInv, IInv
<1>2. ASSUME NEW i \in 1..Len(queue) PROVE ~ Has(rpcfree, queue[i]) /\ ~ done[queue[i]]
<2>1. queue[i] \in Rpc /\ Has(queue, queue[i])
  BY <1>1 DEF Has, Struct, TypeOK
<2>2. ~ done[queue[i]] /\ \E p \in Proc : rpc[p] = queue[i]
  BY <1>1, <2>1 DEF Linked
<2> QED
  BY <1>1, <2>2 DEF Struct, FreeList
<1> QED
  BY <1>1, <1>2 DEF QueueExact, Linked, NoDup

\* Replies: who returns is done, and Right speaks of it.
LEMMA ReplyFromInv == MountInv => OwnReply
<1> SUFFICES ASSUME MountInv PROVE OwnReply
  OBVIOUS
<1>c. CASE ~ Clean
<2>1. Excused({"reused", "torn"})
  BY <1>c DEF MountInv, Clean, Rare, Excused
<2> QED
  BY <2>1 DEF OwnReply
<1> SUFFICES ASSUME Clean, NEW p \in Proc, pc[p] = "ret", ~ failed[p]
             PROVE  reply[rpc[p]].call = call[p]
  BY <1>c DEF OwnReply
<1>1. Struct /\ Ended /\ Right
  BY DEF MountInv, IInv
<1>2. done[rpc[p]] /\ rpc[p] # nil
  BY <1>1 DEF Ended, EndPlaces, Struct, Held
<1> QED
  BY <1>1, <1>2 DEF Right, Got

\* When all is still the reader waits for a message; whoever is not done is on the queue,
\* and the only answer that can be on its way to it is one the server still owes.
LEMMA StillFromInv == MountInv => NobodyStuck
<1> SUFFICES ASSUME MountInv PROVE NobodyStuck
  OBVIOUS
<1>c. CASE fault # {}
<2>1. fault \subseteq {"reused", "torn", "dropped"}
  BY DEF MountInv, Struct, TypeOK
<2>2. Excused({"reused", "torn", "dropped"})
  BY <1>c, <2>1 DEF MountInv, Rare, Excused
<2> QED
  BY <2>2 DEF NobodyStuck
<1> SUFFICES ASSUME fault = {}, Still, NEW r \in Proc, pc[r] # "out"
             PROVE  ~ hungup /\ rip # nil /\ (Owed(r) \/ r \in quiet)
  BY <1>c DEF NobodyStuck
<1>0. Struct /\ Linked /\ DoneWoken /\ SomeMover /\ AnswerComes
  BY DEF MountInv, IInv, Clean
<1>1. ASSUME NEW p \in Proc
      PROVE  \/ pc[p] \in {"out", "asleep"}
             \/ pc[p] = "read" /\ ~ done[rpc[p]] /\ stream = <<>> /\ ~ hungup
  BY DEF Still
<1>2. ASSUME NEW p \in Proc, pc[p] # "out" PROVE rip # nil
<2>1. CASE pc[p] = "read"
<3>1. rip = p
  BY <1>0, <2>1 DEF Struct, OneReader, ReadPlaces
<3> QED
  BY <3>1, MountAssumption
<2>2. CASE pc[p] = "asleep"
<3> SUFFICES ASSUME rip = nil PROVE FALSE
  OBVIOUS
<3>1. PICK s \in Proc : Mover(s)
  BY <1>0, <2>2 DEF SomeMover
<3>2. pc[s] \in {"gate", "sleep", "awake", "flush", "flushw", "gatewake"}
  BY <3>1 DEF Mover, FlushPlaces
<3> QED
  BY <1>1, <3>2
<2> QED
  BY <1>1, <1>2, <2>1, <2>2
<1>3. ASSUME NEW p \in Proc, pc[p] # "out" PROVE ~ hungup /\ (Owed(p) \/ p \in quiet)
<2>1. PICK q \in Proc : rip = q
  BY <1>0, <1>2, <1>3 DEF Struct, TypeOK
<2>2. stream = <<>> /\ ~ hungup
<3>1. pc[q] \in {"read", "mux", "fill", "wake", "mntgate", "flush", "flushw"}
  BY <1>0, <2>1 DEF Struct, OneReader, ReadPlaces, FlushPlaces
<3> QED
  BY <1>1, <3>1
<2>3. rpc[p] # nil
  BY <1>0, <1>3 DEF Struct, Held
<2>4. ~ done[rpc[p]]
<3>1. ASSUME pc[p] = "asleep", done[rpc[p]] PROVE FALSE
<4>1. PICK s \in Proc : pc[s] = "wake"
  BY <1>0, <3>1 DEF DoneWoken
<4> QED
  BY <1>1, <4>1
<3> QED
  BY <1>1, <1>3, <3>1
<2>5. Has(queue, rpc[p])
<3>1. \A s \in Proc : pc[s] # "fill"
  BY <1>1
<3> QED
  BY <1>0, <2>3, <2>4, <3>1 DEF Linked
<2>6. p \in quiet \/ \E m \in srv : Awaits(p, m)
<3>1. pc[p] \notin {"write", "flush", "flushw"} /\ \A s \in Proc : ~ Muxing(s)
  BY <1>1 DEF Muxing
<3>2. 1..Len(stream) = {}
  BY <2>2
<3> QED
  BY <1>0, <2>2, <2>5, <3>1, <3>2 DEF AnswerComes
<2>7. ASSUME NEW m \in srv, Awaits(p, m) PROVE Owed(p)
<3>1. m.old = nil /\ m.call = call[p]
  BY <2>7 DEF Still, Awaits
<3> QED
  BY <3>1 DEF Owed, Still
<2> QED
  BY <2>2, <2>6, <2>7
<1> QED
  BY <1>2, <1>3

\* So it always holds.
LEMMA MountInvariant == Spec => []MountInv
  BY MountInit, MountStep, PTL DEF Spec

\* The faults of the mount driver take an interrupt, and after it the end of the connection,
\* a Tflush that another interrupt has made fail, or more interrupts than there are flush
\* tags: until then no tag is taken that a message or another flush still has (m->flushtag
\* wraps), no Mntrpc is filled in for its next owner, and the reading is handed on.
THEOREM FaultsAreRare == Spec => []Rare
<1>1. MountInv => Rare
  BY DEF MountInv
<1> QED
  BY <1>1, MountInvariant, PTL

\* m->queue: a request is on it from its linking to its answer or failure, and once,
\* whatever is interrupted and whenever the connection ends, until a fault is recorded.
THEOREM QueueCorrect == Spec => []QueueExact
  BY QueueFromInv, MountInvariant, PTL

\* Whoever returns from mountio without an error of its own has the answer to its call,
\* until a tag is in use twice or an Mntrpc is torn.
THEOREM ReplyCorrect == Spec => []OwnReply
  BY ReplyFromInv, MountInvariant, PTL

\* Reading is handed on: who sleeps while nothing moves is owed an answer by the server,
\* or has a flush that never went or is not answered.
THEOREM NobodyIsStuck == Spec => []NobodyStuck
  BY StillFromInv, MountInvariant, PTL

=============================================================================
