--------------------------- MODULE DisChan_proofs ---------------------------
(***************************************************************************)
(* Proofs about Limbo channels, for any number of threads and channels:    *)
(* the run queue, the wait lists, the alt marks and the states of threads  *)
(* agree, no sender and receiver ever both wait on one channel, and every  *)
(* step is a step of ChanAbs.                                              *)
(***************************************************************************)
EXTENDS DisChan, FiniteSetTheorems, SequenceTheorems, TLAPS

(***************************************************************************)
(* Lists of threads: who is in them after an operation, and that nobody    *)
(* gets into one twice.                                                    *)
(***************************************************************************)

LEMMA ListEmpty ==
  ASSUME NEW S, NEW s \in Seq(S)
  PROVE  ToSet(s) \subseteq S /\ (s = <<>> <=> ToSet(s) = {}) /\ IsInjective(<<>>)
  BY DEF ToSet, IsInjective

LEMMA ListAppend ==
  ASSUME NEW S, NEW s \in Seq(S), NEW e \in S
  PROVE  /\ Append(s, e) \in Seq(S) /\ ToSet(Append(s, e)) = ToSet(s) \cup {e}
         /\ Append(s, e) # <<>>
         /\ IsInjective(s) /\ e \notin ToSet(s) => IsInjective(Append(s, e))
         /\ s # <<>> => Head(Append(s, e)) = Head(s)
<1> DEFINE t == Append(s, e)
           n == Len(s)
<1>1. /\ t \in Seq(S) /\ n \in Nat /\ Len(t) = n + 1 /\ t[n + 1] = e /\ t # <<>>
      /\ \A i \in 1..n : t[i] = s[i]
  OBVIOUS
<1>8. s # <<>> => Head(t) = Head(s)
<2> SUFFICES ASSUME s # <<>> PROVE Head(t) = Head(s)
  OBVIOUS
<2>1. 1 \in 1..n /\ Head(s) = s[1]
  OBVIOUS
<2>2. Head(t) = t[1]
  BY <1>1
<2> QED
  BY <1>1, <2>1, <2>2
<1>2. DOMAIN s = 1..n /\ DOMAIN t = 1..(n + 1)
  BY <1>1
<1> HIDE DEF t, n
<1>3. \A i \in 1..(n + 1) : i \in 1..n \/ i = n + 1
  BY <1>1
<1>4. \A i \in 1..n : i \in 1..(n + 1)
  BY <1>1
<1>5. n + 1 \in 1..(n + 1)
  BY <1>1
<1>6. ToSet(t) = ToSet(s) \cup {e}
  BY <1>1, <1>2, <1>3, <1>4, <1>5 DEF ToSet
<1>7. IsInjective(s) /\ e \notin ToSet(s) => IsInjective(t)
  BY <1>1, <1>2, <1>3, <1>4, <1>5 DEF ToSet, IsInjective
<1> QED
  BY <1>1, <1>6, <1>7, <1>8 DEF t

LEMMA ListPush ==
  ASSUME NEW S, NEW s \in Seq(S), NEW e \in S
  PROVE  /\ <<e>> \o s \in Seq(S) /\ ToSet(<<e>> \o s) = ToSet(s) \cup {e}
         /\ <<e>> \o s # <<>> /\ Head(<<e>> \o s) = e
         /\ IsInjective(s) /\ e \notin ToSet(s) => IsInjective(<<e>> \o s)
<1> DEFINE t == <<e>> \o s
           n == Len(s)
<1>1. /\ t \in Seq(S) /\ n \in Nat /\ Len(t) = n + 1 /\ t[1] = e /\ t # <<>> /\ Head(t) = e
      /\ \A i \in 1..n : t[i + 1] = s[i]
  OBVIOUS
<1>2. DOMAIN s = 1..n /\ DOMAIN t = 1..(n + 1)
  BY <1>1
<1> HIDE DEF t, n
<1>3. \A i \in 1..(n + 1) : i = 1 \/ (i - 1 \in 1..n /\ t[i] = s[i - 1])
<2> SUFFICES ASSUME NEW i \in 1..(n + 1), i # 1 PROVE i - 1 \in 1..n /\ t[i] = s[i - 1]
  OBVIOUS
<2>1. i - 1 \in 1..n /\ (i - 1) + 1 = i
  BY <1>1
<2> QED
  BY <1>1, <2>1
<1>4. \A i \in 1..n : i + 1 \in 1..(n + 1)
  BY <1>1
<1>5. 1 \in 1..(n + 1)
  BY <1>1
<1>6. ToSet(t) = ToSet(s) \cup {e}
<2>1. \A x \in ToSet(t) : x = e \/ x \in ToSet(s)
<3> TAKE x \in ToSet(t)
<3>1. PICK i \in 1..(n + 1) : t[i] = x
  BY <1>2 DEF ToSet
<3> QED
  BY <1>1, <1>2, <1>3, <3>1 DEF ToSet
<2>2. \A x \in ToSet(s) : x \in ToSet(t)
<3> TAKE x \in ToSet(s)
<3>1. PICK i \in 1..n : s[i] = x
  BY <1>2 DEF ToSet
<3>2. i + 1 \in 1..(n + 1) /\ t[i + 1] = x
  BY <1>1, <1>4, <3>1
<3> QED
  BY <1>2, <3>2 DEF ToSet
<2>3. e \in ToSet(t)
  BY <1>1, <1>2, <1>5 DEF ToSet
<2> QED
  BY <2>1, <2>2, <2>3
<1>7. ASSUME IsInjective(s), e \notin ToSet(s), NEW i \in 1..(n + 1), NEW j \in 1..(n + 1), t[i] = t[j]
      PROVE  i = j
<2>1. \A k \in 1..n : s[k] # e
  BY <1>2, <1>7 DEF ToSet
<2>2. CASE i = 1 \/ j = 1
  BY <1>1, <1>3, <1>7, <2>1, <2>2
<2>3. CASE i # 1 /\ j # 1
<3>1. i - 1 \in 1..n /\ j - 1 \in 1..n /\ s[i - 1] = s[j - 1]
  BY <1>3, <1>7, <2>3
<3>2. i - 1 = j - 1
  BY <1>2, <1>7, <3>1 DEF IsInjective
<3> QED
  BY <1>1, <3>2
<2> QED
  BY <2>2, <2>3
<1> QED
  BY <1>1, <1>2, <1>6, <1>7 DEF t, IsInjective

LEMMA ListTail ==
  ASSUME NEW S, NEW s \in Seq(S), s # <<>>, IsInjective(s)
  PROVE  /\ Tail(s) \in Seq(S) /\ Head(s) \in S /\ Head(s) \in ToSet(s)
         /\ IsInjective(Tail(s)) /\ ToSet(Tail(s)) = ToSet(s) \ {Head(s)}
<1> DEFINE t == Tail(s)
           n == Len(s)
<1>1. /\ t \in Seq(S) /\ n \in Nat /\ n > 0 /\ Len(t) = n - 1 /\ Head(s) = s[1] /\ Head(s) \in S
      /\ \A i \in 1..(n - 1) : t[i] = s[i + 1]
  OBVIOUS
<1>2. DOMAIN s = 1..n /\ DOMAIN t = 1..(n - 1)
  BY <1>1
<1> HIDE DEF t, n
<1>3. \A i \in 1..(n - 1) : i + 1 \in 1..n /\ i + 1 # 1
  BY <1>1
<1>4. 1 \in 1..n
  BY <1>1
<1>5. \A i \in 1..n : i = 1 \/ (i - 1 \in 1..(n - 1) /\ s[i] = t[i - 1])
<2> SUFFICES ASSUME NEW i \in 1..n, i # 1 PROVE i - 1 \in 1..(n - 1) /\ s[i] = t[i - 1]
  OBVIOUS
<2>1. i - 1 \in 1..(n - 1) /\ (i - 1) + 1 = i
  BY <1>1
<2> QED
  BY <1>1, <2>1
<1>6. ToSet(t) = ToSet(s) \ {Head(s)}
<2>1. \A x \in ToSet(t) : x \in ToSet(s) /\ x # Head(s)
  BY <1>1, <1>2, <1>3, <1>4, SMTT(20) DEF ToSet, IsInjective
<2>2. \A x \in ToSet(s) : x # Head(s) => x \in ToSet(t)
<3> SUFFICES ASSUME NEW x \in ToSet(s), x # Head(s) PROVE x \in ToSet(t)
  OBVIOUS
<3>1. PICK i \in 1..n : s[i] = x
  BY <1>2 DEF ToSet
<3>2. i - 1 \in 1..(n - 1) /\ t[i - 1] = x
  BY <1>1, <1>5, <3>1
<3> QED
  BY <1>2, <3>2 DEF ToSet
<2> QED
  BY <2>1, <2>2
<1>7. IsInjective(t)
<2> SUFFICES ASSUME NEW i \in 1..(n - 1), NEW j \in 1..(n - 1), t[i] = t[j] PROVE i = j
  BY <1>2 DEF IsInjective
<2>1. i + 1 = j + 1
  BY <1>1, <1>2, <1>3, ZenonT(60) DEF IsInjective
<2> QED
  BY <1>1, <2>1
<1>8. Head(s) \in ToSet(s)
  BY <1>1, <1>2, <1>4 DEF ToSet
<1> QED
  BY <1>1, <1>6, <1>7, <1>8 DEF t

LEMMA ListConcat ==
  ASSUME NEW S, NEW s \in Seq(S), NEW h \in Seq(S)
  PROVE  /\ s \o h \in Seq(S) /\ ToSet(s \o h) = ToSet(s) \cup ToSet(h)
         /\ s # <<>> => s \o h # <<>> /\ Head(s \o h) = Head(s)
         /\ IsInjective(s) /\ IsInjective(h) /\ ToSet(s) \cap ToSet(h) = {} => IsInjective(s \o h)
<1> DEFINE t == s \o h
           n == Len(s)
           m == Len(h)
<1>1. /\ t \in Seq(S) /\ n \in Nat /\ m \in Nat /\ Len(t) = n + m
      /\ \A i \in 1..n : t[i] = s[i]
      /\ \A i \in 1..m : t[n + i] = h[i]
  OBVIOUS
<1>2. DOMAIN s = 1..n /\ DOMAIN h = 1..m /\ DOMAIN t = 1..(n + m)
  BY <1>1
<1>3. s # <<>> => t # <<>> /\ Head(t) = Head(s)
  BY <1>1
<1> HIDE DEF t, n, m
<1>4. \A i \in 1..(n + m) : i \in 1..n \/ (i - n \in 1..m /\ t[i] = h[i - n])
<2> SUFFICES ASSUME NEW i \in 1..(n + m), i \notin 1..n PROVE i - n \in 1..m /\ t[i] = h[i - n]
  OBVIOUS
<2>1. i - n \in 1..m /\ n + (i - n) = i
  BY <1>1
<2> QED
  BY <1>1, <2>1
<1>5. (\A i \in 1..n : i \in 1..(n + m)) /\ (\A i \in 1..m : n + i \in 1..(n + m))
  BY <1>1
<1>6. ToSet(t) = ToSet(s) \cup ToSet(h)
<2>1. \A x \in ToSet(t) : x \in ToSet(s) \/ x \in ToSet(h)
<3> SUFFICES ASSUME NEW x \in ToSet(t), x \notin ToSet(s) PROVE x \in ToSet(h)
  OBVIOUS
<3>1. PICK i \in 1..(n + m) : t[i] = x
  BY <1>2 DEF ToSet
<3>2. i \notin 1..n
  BY <1>1, <1>2, <3>1 DEF ToSet
<3>3. i - n \in 1..m /\ h[i - n] = x
  BY <1>4, <3>1, <3>2
<3> QED
  BY <1>2, <3>3 DEF ToSet
<2>2. \A x \in ToSet(s) : x \in ToSet(t)
  BY <1>1, <1>2, <1>5 DEF ToSet
<2>3. \A x \in ToSet(h) : x \in ToSet(t)
  BY <1>1, <1>2, <1>5 DEF ToSet
<2> QED
  BY <2>1, <2>2, <2>3
<1>7. ASSUME IsInjective(s), IsInjective(h), ToSet(s) \cap ToSet(h) = {} PROVE IsInjective(t)
<2> SUFFICES ASSUME NEW i \in 1..(n + m), NEW j \in 1..(n + m), t[i] = t[j] PROVE i = j
  BY <1>2 DEF IsInjective
<2>1. \A k \in 1..n, l \in 1..m : s[k] # h[l]
  BY <1>2, <1>7 DEF ToSet
<2>2. CASE i \in 1..n /\ j \in 1..n
  BY <1>1, <1>2, <1>7, <2>2 DEF IsInjective
<2>3. CASE i \in 1..n /\ j \notin 1..n
  BY <1>1, <1>4, <2>1, <2>3
<2>4. CASE i \notin 1..n /\ j \in 1..n
  BY <1>1, <1>4, <2>1, <2>4
<2>5. CASE i \notin 1..n /\ j \notin 1..n
<3>1. i - n \in 1..m /\ j - n \in 1..m /\ h[i - n] = h[j - n]
  BY <1>4, <2>5
<3>2. i - n = j - n
  BY <1>2, <1>7, <3>1 DEF IsInjective
<3> QED
  BY <1>1, <3>2
<2> QED
  BY <2>2, <2>3, <2>4, <2>5
<1> QED
  BY <1>1, <1>3, <1>6, <1>7 DEF t

LEMMA ListTriple ==
  ASSUME NEW r, NEW d, NEW p
  PROVE  Append(<<r, d>>, p) = <<r, d, p>>
<1> DEFINE S == {r, d, p}
           s == <<r, d>>
           t == Append(s, p)
<1>1. s \in Seq(S) /\ Len(s) = 2 /\ s[1] = r /\ s[2] = d /\ p \in S
  OBVIOUS
<1> HIDE DEF s, S
<1>2. t \in Seq(S) /\ Len(t) = Len(s) + 1 /\ t[Len(s) + 1] = p /\ \A i \in 1..Len(s) : t[i] = s[i]
<2>1. s \in Seq(S) /\ p \in S
  BY <1>1
<2> QED
  BY ONLY <2>1, AppendProperties
<1>3. 1 \in 1..Len(s) /\ 2 \in 1..Len(s) /\ Len(s) + 1 = 3
  BY <1>1
<1>4. t \in Seq(S) /\ Len(t) = 3 /\ t[1] = r /\ t[2] = d /\ t[3] = p
  BY <1>1, <1>2, <1>3
<1> HIDE DEF t
<1>5. t = <<r, d, p>>
  BY <1>4
<1> QED
  BY <1>5 DEF t, s

\* RemoveFirst takes its element out of a list that holds nobody twice.
LEMMA ListRemove ==
  ASSUME NEW S, NEW s \in Seq(S), NEW e \in S, IsInjective(s)
  PROVE  /\ RemoveFirst(s, e) \in Seq(S) /\ IsInjective(RemoveFirst(s, e))
         /\ ToSet(RemoveFirst(s, e)) = ToSet(s) \ {e}
         /\ s # <<>> /\ Head(s) # e =>
              RemoveFirst(s, e) # <<>> /\ Head(RemoveFirst(s, e)) = Head(s)
<1> DEFINE n == Len(s)
<1>0. n \in Nat /\ DOMAIN s = 1..n /\ \A k \in 1..n : s[k] \in S
  OBVIOUS
<1>1. CASE e \notin ToSet(s)
<2>1. ~ \E i \in 1..Len(s) : s[i] = e
  BY <1>0, <1>1 DEF ToSet
<2>2. RemoveFirst(s, e) = s
  BY <2>1 DEF RemoveFirst
<2> QED
  BY <1>1, <2>2
<1>2. CASE e \in ToSet(s)
<2>1. PICK i \in 1..n : s[i] = e
  BY <1>0, <1>2 DEF ToSet
<2>2. {k \in 1..Len(s) : s[k] = e} = {i}
  BY <1>0, <2>1 DEF IsInjective
<2>3. Min({i}) = i
  BY <1>0, <2>1 DEF Min
<2>4. SelectInSeq(s, LAMBDA v : v = e) = i
  BY <2>2, <2>3 DEF SelectInSeq
<2>5. RemoveFirst(s, e) = SubSeq(s, 1, i - 1) \o SubSeq(s, i + 1, n)
  BY <2>1, <2>4 DEF RemoveFirst, RemoveAt
<2> DEFINE u == SubSeq(s, 1, i - 1)
           w == SubSeq(s, i + 1, n)
<2>6. u \in Seq(S) /\ Len(u) = i - 1 /\ \A k \in 1..(i - 1) : u[k] = s[k]
  BY <1>0, <2>1
<2>7. w \in Seq(S) /\ Len(w) = n - i /\ \A k \in 1..(n - i) : w[k] = s[k + i]
<3>1. i + 1 \in Int /\ n \in Int /\ \A k \in (i + 1)..n : s[k] \in S
  BY <1>0, <2>1
<3>2. /\ w \in Seq(S) /\ Len(w) = IF i + 1 <= n THEN n - (i + 1) + 1 ELSE 0
      /\ \A k \in 1..(n - (i + 1) + 1) : w[k] = s[i + 1 + k - 1]
  BY <3>1, SubSeqProperties
<3> HIDE DEF w, n
<3>3. Len(w) = n - i
  BY <1>0, <2>1, <3>2
<3>4. ASSUME NEW k \in 1..(n - i) PROVE w[k] = s[k + i]
<4>1. k \in 1..(n - (i + 1) + 1) /\ i + 1 + k - 1 = k + i
  BY <1>0, <2>1
<4> QED
  BY <3>2, <4>1
<3> QED
  BY <3>2, <3>3, <3>4
<2>8. DOMAIN u = 1..(i - 1) /\ DOMAIN w = 1..(n - i)
  BY <2>6, <2>7
<2> HIDE DEF u, w
<2>9. \A k \in 1..(i - 1) : k \in 1..n /\ k # i
  BY <1>0, <2>1
<2>10. \A k \in 1..(n - i) : k + i \in 1..n /\ k + i # i
  BY <1>0, <2>1
<2>11. IsInjective(u)
  BY <1>0, <2>6, <2>8, <2>9 DEF IsInjective
<2>12. IsInjective(w)
<3> SUFFICES ASSUME NEW k \in 1..(n - i), NEW l \in 1..(n - i), w[k] = w[l] PROVE k = l
  BY <2>8 DEF IsInjective
<3>1. k + i = l + i
  BY <1>0, <2>7, <2>10 DEF IsInjective
<3> QED
  BY <1>0, <2>1, <3>1
<2>13. ToSet(u) \cap ToSet(w) = {}
<3> SUFFICES ASSUME NEW k \in 1..(i - 1), NEW l \in 1..(n - i), u[k] = w[l] PROVE FALSE
  BY <2>8 DEF ToSet
<3>1. k = l + i
  BY <1>0, <2>6, <2>7, <2>9, <2>10 DEF IsInjective
<3> QED
  BY <1>0, <2>1, <3>1
<2>14. ToSet(u) \cup ToSet(w) = ToSet(s) \ {e}
<3>1. \A x \in ToSet(u) : x \in ToSet(s) /\ x # e
  BY <1>0, <2>1, <2>6, <2>8, <2>9 DEF ToSet, IsInjective
<3>2. \A x \in ToSet(w) : x \in ToSet(s) /\ x # e
<4> TAKE x \in ToSet(w)
<4>1. PICK k \in 1..(n - i) : w[k] = x
  BY <2>8 DEF ToSet
<4>2. k + i \in 1..n /\ s[k + i] = x /\ k + i # i
  BY <2>7, <2>10, <4>1
<4> QED
  BY <1>0, <2>1, <4>2 DEF ToSet, IsInjective
<3>3. \A x \in ToSet(s) : x # e => x \in ToSet(u) \/ x \in ToSet(w)
<4> SUFFICES ASSUME NEW x \in ToSet(s), x # e PROVE x \in ToSet(u) \/ x \in ToSet(w)
  OBVIOUS
<4>1. PICK k \in 1..n : s[k] = x
  BY <1>0 DEF ToSet
<4>2. CASE k < i
<5>1. k \in 1..(i - 1) /\ u[k] = x
  BY <1>0, <2>1, <2>6, <4>1, <4>2
<5> QED
  BY <2>8, <5>1 DEF ToSet
<4>3. CASE k > i
<5>1. k - i \in 1..(n - i) /\ (k - i) + i = k
  BY <1>0, <2>1, <4>1, <4>3
<5>2. w[k - i] = x
  BY <2>7, <4>1, <5>1
<5> QED
  BY <2>8, <5>1, <5>2 DEF ToSet
<4>4. k # i
  BY <2>1, <4>1
<4> QED
  BY <1>0, <2>1, <4>2, <4>3, <4>4
<3> QED
  BY <3>1, <3>2, <3>3
<2>15. ASSUME s # <<>>, Head(s) # e PROVE u # <<>> /\ Head(u) = Head(s)
<3>1. Head(s) = s[1] /\ 1 \in 1..n
  BY <2>15
<3>2. 1 \in 1..(i - 1)
  BY <1>0, <2>1, <2>15, <3>1
<3>3. u # <<>> /\ Head(u) = u[1]
  BY <1>0, <2>1, <2>6, <3>2
<3> QED
  BY <2>6, <3>1, <3>2, <3>3
<2>16. RemoveFirst(s, e) = u \o w
  BY <2>5 DEF u, w
<2> QED
  BY <2>6, <2>7, <2>11, <2>12, <2>13, <2>14, <2>15, <2>16, ListConcat
<1> QED
  BY <1>1, <1>2

\* A finite set put in any order.
LEMMA ListOrder ==
  ASSUME NEW S, IsFiniteSet(S), NEW h \in SetToSeqs(S)
  PROVE  h \in Seq(S) /\ IsInjective(h) /\ ToSet(h) = S
<1> DEFINE n == Cardinality(S)
<1>1. n \in Nat
  BY FS_CardinalityType
<1>2. h \in [1..n -> S] /\ \A i, j \in 1..n : i # j => h[i] # h[j]
  BY DEF SetToSeqs
<1>3. h \in Seq(S) /\ IsInjective(h)
  BY <1>1, <1>2 DEF IsInjective
<1>4. IsFiniteSet(1..n) /\ Cardinality(1..n) = n
  BY <1>1, FS_Interval
<1>5. h \in Injection(1..n, S)
  BY <1>2 DEF Injection, IsInjective
<1>6. h \in Surjection(1..n, S)
  BY <1>4, <1>5, FS_Injection
<1>7. ToSet(h) = S
  BY <1>2, <1>6 DEF ToSet, Surjection
<1> QED
  BY <1>3, <1>7

(***************************************************************************)
(* The inductive invariant.                                                *)
(***************************************************************************)

Waiting == {"send", "recv", "alt"}

\* Where the kernel process of a thread can stand in each state of the thread; the
\* one inside a call that holds the VM is the head of the run queue.
Places ==
  \A p \in Prog :
    /\ state[p] \in {"none", "broken"} \cup Waiting => blk[p] = "no"
    /\ state[p] = "ready" => blk[p] \in {"no", "in"}
    /\ state[p] = "release" => blk[p] \in {"sys", "block", "sleep", "woken", "intr", "dying"}
    /\ state[p] = "exiting" => blk[p] \in {"no", "in", "sys", "block", "sleep", "woken", "intr"}
    /\ blk[p] = "in" => runq # <<>> /\ currun = p

\* Nobody waits to receive on two channels, but in an alt.
OneRecv ==
  \A p \in Prog, c, d \in Chan :
    p \in ToSet(ch[c].recv) /\ p \in ToSet(ch[d].recv) => c = d

\* What channels and threads say of each other.
Agree == WaitConsistent /\ OneRecv /\ AltMarksExact /\ NoMissedMeeting

IInv == TypeOK /\ RunqConsistent /\ Places /\ Agree

(***************************************************************************)
(* The table of channels: what the operators on it change.                 *)
(***************************************************************************)

Channel == [send : Seq(Prog), sendalt : Prog \cup {NoProg},
            recv : Seq(Prog), recvalt : Prog \cup {NoProg}, sendq : Seq(Msg)]
Table == [Chan -> Channel]

SameLists(t, u) ==
  \A d \in Chan : u[d].send = t[d].send /\ u[d].recv = t[d].recv /\ u[d].sendq = t[d].sendq

\* u is t with the alt a of p marked: its entries had no mark.
Marked(t, u, p, a) ==
  /\ SameLists(t, u)
  /\ \A d \in Chan :
       /\ d \in a.send => t[d].sendalt = NoProg /\ u[d].sendalt = p
       /\ d \notin a.send => u[d].sendalt = t[d].sendalt
       /\ d \in a.recv => t[d].recvalt = NoProg /\ u[d].recvalt = p
       /\ d \notin a.recv => u[d].recvalt = t[d].recvalt

\* u is t with the marks of the alt a of p cancelled.
Unmarked(t, u, p, a) ==
  /\ SameLists(t, u)
  /\ \A d \in Chan :
       /\ u[d].sendalt = IF d \in a.send /\ t[d].sendalt = p THEN NoProg ELSE t[d].sendalt
       /\ u[d].recvalt = IF d \in a.recv /\ t[d].recvalt = p THEN NoProg ELSE t[d].recvalt

LEMMA AltdoneTable ==
  ASSUME NEW t \in Table, NEW p \in Prog, NEW a \in AltTable
  PROVE  altdone(t, p, a) \in Table /\ Unmarked(t, altdone(t, p, a), p, a)
<1>1. ASSUME NEW d \in Chan
      PROVE  LET r == altdone(t, p, a)[d]
             IN /\ r \in Channel
                /\ r.send = t[d].send /\ r.recv = t[d].recv /\ r.sendq = t[d].sendq
                /\ r.sendalt = IF d \in a.send /\ t[d].sendalt = p THEN NoProg ELSE t[d].sendalt
                /\ r.recvalt = IF d \in a.recv /\ t[d].recvalt = p THEN NoProg ELSE t[d].recvalt
  BY DEF altdone, Table, Channel
<1>2. altdone(t, p, a) \in Table
  BY <1>1 DEF altdone, Table
<1> QED
  BY <1>1, <1>2 DEF Unmarked, SameLists

\* The marks of an alt, made by a thread that has none yet.
LEMMA AltMarkTable ==
  ASSUME TypeOK, NEW p \in Prog, NEW a \in AltTable, \A d \in Chan : ch[d].recvalt # p
  PROVE  /\ AltMark(ch, p, a) \in Table
         /\ SameLists(ch, AltMark(ch, p, a))
         /\ \A d \in Chan :
              LET r == AltMark(ch, p, a)[d]
                  m == d \in a.recv /\ ch[d].recvalt = NoProg
              IN /\ r.recvalt = IF m THEN p ELSE ch[d].recvalt
                 /\ r.sendalt = IF d \in a.send /\ ~ m /\ ch[d].sendalt = NoProg
                                THEN p ELSE ch[d].sendalt
<1>0. ch \in Table
  BY DEF TypeOK, Table, Channel
<1>1. ASSUME NEW d \in Chan
      PROVE  LET r == AltMark(ch, p, a)[d]
             IN /\ r \in Channel
                /\ r.send = ch[d].send /\ r.recv = ch[d].recv /\ r.sendq = ch[d].sendq
                /\ r.recvalt = IF d \in a.recv /\ ch[d].recvalt = NoProg THEN p ELSE ch[d].recvalt
                /\ r.sendalt = IF d \in a.send /\ r.recvalt # p /\ ch[d].sendalt = NoProg
                                THEN p ELSE ch[d].sendalt
  BY <1>0 DEF AltMark, Table, Channel
<1>2. AltMark(ch, p, a) \in Table
  BY <1>1 DEF AltMark, Table
<1> QED
  BY <1>1, <1>2 DEF SameLists

LEMMA AltMarkGood ==
  ASSUME TypeOK, NEW p \in Prog, NEW a \in AltTable, \A d \in Chan : ch[d].recvalt # p,
         ~ AltBad(a, p)
  PROVE  Marked(ch, AltMark(ch, p, a), p, a)
  BY AltMarkTable DEF Marked, AltBad, AltTable

\* An alt that finds an error, or nothing to do, leaves the channels as they were.
LEMMA AltUndo ==
  ASSUME TypeOK, NEW p \in Prog, NEW a \in AltTable,
         \A d \in Chan : ch[d].recvalt # p /\ ch[d].sendalt # p
  PROVE  altdone(AltMark(ch, p, a), p, a) = ch
<1> DEFINE m == AltMark(ch, p, a)
           u == altdone(m, p, a)
<1>1. m \in Table
  BY AltMarkTable
<1>2. u \in Table /\ Unmarked(m, u, p, a)
  BY <1>1, AltdoneTable
<1>3. ch \in Table
  BY DEF TypeOK, Table, Channel
<1> HIDE DEF u
<1>4. ASSUME NEW d \in Chan PROVE u[d] = ch[d]
<2>1. /\ u[d].send = ch[d].send /\ u[d].recv = ch[d].recv /\ u[d].sendq = ch[d].sendq
      /\ u[d].sendalt = ch[d].sendalt /\ u[d].recvalt = ch[d].recvalt
  BY <1>2, AltMarkTable DEF Unmarked, SameLists
<2>2. u[d] \in Channel /\ ch[d] \in Channel
  BY <1>2, <1>3 DEF Table
<2> QED
  BY <2>1, <2>2 DEF Channel
<1>5. u = ch
  BY <1>2, <1>3, <1>4 DEF Table
<1> QED
  BY <1>5 DEF u

LEMMA TakeReceiverTable ==
  ASSUME TypeOK, NEW t \in Table, NEW c \in Chan, RecvWaits(t, c)
  PROVE  LET u == TakeReceiver(t, c)
             q == t[c].recvalt
         IN /\ u \in Table
            /\ q # NoProg =>
                 /\ q \in Prog /\ SameLists(t, u)
                 /\ \A d \in Chan :
                      /\ u[d].sendalt = IF d \in alt[q].send /\ t[d].sendalt = q
                                        THEN NoProg ELSE t[d].sendalt
                      /\ u[d].recvalt = IF d = c \/ (d \in alt[q].recv /\ t[d].recvalt = q)
                                        THEN NoProg ELSE t[d].recvalt
            /\ q = NoProg =>
                 \A d \in Chan :
                   /\ u[d].recv = IF d = c THEN Tail(t[c].recv) ELSE t[d].recv
                   /\ u[d].send = t[d].send /\ u[d].sendq = t[d].sendq
                   /\ u[d].sendalt = t[d].sendalt /\ u[d].recvalt = t[d].recvalt
<1> DEFINE q == t[c].recvalt
           v == [t EXCEPT ![c].recvalt = NoProg]
           u == TakeReceiver(t, c)
<1>1. CASE q # NoProg
<2>1. q \in Prog /\ alt[q] \in AltTable
  BY <1>1 DEF Table, Channel, TypeOK
<2>2. /\ v \in Table /\ SameLists(t, v)
      /\ \A d \in Chan : v[d].sendalt = t[d].sendalt
                       /\ v[d].recvalt = IF d = c THEN NoProg ELSE t[d].recvalt
  BY DEF Table, Channel, SameLists
<2>3. u = altdone(v, q, alt[q])
  BY <1>1 DEF TakeReceiver
<2>4. u \in Table /\ Unmarked(v, u, q, alt[q])
  BY <2>1, <2>2, <2>3, AltdoneTable
<2>5. NoProg # q /\ NoProg \notin Prog
  BY <1>1, NilAssumption
<2> HIDE DEF v, u, q
<2>6. SameLists(t, u)
  BY <2>2, <2>4 DEF SameLists, Unmarked
<2>7. ASSUME NEW d \in Chan
      PROVE  /\ u[d].sendalt = IF d \in alt[q].send /\ t[d].sendalt = q THEN NoProg ELSE t[d].sendalt
             /\ u[d].recvalt = IF d = c \/ (d \in alt[q].recv /\ t[d].recvalt = q)
                               THEN NoProg ELSE t[d].recvalt
  BY <2>2, <2>4, <2>5 DEF Unmarked
<2> QED
  BY <1>1, <2>1, <2>4, <2>6, <2>7 DEF u, q
<1>2. CASE q = NoProg
<2>1. u = [t EXCEPT ![c].recv = Tail(@)]
  BY <1>2 DEF TakeReceiver
<2>2. Tail(t[c].recv) \in Seq(Prog)
  BY <1>2 DEF RecvWaits, Table, Channel
<2>3. t[c] \in Channel /\ [t[c] EXCEPT !.recv = Tail(@)] \in Channel
  BY <2>2 DEF Table, Channel
<2>4. u \in Table /\ u[c] = [t[c] EXCEPT !.recv = Tail(@)] /\ \A d \in Chan : d # c => u[d] = t[d]
  BY <2>1, <2>3 DEF Table
<2> HIDE DEF u, q
<2>5. /\ u[c].recv = Tail(t[c].recv) /\ u[c].send = t[c].send /\ u[c].sendq = t[c].sendq
      /\ u[c].sendalt = t[c].sendalt /\ u[c].recvalt = t[c].recvalt
  BY <2>3, <2>4 DEF Channel
<2> QED
  BY <1>2, <2>4, <2>5 DEF u, q
<1> QED
  BY <1>1, <1>2

LEMMA TakeSenderTable ==
  ASSUME TypeOK, NEW t \in Table, NEW c \in Chan, SendWaits(t, c)
  PROVE  LET u == TakeSender(t, c)
             q == t[c].sendalt
         IN /\ u \in Table
            /\ q # NoProg =>
                 /\ q \in Prog /\ SameLists(t, u)
                 /\ \A d \in Chan :
                      /\ u[d].recvalt = IF d \in alt[q].recv /\ t[d].recvalt = q
                                        THEN NoProg ELSE t[d].recvalt
                      /\ u[d].sendalt = IF d = c \/ (d \in alt[q].send /\ t[d].sendalt = q)
                                        THEN NoProg ELSE t[d].sendalt
            /\ q = NoProg =>
                 \A d \in Chan :
                   /\ u[d].send = IF d = c THEN Tail(t[c].send) ELSE t[d].send
                   /\ u[d].recv = t[d].recv /\ u[d].sendq = t[d].sendq
                   /\ u[d].recvalt = t[d].recvalt /\ u[d].sendalt = t[d].sendalt
<1> DEFINE q == t[c].sendalt
           v == [t EXCEPT ![c].sendalt = NoProg]
           u == TakeSender(t, c)
<1>1. CASE q # NoProg
<2>1. q \in Prog /\ alt[q] \in AltTable
  BY <1>1 DEF Table, Channel, TypeOK
<2>2. /\ v \in Table /\ SameLists(t, v)
      /\ \A d \in Chan : v[d].recvalt = t[d].recvalt
                       /\ v[d].sendalt = IF d = c THEN NoProg ELSE t[d].sendalt
  BY DEF Table, Channel, SameLists
<2>3. u = altdone(v, q, alt[q])
  BY <1>1 DEF TakeSender
<2>4. u \in Table /\ Unmarked(v, u, q, alt[q])
  BY <2>1, <2>2, <2>3, AltdoneTable
<2>5. NoProg # q /\ NoProg \notin Prog
  BY <1>1, NilAssumption
<2> HIDE DEF v, u, q
<2>6. SameLists(t, u)
  BY <2>2, <2>4 DEF SameLists, Unmarked
<2>7. ASSUME NEW d \in Chan
      PROVE  /\ u[d].recvalt = IF d \in alt[q].recv /\ t[d].recvalt = q THEN NoProg ELSE t[d].recvalt
             /\ u[d].sendalt = IF d = c \/ (d \in alt[q].send /\ t[d].sendalt = q)
                               THEN NoProg ELSE t[d].sendalt
  BY <2>2, <2>4, <2>5 DEF Unmarked
<2> QED
  BY <1>1, <2>1, <2>4, <2>6, <2>7 DEF u, q
<1>2. CASE q = NoProg
<2>1. u = [t EXCEPT ![c].send = Tail(@)]
  BY <1>2 DEF TakeSender
<2>2. Tail(t[c].send) \in Seq(Prog)
  BY <1>2 DEF SendWaits, Table, Channel
<2>3. t[c] \in Channel /\ [t[c] EXCEPT !.send = Tail(@)] \in Channel
  BY <2>2 DEF Table, Channel
<2>4. u \in Table /\ u[c] = [t[c] EXCEPT !.send = Tail(@)] /\ \A d \in Chan : d # c => u[d] = t[d]
  BY <2>1, <2>3 DEF Table
<2> HIDE DEF u, q
<2>5. /\ u[c].send = Tail(t[c].send) /\ u[c].recv = t[c].recv /\ u[c].sendq = t[c].sendq
      /\ u[c].recvalt = t[c].recvalt /\ u[c].sendalt = t[c].sendalt
  BY <2>3, <2>4 DEF Channel
<2> QED
  BY <1>2, <2>4, <2>5 DEF u, q
<1> QED
  BY <1>1, <1>2

\* The threads of Q have left the wait lists and the alt marks, nobody else has.
Leaves(t, u, Q) ==
  /\ u \in Table
  /\ \A d \in Chan :
       /\ IsInjective(u[d].send) /\ ToSet(u[d].send) = ToSet(t[d].send) \ Q
       /\ IsInjective(u[d].recv) /\ ToSet(u[d].recv) = ToSet(t[d].recv) \ Q
       /\ u[d].sendalt = IF t[d].sendalt \in Q THEN NoProg ELSE t[d].sendalt
       /\ u[d].recvalt = IF t[d].recvalt \in Q THEN NoProg ELSE t[d].recvalt

SameQueues(t, u) == \A d \in Chan : u[d].sendq = t[d].sendq

\* Nothing the channels know of changes for p: it stays what it waits for, if anything.
Bystander(p) ==
  /\ state[p] \in Waiting \/ state'[p] \in Waiting =>
       /\ state'[p] = state[p] /\ chan'[p] = chan[p] /\ alt'[p] = alt[p]
       /\ kill'[p] = kill[p]
  /\ Hooked(p)' /\ ptr'[p] <=> Hooked(p) /\ ptr[p]
  /\ blk'[p] = "sleep" => kill'[p] = "no" \/ (blk[p] = "sleep" /\ kill'[p] = kill[p])

\* A thread that waits for nothing.
Idle(p) == state[p] \notin Waiting /\ ~ (Hooked(p) /\ ptr[p]) /\ blk[p] # "sleep"

\* An idle thread is nowhere in the table.
LEMMA IdleNowhere ==
  ASSUME TypeOK, Agree, NEW p \in Prog, Idle(p), NEW d \in Chan
  PROVE  /\ p \notin ToSet(ch[d].send) /\ p \notin ToSet(ch[d].recv)
         /\ ch[d].sendalt # p /\ ch[d].recvalt # p
  BY DEF Agree, WaitConsistent, AltMarksExact, Idle, Hooked, Waiting

\* The receiver that is taken, by an instruction (a is empty) or by an alt of p,
\* leaves every place it waited in, and the marks of p go.
LEMMA MeetReceiver ==
  ASSUME TypeOK, Places, Agree, NEW p \in Prog, Idle(p), NEW a \in AltTable,
         NEW t \in Table, Marked(ch, t, p, a), NEW c \in Chan, c \notin a.recv, RecvWaits(ch, c),
         NEW u \in Table, Unmarked(TakeReceiver(t, c), u, p, a)
  PROVE  LET q == Receiver(t, c)
         IN /\ q \in Prog /\ q # p
            /\ \/ state[q] \in {"alt", "recv"}
               \/ Hooked(q) /\ ptr[q] /\ state[q] \in {"release", "exiting"}
            /\ q \in ToSet(ch[c].recv) \/ ch[c].recvalt = q
            /\ Leaves(ch, u, {q}) /\ SameQueues(ch, u)
<1> DEFINE q == Receiver(t, c)
           v == TakeReceiver(t, c)
<1>0. /\ ch \in Table /\ NoProg \notin Prog /\ t[c].recvalt = ch[c].recvalt /\ RecvWaits(t, c)
      /\ \A d \in Chan : t[d].send = ch[d].send /\ t[d].recv = ch[d].recv /\ t[d].sendq = ch[d].sendq
  BY NilAssumption DEF TypeOK, Table, Channel, Marked, SameLists, RecvWaits
<1>1. \A d \in Chan : /\ p \notin ToSet(ch[d].send) /\ p \notin ToSet(ch[d].recv)
                      /\ ch[d].sendalt # p /\ ch[d].recvalt # p
  BY IdleNowhere
<1>2. \A d \in Chan : IsInjective(ch[d].send) /\ IsInjective(ch[d].recv)
  BY DEF Agree, WaitConsistent
<1>3. CASE ch[c].recvalt # NoProg
<2>1. q = ch[c].recvalt /\ q = t[c].recvalt /\ q \in Prog /\ q # p
  BY <1>0, <1>1, <1>3 DEF Receiver, Table, Channel
<2>2. state[q] = "alt" /\ c \in alt[q].recv /\ ~ Hooked(q)
  BY <2>1, ZenonT(60) DEF Agree, AltMarksExact, Places, Waiting, Hooked
<2>3. \A d \in Chan : /\ ch[d].sendalt = q <=> d \in alt[q].send
                      /\ ch[d].recvalt = q <=> d \in alt[q].recv
  BY <2>1, <2>2 DEF Agree, AltMarksExact
<2>4. \A d \in Chan : q \notin ToSet(ch[d].send) /\ q \notin ToSet(ch[d].recv)
  BY <2>1, <2>2 DEF Agree, WaitConsistent, Hooked
<2>5. /\ v \in Table /\ SameLists(t, v)
      /\ \A d \in Chan :
           /\ v[d].sendalt = IF d \in alt[q].send /\ t[d].sendalt = q THEN NoProg ELSE t[d].sendalt
           /\ v[d].recvalt = IF d = c \/ (d \in alt[q].recv /\ t[d].recvalt = q)
                             THEN NoProg ELSE t[d].recvalt
  BY <1>0, <1>3, <2>1, TakeReceiverTable
<2> HIDE DEF q, v
<2>6. ASSUME NEW d \in Chan
      PROVE  /\ u[d].send = ch[d].send /\ u[d].recv = ch[d].recv /\ u[d].sendq = ch[d].sendq
             /\ u[d].sendalt = IF ch[d].sendalt = q THEN NoProg ELSE ch[d].sendalt
             /\ u[d].recvalt = IF ch[d].recvalt = q THEN NoProg ELSE ch[d].recvalt
<3>1. /\ u[d].send = v[d].send /\ u[d].recv = v[d].recv /\ u[d].sendq = v[d].sendq
      /\ u[d].sendalt = IF d \in a.send /\ v[d].sendalt = p THEN NoProg ELSE v[d].sendalt
      /\ u[d].recvalt = IF d \in a.recv /\ v[d].recvalt = p THEN NoProg ELSE v[d].recvalt
  BY DEF v, Unmarked, SameLists
<3>2. /\ d \in a.send => ch[d].sendalt = NoProg /\ t[d].sendalt = p
      /\ d \notin a.send => t[d].sendalt = ch[d].sendalt
      /\ d \in a.recv => ch[d].recvalt = NoProg /\ t[d].recvalt = p
      /\ d \notin a.recv => t[d].recvalt = ch[d].recvalt
  BY DEF Marked
<3>6. /\ v[d].sendalt = IF d \in alt[q].send /\ t[d].sendalt = q THEN NoProg ELSE t[d].sendalt
      /\ v[d].recvalt = IF d = c \/ (d \in alt[q].recv /\ t[d].recvalt = q)
                        THEN NoProg ELSE t[d].recvalt
  BY <2>5
<3>7. /\ ch[d].sendalt = q <=> d \in alt[q].send
      /\ ch[d].recvalt = q <=> d \in alt[q].recv
  BY <2>3
<3>8. q # p /\ NoProg # p /\ NoProg # q /\ ch[d].sendalt # p /\ ch[d].recvalt # p
  BY <1>0, <1>1, <2>1
<3>3. u[d].sendalt = IF ch[d].sendalt = q THEN NoProg ELSE ch[d].sendalt
  BY <3>1, <3>2, <3>6, <3>7, <3>8
<3>4. u[d].recvalt = IF ch[d].recvalt = q THEN NoProg ELSE ch[d].recvalt
  BY <2>1, <3>1, <3>2, <3>6, <3>7, <3>8
<3>5. u[d].send = ch[d].send /\ u[d].recv = ch[d].recv /\ u[d].sendq = ch[d].sendq
  BY <1>0, <2>5, <3>1 DEF SameLists
<3> QED
  BY <3>3, <3>4, <3>5
<2>7. Leaves(ch, u, {q}) /\ SameQueues(ch, u)
  BY <1>2, <2>4, <2>6 DEF Leaves, SameQueues
<2> QED
  BY <2>1, <2>2, <2>7 DEF q
<1>4. CASE ch[c].recvalt = NoProg
<2>1. ch[c].recv # <<>> /\ q = Head(ch[c].recv) /\ ch[c].recv \in Seq(Prog)
  BY <1>0, <1>4 DEF Receiver, RecvWaits, Table, Channel
<2>2. /\ q \in Prog /\ q \in ToSet(ch[c].recv) /\ Tail(ch[c].recv) \in Seq(Prog)
      /\ IsInjective(Tail(ch[c].recv)) /\ ToSet(Tail(ch[c].recv)) = ToSet(ch[c].recv) \ {q}
  BY <1>2, <2>1, ListTail
<2>3. v \in Table /\ \A d \in Chan :
        /\ v[d].recv = IF d = c THEN Tail(t[c].recv) ELSE t[d].recv
        /\ v[d].send = t[d].send /\ v[d].sendq = t[d].sendq
        /\ v[d].sendalt = t[d].sendalt /\ v[d].recvalt = t[d].recvalt
  BY <1>0, <1>4, TakeReceiverTable
<2> HIDE DEF q, v
<2>4. q # p /\ \/ state[q] = "recv"
               \/ Hooked(q) /\ ptr[q] /\ state[q] \in {"release", "exiting"}
<3>1. state[q] = "recv" \/ (Hooked(q) /\ ptr[q])
  BY <2>2 DEF Agree, WaitConsistent, Hooked
<3>2. Hooked(q) => state[q] \in {"release", "exiting"}
  BY <2>2 DEF Places, Waiting, Hooked, TypeOK, ProgState
<3> QED
  BY <1>1, <2>2, <3>1, <3>2
<2>5. \A d \in Chan : /\ q \notin ToSet(ch[d].send) /\ (d # c => q \notin ToSet(ch[d].recv))
                      /\ ch[d].sendalt # q /\ ch[d].recvalt # q
  BY <2>2, <2>4 DEF Agree, WaitConsistent, OneRecv, AltMarksExact
<2>6. ASSUME NEW d \in Chan
      PROVE  /\ u[d].send = ch[d].send /\ u[d].sendq = ch[d].sendq
             /\ u[d].recv = IF d = c THEN Tail(ch[c].recv) ELSE ch[d].recv
             /\ u[d].sendalt = ch[d].sendalt /\ u[d].recvalt = ch[d].recvalt
<3>1. /\ u[d].send = v[d].send /\ u[d].recv = v[d].recv /\ u[d].sendq = v[d].sendq
      /\ u[d].sendalt = IF d \in a.send /\ v[d].sendalt = p THEN NoProg ELSE v[d].sendalt
      /\ u[d].recvalt = IF d \in a.recv /\ v[d].recvalt = p THEN NoProg ELSE v[d].recvalt
  BY DEF v, Unmarked, SameLists
<3>2. /\ d \in a.send => ch[d].sendalt = NoProg /\ t[d].sendalt = p
      /\ d \notin a.send => t[d].sendalt = ch[d].sendalt
      /\ d \in a.recv => ch[d].recvalt = NoProg /\ t[d].recvalt = p
      /\ d \notin a.recv => t[d].recvalt = ch[d].recvalt
  BY DEF Marked
<3> QED
  BY <1>0, <2>3, <3>1, <3>2
<2>7. Leaves(ch, u, {q})
  BY <1>2, <2>2, <2>5, <2>6 DEF Leaves
<2> QED
  BY <2>2, <2>4, <2>6, <2>7 DEF q, SameQueues
<1> QED
  BY <1>3, <1>4

\* The same for the sender that is taken.
LEMMA MeetSender ==
  ASSUME TypeOK, Places, Agree, NEW p \in Prog, Idle(p), NEW a \in AltTable,
         NEW t \in Table, Marked(ch, t, p, a), NEW c \in Chan, c \notin a.send, SendWaits(ch, c),
         NEW u \in Table, Unmarked(TakeSender(t, c), u, p, a)
  PROVE  LET q == Sender(t, c)
         IN /\ q \in Prog /\ q # p
            /\ state[q] \in {"alt", "send"}
            /\ q \in ToSet(ch[c].send) \/ ch[c].sendalt = q
            /\ Leaves(ch, u, {q}) /\ SameQueues(ch, u)
<1> DEFINE q == Sender(t, c)
           v == TakeSender(t, c)
<1>0. /\ ch \in Table /\ NoProg \notin Prog /\ t[c].sendalt = ch[c].sendalt /\ SendWaits(t, c)
      /\ \A d \in Chan : t[d].recv = ch[d].recv /\ t[d].send = ch[d].send /\ t[d].sendq = ch[d].sendq
  BY NilAssumption DEF TypeOK, Table, Channel, Marked, SameLists, SendWaits
<1>1. \A d \in Chan : /\ p \notin ToSet(ch[d].recv) /\ p \notin ToSet(ch[d].send)
                      /\ ch[d].recvalt # p /\ ch[d].sendalt # p
  BY IdleNowhere
<1>2. \A d \in Chan : IsInjective(ch[d].recv) /\ IsInjective(ch[d].send)
  BY DEF Agree, WaitConsistent
<1>3. CASE ch[c].sendalt # NoProg
<2>1. q = ch[c].sendalt /\ q = t[c].sendalt /\ q \in Prog /\ q # p
  BY <1>0, <1>1, <1>3 DEF Sender, Table, Channel
<2>2. state[q] = "alt" /\ c \in alt[q].send /\ ~ Hooked(q)
  BY <2>1, ZenonT(60) DEF Agree, AltMarksExact, Places, Waiting, Hooked
<2>3. \A d \in Chan : /\ ch[d].recvalt = q <=> d \in alt[q].recv
                      /\ ch[d].sendalt = q <=> d \in alt[q].send
  BY <2>1, <2>2 DEF Agree, AltMarksExact
<2>4. \A d \in Chan : q \notin ToSet(ch[d].recv) /\ q \notin ToSet(ch[d].send)
  BY <2>1, <2>2 DEF Agree, WaitConsistent, Hooked
<2>5. /\ v \in Table /\ SameLists(t, v)
      /\ \A d \in Chan :
           /\ v[d].recvalt = IF d \in alt[q].recv /\ t[d].recvalt = q THEN NoProg ELSE t[d].recvalt
           /\ v[d].sendalt = IF d = c \/ (d \in alt[q].send /\ t[d].sendalt = q)
                             THEN NoProg ELSE t[d].sendalt
  BY <1>0, <1>3, <2>1, TakeSenderTable
<2> HIDE DEF q, v
<2>6. ASSUME NEW d \in Chan
      PROVE  /\ u[d].recv = ch[d].recv /\ u[d].send = ch[d].send /\ u[d].sendq = ch[d].sendq
             /\ u[d].recvalt = IF ch[d].recvalt = q THEN NoProg ELSE ch[d].recvalt
             /\ u[d].sendalt = IF ch[d].sendalt = q THEN NoProg ELSE ch[d].sendalt
<3>1. /\ u[d].recv = v[d].recv /\ u[d].send = v[d].send /\ u[d].sendq = v[d].sendq
      /\ u[d].recvalt = IF d \in a.recv /\ v[d].recvalt = p THEN NoProg ELSE v[d].recvalt
      /\ u[d].sendalt = IF d \in a.send /\ v[d].sendalt = p THEN NoProg ELSE v[d].sendalt
  BY DEF v, Unmarked, SameLists
<3>2. /\ d \in a.recv => ch[d].recvalt = NoProg /\ t[d].recvalt = p
      /\ d \notin a.recv => t[d].recvalt = ch[d].recvalt
      /\ d \in a.send => ch[d].sendalt = NoProg /\ t[d].sendalt = p
      /\ d \notin a.send => t[d].sendalt = ch[d].sendalt
  BY DEF Marked
<3>6. /\ v[d].recvalt = IF d \in alt[q].recv /\ t[d].recvalt = q THEN NoProg ELSE t[d].recvalt
      /\ v[d].sendalt = IF d = c \/ (d \in alt[q].send /\ t[d].sendalt = q)
                        THEN NoProg ELSE t[d].sendalt
  BY <2>5
<3>7. /\ ch[d].recvalt = q <=> d \in alt[q].recv
      /\ ch[d].sendalt = q <=> d \in alt[q].send
  BY <2>3
<3>8. q # p /\ NoProg # p /\ NoProg # q /\ ch[d].recvalt # p /\ ch[d].sendalt # p
  BY <1>0, <1>1, <2>1
<3>3. u[d].recvalt = IF ch[d].recvalt = q THEN NoProg ELSE ch[d].recvalt
  BY <3>1, <3>2, <3>6, <3>7, <3>8
<3>4. u[d].sendalt = IF ch[d].sendalt = q THEN NoProg ELSE ch[d].sendalt
  BY <2>1, <3>1, <3>2, <3>6, <3>7, <3>8
<3>5. u[d].recv = ch[d].recv /\ u[d].send = ch[d].send /\ u[d].sendq = ch[d].sendq
  BY <1>0, <2>5, <3>1 DEF SameLists
<3> QED
  BY <3>3, <3>4, <3>5
<2>7. Leaves(ch, u, {q}) /\ SameQueues(ch, u)
  BY <1>2, <2>4, <2>6 DEF Leaves, SameQueues
<2> QED
  BY <2>1, <2>2, <2>7 DEF q
<1>4. CASE ch[c].sendalt = NoProg
<2>1. ch[c].send # <<>> /\ q = Head(ch[c].send) /\ ch[c].send \in Seq(Prog)
  BY <1>0, <1>4 DEF Sender, SendWaits, Table, Channel
<2>2. /\ q \in Prog /\ q \in ToSet(ch[c].send) /\ Tail(ch[c].send) \in Seq(Prog)
      /\ IsInjective(Tail(ch[c].send)) /\ ToSet(Tail(ch[c].send)) = ToSet(ch[c].send) \ {q}
  BY <1>2, <2>1, ListTail
<2>3. v \in Table /\ \A d \in Chan :
        /\ v[d].send = IF d = c THEN Tail(t[c].send) ELSE t[d].send
        /\ v[d].recv = t[d].recv /\ v[d].sendq = t[d].sendq
        /\ v[d].recvalt = t[d].recvalt /\ v[d].sendalt = t[d].sendalt
  BY <1>0, <1>4, TakeSenderTable
<2> HIDE DEF q, v
<2>4. q # p /\ state[q] = "send" /\ chan[q] = c /\ ~ Hooked(q)
  BY <1>1, <2>2 DEF Agree, WaitConsistent, Places, Waiting, Hooked
<2>5. \A d \in Chan : /\ q \notin ToSet(ch[d].recv) /\ (d # c => q \notin ToSet(ch[d].send))
                      /\ ch[d].recvalt # q /\ ch[d].sendalt # q
  BY <2>2, <2>4 DEF Agree, WaitConsistent, AltMarksExact, Hooked
<2>6. ASSUME NEW d \in Chan
      PROVE  /\ u[d].recv = ch[d].recv /\ u[d].sendq = ch[d].sendq
             /\ u[d].send = IF d = c THEN Tail(ch[c].send) ELSE ch[d].send
             /\ u[d].recvalt = ch[d].recvalt /\ u[d].sendalt = ch[d].sendalt
<3>1. /\ u[d].recv = v[d].recv /\ u[d].send = v[d].send /\ u[d].sendq = v[d].sendq
      /\ u[d].recvalt = IF d \in a.recv /\ v[d].recvalt = p THEN NoProg ELSE v[d].recvalt
      /\ u[d].sendalt = IF d \in a.send /\ v[d].sendalt = p THEN NoProg ELSE v[d].sendalt
  BY DEF v, Unmarked, SameLists
<3>2. /\ d \in a.recv => ch[d].recvalt = NoProg /\ t[d].recvalt = p
      /\ d \notin a.recv => t[d].recvalt = ch[d].recvalt
      /\ d \in a.send => ch[d].sendalt = NoProg /\ t[d].sendalt = p
      /\ d \notin a.send => t[d].sendalt = ch[d].sendalt
  BY DEF Marked
<3> QED
  BY <1>0, <2>3, <3>1, <3>2
<2>7. Leaves(ch, u, {q})
  BY <1>2, <2>2, <2>5, <2>6 DEF Leaves
<2> QED
  BY <2>2, <2>4, <2>6, <2>7 DEF q, SameQueues
<1> QED
  BY <1>3, <1>4

\* When the threads of Q leave the table, stop waiting, and nothing changes for the
\* others, channels and threads still agree.
LEMMA LeavesKeep ==
  ASSUME TypeOK, Agree, NEW Q, Q \subseteq Prog,
         Leaves(ch, ch', Q), live' \subseteq Chan,
         \A d \in Chan : ch'[d].sendq # <<>> => ch[d].sendq # <<>> \/ ~ RecvWaits(ch, d),
         \A d \in Chan : d \notin live' => ch'[d] = cnewc,
         \A p \in Prog \ Q : Bystander(p),
         \A p \in Q : /\ state'[p] \notin Waiting /\ ~ (Hooked(p)' /\ ptr'[p])
                      /\ blk'[p] = "sleep" => kill'[p] = "no"
  PROVE  Agree'
<1>0. ch \in Table /\ ch' \in Table /\ NoProg \notin Prog /\ NoProg \notin Q
  BY NilAssumption DEF TypeOK, Table, Channel, Leaves
<1>1. \A d \in Chan :
        /\ ch[d].send = <<>> <=> ToSet(ch[d].send) = {}
        /\ ch[d].recv = <<>> <=> ToSet(ch[d].recv) = {}
        /\ ch'[d].send = <<>> <=> ToSet(ch'[d].send) = {}
        /\ ch'[d].recv = <<>> <=> ToSet(ch'[d].recv) = {}
<2> TAKE d \in Chan
<2>1. ch[d].send \in Seq(Prog) /\ ch[d].recv \in Seq(Prog)
      /\ ch'[d].send \in Seq(Prog) /\ ch'[d].recv \in Seq(Prog)
  BY <1>0 DEF Table, Channel
<2> QED
  BY <2>1, ListEmpty
<1>2. \A d \in Chan :
       /\ IsInjective(ch'[d].send) /\ ToSet(ch'[d].send) = ToSet(ch[d].send) \ Q
       /\ IsInjective(ch'[d].recv) /\ ToSet(ch'[d].recv) = ToSet(ch[d].recv) \ Q
       /\ ch'[d].sendalt = IF ch[d].sendalt \in Q THEN NoProg ELSE ch[d].sendalt
       /\ ch'[d].recvalt = IF ch[d].recvalt \in Q THEN NoProg ELSE ch[d].recvalt
  BY DEF Leaves
<1>3. NoMissedMeeting'
<2> SUFFICES ASSUME NEW d \in Chan,
                    ch'[d].send # <<>> \/ ch'[d].sendalt # NoProg \/ ch'[d].sendq # <<>>,
                    ch'[d].recv # <<>> \/ ch'[d].recvalt # NoProg
             PROVE  FALSE
  BY DEF NoMissedMeeting
<2>1. ch[d].recv # <<>> \/ ch[d].recvalt # NoProg
  BY <1>1, <1>2
<2>2. ch[d].send # <<>> \/ ch[d].sendalt # NoProg \/ ch[d].sendq # <<>>
  BY <1>1, <1>2, <2>1 DEF RecvWaits
<2> QED
  BY <2>1, <2>2 DEF Agree, NoMissedMeeting
<1>4. AltMarksExact'
<2> SUFFICES ASSUME NEW p \in Prog, NEW d \in Chan
             PROVE  /\ ch'[d].sendalt = p <=> state'[p] = "alt" /\ d \in alt'[p].send
                    /\ ch'[d].recvalt = p <=> state'[p] = "alt" /\ d \in alt'[p].recv
  BY DEF AltMarksExact
<2>1. /\ ch[d].sendalt = p <=> state[p] = "alt" /\ d \in alt[p].send
      /\ ch[d].recvalt = p <=> state[p] = "alt" /\ d \in alt[p].recv
  BY DEF Agree, AltMarksExact
<2>2. CASE p \in Q
  BY <1>0, <1>2, <2>2 DEF Waiting, Hooked
<2>3. CASE p \notin Q
  BY <1>0, <1>2, <2>1, <2>3 DEF Waiting, Bystander
<2> QED
  BY <2>2, <2>3
<1>5. OneRecv'
  BY <1>2 DEF Agree, OneRecv
<1>6. WaitConsistent'
<2>1. ASSUME NEW d \in Chan
      PROVE  /\ IsInjective(ch'[d].send) /\ IsInjective(ch'[d].recv)
             /\ d \notin live' => ch'[d] = cnewc
  BY <1>2
<2>2. ASSUME NEW p \in Prog, NEW d \in Chan
      PROVE  /\ p \in ToSet(ch'[d].send) <=> state'[p] = "send" /\ chan'[p] = d
             /\ p \in ToSet(ch'[d].recv) =>
                  \/ state'[p] = "recv" /\ chan'[p] = d
                  \/ Hooked(p)' /\ ptr'[p]
             /\ state'[p] = "recv" /\ chan'[p] = d => p \in ToSet(ch'[d].recv)
<3>1. /\ p \in ToSet(ch[d].send) <=> state[p] = "send" /\ chan[p] = d
      /\ p \in ToSet(ch[d].recv) =>
           \/ state[p] = "recv" /\ chan[p] = d
           \/ Hooked(p) /\ ptr[p]
      /\ state[p] = "recv" /\ chan[p] = d => p \in ToSet(ch[d].recv)
  BY DEF Agree, WaitConsistent
<3>2. CASE p \in Q
  BY <1>2, <3>2 DEF Waiting, Hooked
<3>3. CASE p \notin Q
  BY <1>2, <3>1, <3>3 DEF Waiting, Bystander, Hooked
<3> QED
  BY <3>2, <3>3
<2>3. ASSUME NEW p \in Prog, Hooked(p)', ptr'[p]
      PROVE  \E d \in live' : p \in ToSet(ch'[d].recv)
<3>1. p \notin Q /\ Hooked(p) /\ ptr[p]
  BY <2>3 DEF Bystander, Hooked
<3>2. PICK d \in live : p \in ToSet(ch[d].recv)
  BY <3>1 DEF Agree, WaitConsistent
<3>3. d \in Chan /\ p \in ToSet(ch'[d].recv)
  BY <1>2, <3>1, <3>2 DEF TypeOK
<3>4. ch'[d].recv # <<>>
  BY <1>1, <3>3
<3>5. ch'[d] # cnewc
  BY <3>4 DEF cnewc
<3> QED
  BY <3>3, <3>5
<2>4. ASSUME NEW p \in Prog, state'[p] \in Waiting \/ blk'[p] = "sleep" PROVE kill'[p] = "no"
<3>1. CASE p \in Q
  BY <2>4, <3>1 DEF Hooked, Waiting
<3>2. CASE p \notin Q
  BY <2>4, <3>2 DEF Bystander, Agree, WaitConsistent, Waiting
<3> QED
  BY <3>1, <3>2
<2> QED
  BY <2>1, <2>2, <2>3, <2>4 DEF WaitConsistent, Waiting, Hooked
<1> QED
  BY <1>3, <1>4, <1>5, <1>6 DEF Agree

\* A channel that is not allocated stays empty, when nothing is put in its queue.
LEMMA DeadStay ==
  ASSUME TypeOK, Agree, NEW Q, Q \subseteq Prog, Leaves(ch, ch', Q), live \subseteq live',
         \A d \in Chan : ch'[d].sendq # <<>> => ch[d].sendq # <<>> \/ d \in live',
         NEW d \in Chan, d \notin live'
  PROVE  ch'[d] = cnewc
<1>1. ch[d] = cnewc
  BY DEF Agree, WaitConsistent
<1>2. /\ ch'[d].sendq = <<>> /\ ToSet(ch'[d].send) = {} /\ ToSet(ch'[d].recv) = {}
      /\ ch'[d].sendalt = NoProg /\ ch'[d].recvalt = NoProg
<2>1. /\ ch[d].send = <<>> /\ ch[d].recv = <<>> /\ ch[d].sendq = <<>>
      /\ ch[d].sendalt = NoProg /\ ch[d].recvalt = NoProg
  BY <1>1 DEF cnewc
<2>2. ToSet(ch[d].send) = {} /\ ToSet(ch[d].recv) = {}
  BY <2>1 DEF ToSet
<2> QED
  BY <2>1, <2>2 DEF Leaves
<1>3. ch'[d] \in Channel /\ ch'[d].send \in Seq(Prog) /\ ch'[d].recv \in Seq(Prog)
  BY DEF Leaves, Table, Channel
<1>4. ch'[d].send = <<>> /\ ch'[d].recv = <<>>
  BY <1>2, <1>3, ListEmpty
<1> QED
  BY <1>2, <1>3, <1>4 DEF Channel, cnewc

\* Nobody leaves.
LEMMA NobodyLeaves ==
  ASSUME TypeOK, Agree
  PROVE  Leaves(ch, ch, {})
  BY DEF TypeOK, Table, Channel, Leaves, Agree, WaitConsistent

(***************************************************************************)
(* What a step does to the channels makes it a step of ChanAbs.            *)
(***************************************************************************)

Sends(t, p) == {d \in Chan : p \in ToSet(t[d].send) \/ t[d].sendalt = p}
Recvs(t, p) == {d \in Chan : p \in ToSet(t[d].recv) \/ t[d].recvalt = p}
Pairs(A, B) == {<<"send", c>> : c \in A} \cup {<<"recv", c>> : c \in B}
Buf(t) == [c \in Chan |-> t[c].sendq]

LEMMA OffersArePairs ==
  /\ Offers = [p \in Prog |-> Pairs(Sends(ch, p), Recvs(ch, p))]
  /\ Offers' = [p \in Prog |-> Pairs(Sends(ch', p), Recvs(ch', p))]
  BY DEF Offers, Pairs, Sends, Recvs

LEMMA PairsFacts ==
  ASSUME NEW A, NEW B
  PROVE  /\ \A c : <<"send", c>> \in Pairs(A, B) <=> c \in A
         /\ \A c : <<"recv", c>> \in Pairs(A, B) <=> c \in B
         /\ Pairs(A, B) = {} <=> A = {} /\ B = {}
<1>1. ASSUME NEW c PROVE <<"send", c>> \in Pairs(A, B) <=> c \in A
  BY DEF Pairs
<1>2. ASSUME NEW c PROVE <<"recv", c>> \in Pairs(A, B) <=> c \in B
  BY DEF Pairs
<1>3. Pairs(A, B) = {} <=> A = {} /\ B = {}
  BY DEF Pairs
<1> QED
  BY <1>1, <1>2, <1>3

\* What a thread offers, and that an idle one offers nothing.
LEMMA OffersOf ==
  ASSUME NEW p \in Prog
  PROVE  /\ Offers[p] = Pairs(Sends(ch, p), Recvs(ch, p))
         /\ \A c : <<"send", c>> \in Offers[p] <=> c \in Sends(ch, p)
         /\ \A c : <<"recv", c>> \in Offers[p] <=> c \in Recvs(ch, p)
         /\ IInv /\ Idle(p) => Offers[p] = {}
<1>1. Offers[p] = Pairs(Sends(ch, p), Recvs(ch, p))
  BY OffersArePairs
<1>2. ASSUME IInv, Idle(p) PROVE Sends(ch, p) = {} /\ Recvs(ch, p) = {}
  BY <1>2, IdleNowhere DEF IInv, Sends, Recvs
<1> QED
  BY <1>1, <1>2, PairsFacts

LEMMA LeavesOffers ==
  ASSUME IInv, NEW Q, Q \subseteq Prog, Leaves(ch, ch', Q)
  PROVE  Offers' = [p \in Prog |-> IF p \in Q THEN {} ELSE Offers[p]]
<1>1. ASSUME NEW p \in Prog, p \in Q PROVE Sends(ch', p) = {} /\ Recvs(ch', p) = {}
  BY <1>1, NilAssumption DEF Leaves, Sends, Recvs
<1>2. ASSUME NEW p \in Prog, p \notin Q PROVE Sends(ch', p) = Sends(ch, p) /\ Recvs(ch', p) = Recvs(ch, p)
  BY <1>2, NilAssumption DEF Leaves, Sends, Recvs
<1>3. ASSUME NEW p \in Prog
      PROVE  Pairs(Sends(ch', p), Recvs(ch', p)) = IF p \in Q THEN {} ELSE Offers[p]
<2>1. CASE p \in Q
  BY <1>1, <2>1, PairsFacts
<2>2. CASE p \notin Q
  BY <1>2, <2>2, OffersOf
<2> QED
  BY <2>1, <2>2
<1> QED
  BY <1>3, OffersArePairs

LEMMA BufSame ==
  ASSUME SameQueues(ch, ch')
  PROVE  Buf(ch') = Buf(ch)
  BY DEF SameQueues, Buf

\* A step that leaves the channels alone.
LEMMA AbsElse ==
  ASSUME ch' = ch, moved' = NoMsg
  PROVE  Abs!Next
<1>1. Offers' = Offers
  BY DEF Offers
<1> QED
  BY <1>1 DEF Abs!Next, Abs!Else, Abs!Still, Abs!NoMsg, NoMsg

\* A thread stops waiting, if it waited.
LEMMA AbsWithdraw ==
  ASSUME IInv, NEW p \in Prog, Leaves(ch, ch', {p}), SameQueues(ch, ch'), moved' = NoMsg
  PROVE  Abs!Next
<1>1. Offers' = [q \in Prog |-> IF q \in {p} THEN {} ELSE Offers[q]]
  BY LeavesOffers
<1>2. Offers = [q \in Prog |-> Offers[q]]
  BY OffersArePairs
<1>3. Offers' = [Offers EXCEPT ![p] = {}]
  BY <1>1, <1>2
<1>4. Buf(ch') = Buf(ch)
  BY BufSame
<1>5. CASE Offers[p] = {}
<2>1. Offers' = Offers
  BY <1>1, <1>2, <1>5
<2> QED
  BY <1>4, <2>1 DEF Abs!Next, Abs!Else, Abs!Still, Abs!NoMsg, NoMsg, Buf
<1>6. CASE Offers[p] # {}
  BY <1>3, <1>4, <1>6 DEF Abs!Next, Abs!Withdraw, Abs!Still, Abs!NoMsg, NoMsg, Buf
<1> QED
  BY <1>5, <1>6

\* A waiting q is met by an idle p.
LEMMA AbsMeet ==
  ASSUME IInv, NEW p \in Prog, NEW q \in Prog, p # q, Idle(p), NEW c \in Chan,
         Leaves(ch, ch', {q}), SameQueues(ch, ch'),
         \/ moved' = <<p, c, q>> /\ c \in Recvs(ch, q)
         \/ moved' = <<q, c, p>> /\ c \in Sends(ch, q)
  PROVE  Abs!Next
<1>1. Offers[p] = {}
  BY OffersOf
<1>2. Offers' = [r \in Prog |-> IF r \in {p, q} THEN {} ELSE Offers[r]]
  BY <1>1, LeavesOffers
<1>3. /\ Offers' = Abs!Clear(Offers, {p, q}, {}) /\ Offers' = Abs!Clear(Offers, {q, p}, {})
      /\ Buf(ch') = Buf(ch)
  BY <1>2, BufSame DEF Abs!Clear
<1>4. CASE moved' = <<p, c, q>> /\ c \in Recvs(ch, q)
<2>1. <<"recv", c>> \in Offers[q]
  BY <1>4, OffersOf
<2>2. Abs!Meet(p, q, c)
  BY <1>1, <1>3, <1>4, <2>1 DEF Abs!Meet, Buf
<2> QED
  BY <2>2 DEF Abs!Next
<1>5. CASE moved' = <<q, c, p>> /\ c \in Sends(ch, q)
<2>1. <<"send", c>> \in Offers[q]
  BY <1>5, OffersOf
<2>2. Abs!Meet(q, p, c)
  BY <1>1, <1>3, <1>5, <2>1 DEF Abs!Meet, Buf
<2> QED
  BY <2>2 DEF Abs!Next
<1> QED
  BY <1>4, <1>5

\* A channel at which nobody waits to receive, or to send, has no such offer.
LEMMA NobodyWaits ==
  ASSUME IInv, NEW c \in Chan
  PROVE  /\ ~ RecvWaits(ch, c) => \A q \in Prog : <<"recv", c>> \notin Offers[q]
         /\ ~ SendWaits(ch, c) => \A q \in Prog : <<"send", c>> \notin Offers[q]
<1>1. ASSUME NEW q \in Prog, ~ RecvWaits(ch, c) PROVE c \notin Recvs(ch, q)
  BY <1>1, NilAssumption DEF RecvWaits, Recvs, ToSet
<1>2. ASSUME NEW q \in Prog, ~ SendWaits(ch, c) PROVE c \notin Sends(ch, q)
  BY <1>2, NilAssumption DEF SendWaits, Sends, ToSet
<1> QED
  BY <1>1, <1>2, OffersOf

\* An idle p starts to wait, with offers that nobody waits for.
LEMMA AbsPost ==
  ASSUME IInv, NEW p \in Prog, Idle(p), NEW S, NEW R, S \cup R # {}, S \cap R = {},
         S \subseteq Chan, R \subseteq Chan,
         \A d \in S : ~ RecvWaits(ch, d),
         \A d \in R : ~ SendWaits(ch, d) /\ ch[d].sendq = <<>>,
         Sends(ch', p) = S, Recvs(ch', p) = R,
         \A q \in Prog \ {p} : Sends(ch', q) = Sends(ch, q) /\ Recvs(ch', q) = Recvs(ch, q),
         SameQueues(ch, ch'), moved' = NoMsg
  PROVE  Abs!Next
<1>1. Offers[p] = {}
  BY OffersOf
<1>2. Offers'[p] = Pairs(S, R)
  BY OffersArePairs
<1>3. /\ Pairs(S, R) # {}
      /\ \A c : <<"send", c>> \in Pairs(S, R) <=> c \in S
      /\ \A c : <<"recv", c>> \in Pairs(S, R) <=> c \in R
  BY PairsFacts
<1>4. \A q \in Prog \ {p} : Offers'[q] = Offers[q]
  BY OffersArePairs
<1>5. Buf(ch') = Buf(ch) /\ \A d \in Chan : Buf(ch)[d] = ch[d].sendq
  BY BufSame DEF Buf
<1>6. ASSUME NEW c \in Chan
      PROVE  /\ <<"send", c>> \in Offers'[p] =>
                  Abs!Waiting("recv", c) = {} /\ <<"recv", c>> \notin Offers'[p]
             /\ <<"recv", c>> \in Offers'[p] => Abs!Waiting("send", c) = {} /\ Buf(ch)[c] = <<>>
  BY <1>2, <1>3, <1>5, NobodyWaits DEF Abs!Waiting
<1>7. Abs!Post(p)
  BY <1>1, <1>2, <1>3, <1>4, <1>5, <1>6 DEF Abs!Post, Abs!Still, Abs!NoMsg, NoMsg, Buf
<1> QED
  BY <1>7 DEF Abs!Next

\* The offers when only the queue of c changes.
LEMMA QueueOffers ==
  ASSUME IInv, NEW c \in Chan, NEW x, ch' = [ch EXCEPT ![c].sendq = x]
  PROVE  Offers' = Offers /\ Buf(ch') = [Buf(ch) EXCEPT ![c] = x]
<1>1. ch \in Table
  BY DEF IInv, TypeOK, Table, Channel
<1>2. \A d \in Chan : /\ ch'[d].send = ch[d].send /\ ch'[d].recv = ch[d].recv
                      /\ ch'[d].sendalt = ch[d].sendalt /\ ch'[d].recvalt = ch[d].recvalt
                      /\ ch'[d].sendq = IF d = c THEN x ELSE ch[d].sendq
  BY <1>1 DEF Table, Channel
<1>3. \A p \in Prog : Sends(ch', p) = Sends(ch, p) /\ Recvs(ch', p) = Recvs(ch, p)
  BY <1>2 DEF Sends, Recvs
<1>4. Offers' = Offers
  BY <1>3, OffersArePairs
<1> QED
  BY <1>2, <1>4 DEF Buf

\* csendq puts a message at the end of the queue.
LEMMA AbsEnqueue ==
  ASSUME IInv, NEW p \in Prog, NEW c \in Chan, ~ RecvWaits(ch, c),
         ch' = [ch EXCEPT ![c].sendq = Append(ch[c].sendq, <<p, c>>)], moved' = NoMsg
  PROVE  Abs!Next
<1>1. Offers' = Offers /\ Buf(ch') = [Buf(ch) EXCEPT ![c] = Append(ch[c].sendq, <<p, c>>)]
  BY QueueOffers
<1>2. Buf(ch)[c] = ch[c].sendq
  BY DEF Buf
<1>3. Buf(ch') = [Buf(ch) EXCEPT ![c] = Append(@, <<p, c>>)]
  BY <1>1, <1>2
<1>4. Abs!Enqueue(p, c)
  BY <1>1, <1>3, NobodyWaits DEF Abs!Enqueue, Abs!Waiting, Abs!Still, Abs!NoMsg, NoMsg, Buf
<1> QED
  BY <1>4 DEF Abs!Next

\* An idle p takes the oldest message of the queue, when no sender waits.
LEMMA AbsDequeue ==
  ASSUME IInv, NEW p \in Prog, Idle(p), NEW c \in Chan, ~ SendWaits(ch, c), ch[c].sendq # <<>>,
         ch' = [ch EXCEPT ![c].sendq = Tail(ch[c].sendq)], moved' = Append(Head(ch[c].sendq), p)
  PROVE  Abs!Next
<1>1. Offers' = Offers /\ Buf(ch') = [Buf(ch) EXCEPT ![c] = Tail(ch[c].sendq)]
  BY QueueOffers
<1>2. Buf(ch)[c] = ch[c].sendq
  BY DEF Buf
<1>3. Buf(ch') = [Buf(ch) EXCEPT ![c] = Tail(@)]
  BY <1>1, <1>2
<1>4. Offers[p] = {}
  BY OffersOf
<1>5. Abs!Dequeue(p, c)
  BY <1>1, <1>2, <1>3, <1>4, NobodyWaits DEF Abs!Dequeue, Abs!Waiting, Buf
<1> QED
  BY <1>5 DEF Abs!Next

\* Who waits on a channel.
WaitsOn(c) == {p \in Prog : \/ p \in ToSet(ch[c].send) \/ ch[c].sendalt = p
                            \/ p \in ToSet(ch[c].recv) \/ ch[c].recvalt = p}

\* A channel dies: those and only those that wait on it stop waiting.
LEMMA AbsClose ==
  ASSUME IInv, NEW c \in Chan, Leaves(ch, ch', WaitsOn(c)), moved' = NoMsg,
         \A d \in Chan : ch'[d].sendq = IF d = c THEN <<>> ELSE ch[d].sendq
  PROVE  Abs!Next
<1>1. Abs!Waiting("send", c) \cup Abs!Waiting("recv", c) = WaitsOn(c)
<2>1. ASSUME NEW p \in Prog
      PROVE  p \in WaitsOn(c) <=> <<"send", c>> \in Offers[p] \/ <<"recv", c>> \in Offers[p]
  BY OffersOf DEF WaitsOn, Sends, Recvs
<2> QED
  BY <2>1 DEF Abs!Waiting, WaitsOn
<1>2. Offers' = [p \in Prog |-> IF p \in WaitsOn(c) THEN {} ELSE Offers[p]]
  BY LeavesOffers DEF WaitsOn
<1>3. Buf(ch') = [Buf(ch) EXCEPT ![c] = <<>>]
  BY DEF Buf
<1>4. Abs!Close(c)
  BY <1>1, <1>2, <1>3 DEF Abs!Close, Abs!Clear, Abs!Still, Abs!NoMsg, NoMsg, Buf
<1> QED
  BY <1>4 DEF Abs!Next

(***************************************************************************)
(* Threads: the run queue and where each thread stands.                    *)
(***************************************************************************)

\* p is the current thread, between instructions or in a call that holds the VM.
AtHead(p) == runq # <<>> /\ currun = p /\ blk[p] \in {"no", "in"}

\* Types of the variables the run queue is about, and what is said about them.
Threads ==
  /\ runq \in Seq(Prog) /\ state \in [Prog -> ProgState] /\ blk \in [Prog -> Where]
  /\ RunqConsistent /\ Places

LEMMA HeadFacts ==
  ASSUME IInv, NEW p \in Prog, AtHead(p)
  PROVE  /\ p \in ToSet(runq) /\ state[p] \in {"ready", "exiting"} /\ Idle(p)
         /\ Tail(runq) \in Seq(Prog) /\ IsInjective(Tail(runq))
         /\ ToSet(Tail(runq)) = ToSet(runq) \ {p}
<1>1. runq \in Seq(Prog) /\ runq # <<>> /\ IsInjective(runq) /\ p = Head(runq)
  BY DEF IInv, TypeOK, RunqConsistent, AtHead, currun
<1>2. /\ p \in ToSet(runq) /\ Tail(runq) \in Seq(Prog) /\ IsInjective(Tail(runq))
      /\ ToSet(Tail(runq)) = ToSet(runq) \ {p}
  BY <1>1, ListTail
<1>3. state[p] \in {"ready", "exiting"}
  BY <1>2 DEF IInv, RunqConsistent
<1>4. Idle(p)
  BY <1>3 DEF Idle, Waiting, Hooked, AtHead
<1> QED
  BY <1>2, <1>3, <1>4

\* The states a thread can be in outside the run queue, with where it stands.
Outside(st, b) ==
  \/ st \in {"none", "broken"} \cup Waiting /\ b = "no"
  \/ st = "release" /\ b \in {"sys", "block", "sleep", "woken", "intr", "dying"}

\* The current thread leaves the run queue.
LEMMA LeaveRunq ==
  ASSUME IInv, NEW p \in Prog, AtHead(p), NEW st, NEW b, Outside(st, b),
         delrun(p, st), blk' = [blk EXCEPT ![p] = b]
  PROVE  Threads'
<1> USE DEF IInv, TypeOK
<1>1. /\ runq' \in Seq(Prog) /\ IsInjective(runq') /\ ToSet(runq') = ToSet(runq) \ {p}
      /\ state' = [state EXCEPT ![p] = st]
  BY HeadFacts DEF delrun
<1>2. state' \in [Prog -> ProgState] /\ blk' \in [Prog -> Where]
  BY <1>1 DEF ProgState, Where, Outside, Waiting
<1>3. RunqConsistent'
  BY <1>1 DEF RunqConsistent, Outside, Waiting
<1>4. \A q \in Prog : q # p => blk[q] # "in"
  BY DEF Places, AtHead
<1>5. Places'
  BY <1>1, <1>4 DEF Places, Outside, Waiting
<1> QED
  BY <1>1, <1>2, <1>3, <1>5 DEF Threads

\* The current thread enters, returns from or stays in a call.
LEMMA StayHead ==
  ASSUME IInv, NEW p \in Prog, AtHead(p), NEW b \in {"no", "in"},
         runq' = runq, state' = state, blk' = [blk EXCEPT ![p] = b]
  PROVE  Threads'
<1>1. state[p] \in {"ready", "exiting"}
  BY HeadFacts
<1>2. RunqConsistent'
  BY <1>1 DEF IInv, TypeOK, RunqConsistent, AtHead
<1>3. Places'
  BY <1>1 DEF IInv, TypeOK, Places, AtHead, currun, Waiting
<1> QED
  BY <1>2, <1>3 DEF Threads, IInv, TypeOK, Where

\* A thread that is outside the run queue goes to its tail.
LEMMA JoinRunq ==
  ASSUME IInv, NEW q \in Prog, state[q] \in {"none"} \cup Waiting,
         runq' = Append(runq, q), state' = [state EXCEPT ![q] = "ready"], blk' = blk
  PROVE  Threads'
<1> USE DEF IInv, TypeOK
<1>1. blk[q] = "no" /\ q \notin ToSet(runq)
  BY DEF Places, RunqConsistent, Waiting
<1>2. /\ runq' \in Seq(Prog) /\ IsInjective(runq') /\ ToSet(runq') = ToSet(runq) \cup {q}
      /\ runq' # <<>> /\ (runq # <<>> => Head(runq') = Head(runq))
  BY <1>1, ListAppend DEF RunqConsistent
<1>3. RunqConsistent'
  BY <1>2 DEF RunqConsistent
<1>4. Places'
  BY <1>1, <1>2 DEF Places, currun, Waiting
<1> QED
  BY <1>2, <1>3, <1>4 DEF Threads, ProgState

\* Steps that leave the channels alone.
LEMMA Quiet ==
  ASSUME IInv, ch' = ch, live' = live, chan' = chan, ptr' = ptr, alt' = alt, moved' = NoMsg,
         kill' \in [Prog -> {"no", "kill", "hangup"}],
         Threads', \A p \in Prog : Bystander(p)
  PROVE  IInv' /\ Abs!Next
<1>1. Leaves(ch, ch', {})
  BY NobodyLeaves DEF IInv
<1>2. \A d \in Chan : d \notin live' => ch'[d] = cnewc
  BY DEF IInv, Agree, WaitConsistent
<1>3. live' \subseteq Chan
  BY DEF IInv, TypeOK
<1>4. Agree'
  BY <1>1, <1>2, <1>3, LeavesKeep DEF IInv
<1>5. TypeOK'
  BY DEF IInv, TypeOK, Threads
<1> QED
  BY <1>4, <1>5, AbsElse DEF IInv, Threads

LEMMA RaiseStep ==
  ASSUME IInv, NEW p \in Prog, AtHead(p), NEW es, Raise(p, es),
         UNCHANGED <<chan, ptr, alt, live, ch>>, Still
  PROVE  IInv' /\ Abs!Next
<1>1. state[p] \in {"ready", "exiting"} /\ Idle(p)
  BY HeadFacts
<1>2. Threads'
  BY LeaveRunq, StayHead DEF Raise, Outside, Waiting
<1>3. kill' \in [Prog -> {"no", "kill", "hangup"}]
  BY DEF IInv, TypeOK, Raise
<1>4. ASSUME NEW q \in Prog PROVE Bystander(q)
  BY <1>1 DEF IInv, TypeOK, Raise, delrun, Bystander, Idle, Hooked, Waiting
<1> QED
  BY <1>2, <1>3, <1>4, Quiet DEF Still

LEMMA StepRaise ==
  ASSUME IInv, NEW p \in Prog, raise(p) \/ RaiseKill(p)
  PROVE  IInv' /\ Abs!Next
<1>1. AtHead(p)
  BY DEF raise, RaiseKill, Running, AtHead
<1> QED
  BY <1>1, RaiseStep DEF raise, RaiseKill

LEMMA StepReap ==
  ASSUME IInv, NEW p \in Prog, Reap(p)
  PROVE  IInv' /\ Abs!Next
<1> USE DEF IInv, TypeOK
<1>1. blk[p] = "dying" /\ state[p] = "release"
  BY DEF Reap, Places, ProgState, Waiting
<1>2. /\ runq' = runq /\ state' = [state EXCEPT ![p] = "none"] /\ blk' = [blk EXCEPT ![p] = "no"]
      /\ UNCHANGED <<kill, chan, ptr, alt, live, ch>> /\ moved' = NoMsg
  BY DEF Reap, Still
<1>3. RunqConsistent'
  BY <1>1, <1>2 DEF RunqConsistent
<1>4. Places'
  BY <1>1, <1>2 DEF Places, currun, Waiting
<1>5. Threads'
  BY <1>2, <1>3, <1>4 DEF Threads, ProgState, Where
<1>6. ASSUME NEW q \in Prog PROVE Bystander(q)
  BY <1>1, <1>2 DEF Bystander, Hooked, Waiting
<1> QED
  BY <1>2, <1>5, <1>6, Quiet

LEMMA StepRotate ==
  ASSUME IInv, NEW p \in Prog, Rotate(p)
  PROVE  IInv' /\ Abs!Next
<1> USE DEF IInv, TypeOK
<1>1. AtHead(p) /\ blk[p] = "no"
  BY DEF Rotate, AtHead
<1>2. /\ p \in ToSet(runq) /\ Tail(runq) \in Seq(Prog) /\ IsInjective(Tail(runq))
      /\ ToSet(Tail(runq)) = ToSet(runq) \ {p}
  BY <1>1, HeadFacts
<1>3. /\ runq' = Append(Tail(runq), p) /\ state' = state /\ blk' = blk
      /\ UNCHANGED <<kill, chan, ptr, alt, live, ch>> /\ moved' = NoMsg
  BY DEF Rotate, Still
<1>4. runq' \in Seq(Prog) /\ IsInjective(runq') /\ ToSet(runq') = ToSet(runq)
<2>1. p \notin ToSet(Tail(runq)) /\ (ToSet(runq) \ {p}) \cup {p} = ToSet(runq)
  BY <1>2
<2> DEFINE s == Tail(runq)
<2>2. s \in Seq(Prog) /\ IsInjective(s) /\ p \notin ToSet(s)
  BY <1>2, <2>1
<2> HIDE DEF s
<2>3. /\ Append(s, p) \in Seq(Prog) /\ IsInjective(Append(s, p))
      /\ ToSet(Append(s, p)) = ToSet(s) \cup {p}
  BY <2>2, ListAppend
<2>4. ToSet(s) = ToSet(runq) \ {p} /\ runq' = Append(s, p)
  BY <1>2, <1>3 DEF s
<2> QED
  BY <2>1, <2>3, <2>4
<1>5. RunqConsistent'
  BY <1>3, <1>4 DEF RunqConsistent
<1>6. \A q \in Prog : blk[q] # "in"
  BY <1>1 DEF Places, AtHead
<1>7. Places'
  BY <1>3, <1>6 DEF Places, Waiting
<1>8. Threads'
  BY <1>3, <1>4, <1>5, <1>7 DEF Threads
<1>9. ASSUME NEW q \in Prog PROVE Bystander(q)
  BY <1>3 DEF Bystander, Hooked
<1> QED
  BY <1>3, <1>8, <1>9, Quiet

LEMMA StepRelease ==
  ASSUME IInv, NEW p \in Prog, release(p)
  PROVE  IInv' /\ Abs!Next
<1>1. AtHead(p)
  BY DEF release, InCall, Running, AtHead
<1>2. state[p] \in {"ready", "exiting"} /\ Idle(p)
  BY <1>1, HeadFacts
<1>3. Threads'
  BY <1>1, LeaveRunq DEF release, Outside
<1>4. ASSUME NEW q \in Prog PROVE Bystander(q)
  BY <1>2 DEF IInv, TypeOK, release, delrun, Bystander, Idle, Hooked, Waiting
<1> QED
  BY <1>3, <1>4, Quiet DEF release, Still, IInv, TypeOK

LEMMA StepReturn ==
  ASSUME IInv, NEW p \in Prog, Return(p)
  PROVE  IInv' /\ Abs!Next
<1>1. AtHead(p)
  BY DEF Return, AtHead
<1>2. state[p] \in {"ready", "exiting"} /\ Idle(p)
  BY <1>1, HeadFacts
<1>3. Threads'
  BY <1>1, StayHead DEF Return
<1>4. ASSUME NEW q \in Prog PROVE Bystander(q)
  BY <1>2 DEF IInv, TypeOK, Return, Bystander, Idle, Hooked, Waiting
<1> QED
  BY <1>3, <1>4, Quiet DEF Return, Still, IInv, TypeOK

LEMMA StepSpawn ==
  ASSUME IInv, NEW p \in Prog, NEW q \in Prog, spawn(p, q)
  PROVE  IInv' /\ Abs!Next
<1>1. Threads'
  BY JoinRunq DEF spawn
<1>2. ASSUME NEW r \in Prog PROVE Bystander(r)
  BY DEF IInv, TypeOK, spawn, Bystander, Hooked, Waiting
<1> QED
  BY <1>1, <1>2, Quiet DEF spawn, Still, IInv, TypeOK

(***************************************************************************)
(* Meetings.                                                               *)
(***************************************************************************)

\* The partner of a meeting runs again: through the run queue, or through its hook
\* when it waits in cblock.
LEMMA Meeting ==
  ASSUME IInv, NEW q \in Prog, NEW from \in Prog, NEW to \in Prog, NEW c \in Chan,
         \/ state[q] \in Waiting
         \/ Hooked(q) /\ state[q] \in {"release", "exiting"},
         Meet(q, from, to, c), Leaves(ch, ch', {q}), SameQueues(ch, ch'),
         UNCHANGED <<kill, live>>
  PROVE  IInv'
<1>1. /\ moved' = <<from, c, to>> /\ ptr' = [ptr EXCEPT ![q] = FALSE]
      /\ alt' = [alt EXCEPT ![q] = NoAlt] /\ chan' = [chan EXCEPT ![q] = NoChan]
  BY DEF Meet
<1>2. Threads' /\ state'[q] \notin Waiting /\ blk'[q] # "sleep" /\ ~ ptr'[q]
      /\ \A p \in Prog \ {q} : state'[p] = state[p] /\ blk'[p] = blk[p]
<2>1. CASE Hooked(q)
<3>1. /\ runq' = runq /\ state' = state
      /\ blk' = [blk EXCEPT ![q] = IF @ \in {"block", "sleep"} THEN "woken" ELSE @]
  BY <2>1 DEF Meet, addrun
<3>2. state[q] \in {"release", "exiting"}
  BY <2>1 DEF IInv, Places, Waiting, Hooked
<3>3. RunqConsistent'
  BY <2>1, <3>1 DEF IInv, TypeOK, RunqConsistent, Hooked
<3>4. Places'
  BY <2>1, <3>1, <3>2 DEF IInv, TypeOK, Places, currun, Hooked, Waiting
<3> QED
  BY <1>1, <3>1, <3>2, <3>3, <3>4 DEF IInv, TypeOK, Threads, Where, Waiting
<2>2. CASE ~ Hooked(q)
<3>1. runq' = Append(runq, q) /\ state' = [state EXCEPT ![q] = "ready"] /\ blk' = blk
  BY <2>2 DEF Meet, addrun, Hooked, IInv, TypeOK
<3>2. Threads'
  BY <2>2, <3>1, JoinRunq
<3> QED
  BY <1>1, <2>2, <3>1, <3>2 DEF IInv, TypeOK, Waiting, Hooked
<2> QED
  BY <2>1, <2>2
<1>3. ASSUME NEW p \in Prog \ {q} PROVE Bystander(p)
  BY <1>1, <1>2 DEF IInv, TypeOK, Bystander, Hooked
<1>4. ASSUME NEW d \in Chan, d \notin live' PROVE ch'[d] = cnewc
  BY <1>4, DeadStay DEF IInv, SameQueues
<1>5. live' \subseteq Chan
  BY DEF IInv, TypeOK
<1>6. Agree'
  BY <1>2, <1>3, <1>4, <1>5, LeavesKeep DEF IInv, SameQueues
<1>7. TypeOK'
  BY <1>1, <1>2 DEF IInv, TypeOK, Threads, Leaves, Table, Channel, AltTable, NoAlt
<1> QED
  BY <1>2, <1>6, <1>7 DEF IInv, Threads

LEMMA SameMarked ==
  ASSUME TypeOK, NEW p, NEW t
  PROVE  NoAlt \in AltTable /\ Marked(ch, ch, p, NoAlt) /\ Unmarked(t, t, p, NoAlt)
  BY DEF NoAlt, AltTable, Marked, Unmarked, SameLists

\* A receiver is taken by a send or a csendq of p.
LEMMA TakesReceiver ==
  ASSUME IInv, NEW p \in Prog, Idle(p), NEW c \in Chan, RecvWaits(ch, c),
         ch' = TakeReceiver(ch, c), Meet(Receiver(ch, c), p, Receiver(ch, c), c),
         UNCHANGED <<kill, live>>
  PROVE  IInv' /\ Abs!Next
<1> DEFINE q == Receiver(ch, c)
<1>1. ch \in Table
  BY DEF IInv, TypeOK, Table, Channel
<1>2. NoAlt \in AltTable /\ Marked(ch, ch, p, NoAlt) /\ Unmarked(ch', ch', p, NoAlt)
  BY SameMarked DEF IInv
<1>3. ch' \in Table /\ c \notin NoAlt.recv
  BY <1>1, TakeReceiverTable DEF IInv, NoAlt
<1>4. /\ q \in Prog /\ q # p /\ Leaves(ch, ch', {q}) /\ SameQueues(ch, ch')
      /\ \/ state[q] \in {"alt", "recv"}
         \/ Hooked(q) /\ ptr[q] /\ state[q] \in {"release", "exiting"}
      /\ q \in ToSet(ch[c].recv) \/ ch[c].recvalt = q
  BY <1>1, <1>2, <1>3, MeetReceiver DEF IInv
<1>5. IInv'
  BY <1>4, Meeting DEF Waiting
<1>6. moved' = <<p, c, q>> /\ c \in Recvs(ch, q)
  BY <1>4 DEF Meet, Recvs
<1> QED
  BY <1>4, <1>5, <1>6, AbsMeet

\* A sender is taken by a receive or a crecv of p.
LEMMA TakesSender ==
  ASSUME IInv, NEW p \in Prog, Idle(p), NEW c \in Chan, SendWaits(ch, c),
         ch' = TakeSender(ch, c), Meet(Sender(ch, c), Sender(ch, c), p, c),
         UNCHANGED <<kill, live>>
  PROVE  IInv' /\ Abs!Next
<1> DEFINE q == Sender(ch, c)
<1>1. ch \in Table
  BY DEF IInv, TypeOK, Table, Channel
<1>2. NoAlt \in AltTable /\ Marked(ch, ch, p, NoAlt) /\ Unmarked(ch', ch', p, NoAlt)
  BY SameMarked DEF IInv
<1>3. ch' \in Table /\ c \notin NoAlt.send
  BY <1>1, TakeSenderTable DEF IInv, NoAlt
<1>4. /\ q \in Prog /\ q # p /\ Leaves(ch, ch', {q}) /\ SameQueues(ch, ch')
      /\ state[q] \in {"alt", "send"}
      /\ q \in ToSet(ch[c].send) \/ ch[c].sendalt = q
  BY <1>1, <1>2, <1>3, MeetSender DEF IInv
<1>5. IInv'
  BY <1>4, Meeting DEF Waiting
<1>6. moved' = <<q, c, p>> /\ c \in Sends(ch, q)
  BY <1>4 DEF Meet, Sends
<1> QED
  BY <1>4, <1>5, <1>6, AbsMeet

\* A step on the queue of csendq: nobody begins or ends a wait.
LEMMA QueueStep ==
  ASSUME IInv, NEW p \in Prog, AtHead(p), NEW c \in live, NEW x \in Seq(Msg),
         x # <<>> => ch[c].sendq # <<>> \/ ~ RecvWaits(ch, c),
         ch' = [ch EXCEPT ![c].sendq = x], NEW b \in {"no", "in"}, blk' = [blk EXCEPT ![p] = b],
         UNCHANGED <<runq, state, chan, ptr, alt, kill, live>>,
         moved' \in (Prog \X Chan \X Prog) \cup {NoMsg}
  PROVE  IInv'
<1>0. ch \in Table /\ c \in Chan
  BY DEF IInv, TypeOK, Table, Channel
<1>1. Threads'
  BY StayHead
<1>2. /\ ch' \in Table
      /\ \A d \in Chan :
           /\ ch'[d].send = ch[d].send /\ ch'[d].recv = ch[d].recv
           /\ ch'[d].sendalt = ch[d].sendalt /\ ch'[d].recvalt = ch[d].recvalt
           /\ ch'[d].sendq = IF d = c THEN x ELSE ch[d].sendq
  BY <1>0 DEF Table, Channel
<1>3. Leaves(ch, ch', {})
  BY <1>2 DEF IInv, Agree, WaitConsistent, Leaves
<1>4. ASSUME NEW q \in Prog PROVE Bystander(q)
  BY HeadFacts DEF IInv, TypeOK, Bystander, Hooked, AtHead
<1>5. \A d \in Chan : ch'[d].sendq # <<>> => ch[d].sendq # <<>> \/ ~ RecvWaits(ch, d)
  BY <1>2
<1>8. live' = live /\ live' \subseteq Chan /\ TypeOK /\ Agree
  BY DEF IInv, TypeOK
<1>6. \A d \in Chan : ch'[d].sendq # <<>> => ch[d].sendq # <<>> \/ d \in live'
  BY <1>2, <1>8
<1> HIDE DEF IInv
<1>7. \A d \in Chan : d \notin live' => ch'[d] = cnewc
<2> SUFFICES ASSUME NEW d \in Chan, d \notin live' PROVE ch'[d] = cnewc
  OBVIOUS
<2> QED
  BY ONLY <1>3, <1>6, <1>8, DeadStay, d \in Chan, d \notin live'
<1>9. Agree'
  BY ONLY <1>3, <1>4, <1>5, <1>7, <1>8, LeavesKeep
<1>10. TypeOK'
  BY <1>1, <1>2 DEF IInv, TypeOK, Threads, Table, Channel
<1> QED
  BY <1>1, <1>9, <1>10 DEF IInv, Threads

\* The oldest queued message is taken.
LEMMA QueueTaken ==
  ASSUME IInv, NEW p \in Prog, AtHead(p), NEW c \in live, ~ SendWaits(ch, c), ch[c].sendq # <<>>,
         ch' = [ch EXCEPT ![c].sendq = Tail(@)], NEW b \in {"no", "in"}, blk' = [blk EXCEPT ![p] = b],
         UNCHANGED <<runq, state, chan, ptr, alt, kill, live>>,
         moved' = Append(Head(ch[c].sendq), p)
  PROVE  IInv' /\ Abs!Next
<1>1. c \in Chan /\ ch[c].sendq \in Seq(Msg)
  BY DEF IInv, TypeOK
<1>2. Tail(ch[c].sendq) \in Seq(Msg) /\ Head(ch[c].sendq) \in Msg
  BY <1>1
<1>3. ch' = [ch EXCEPT ![c].sendq = Tail(ch[c].sendq)]
  BY <1>1 DEF IInv, TypeOK
<1>4. moved' \in Prog \X Chan \X Prog
<2>1. PICK r \in Prog, d \in Chan : Head(ch[c].sendq) = <<r, d>>
  BY <1>2 DEF Msg
<2>2. Append(<<r, d>>, p) = <<r, d, p>>
  BY ListTriple
<2>3. <<r, d, p>> \in Prog \X Chan \X Prog
  OBVIOUS
<2>4. moved' = <<r, d, p>>
  BY <2>1, <2>2
<2> QED
  BY <2>3, <2>4
<1>5. IInv'
  BY <1>2, <1>3, <1>4, QueueStep
<1>6. Abs!Next
  BY <1>1, <1>3, HeadFacts, AbsDequeue
<1> QED
  BY <1>5, <1>6

\* p waits in the receive list of c: in the instruction, or in cblock.
LEMMA JoinRecv ==
  ASSUME IInv, NEW p \in Prog, AtHead(p), NEW c \in live,
         ~ SendWaits(ch, c), ch[c].sendq = <<>>,
         ch' = [ch EXCEPT ![c].recv = Append(@, p)], ptr' = [ptr EXCEPT ![p] = TRUE],
         NEW st, NEW b, state' = [state EXCEPT ![p] = st], blk' = [blk EXCEPT ![p] = b],
         chan' \in [Prog -> Chan \cup {NoChan}], \A q \in Prog \ {p} : chan'[q] = chan[q],
         \/ st = "recv" /\ chan'[p] = c /\ b = "no" /\ kill[p] = "no"
         \/ st = "release" /\ b = "block",
         Threads', UNCHANGED <<kill, live, alt>>, moved' = NoMsg
  PROVE  IInv' /\ Abs!Next
<1>0. ch \in Table /\ c \in Chan /\ ch[c].recv \in Seq(Prog)
  BY DEF IInv, TypeOK, Table, Channel
<1>1. \A d \in Chan : /\ p \notin ToSet(ch[d].send) /\ p \notin ToSet(ch[d].recv)
                      /\ ch[d].sendalt # p /\ ch[d].recvalt # p
  BY HeadFacts, IdleNowhere DEF IInv
<1>2. /\ Append(ch[c].recv, p) \in Seq(Prog) /\ IsInjective(Append(ch[c].recv, p))
      /\ ToSet(Append(ch[c].recv, p)) = ToSet(ch[c].recv) \cup {p}
  BY <1>0, <1>1, ListAppend DEF IInv, Agree, WaitConsistent
<1>3. /\ ch' \in Table
      /\ \A d \in Chan :
           /\ ch'[d].send = ch[d].send /\ ch'[d].sendq = ch[d].sendq
           /\ ch'[d].sendalt = ch[d].sendalt /\ ch'[d].recvalt = ch[d].recvalt
           /\ d # c => ch'[d] = ch[d]
      /\ ch'[c].recv = Append(ch[c].recv, p)
  BY <1>0, <1>2 DEF Table, Channel
<1>4. \A d \in Chan : /\ IsInjective(ch'[d].recv)
                      /\ ToSet(ch'[d].recv) = ToSet(ch[d].recv) \cup (IF d = c THEN {p} ELSE {})
  BY <1>2, <1>3 DEF IInv, Agree, WaitConsistent
<1>5. state[p] \in {"ready", "exiting"}
  BY HeadFacts
<1>6. \A q \in Prog : q # p =>
        state'[q] = state[q] /\ blk'[q] = blk[q] /\ chan'[q] = chan[q] /\ ptr'[q] = ptr[q]
  BY DEF IInv, TypeOK
<1>7. state'[p] = st /\ blk'[p] = b /\ ptr'[p] = TRUE
  BY DEF IInv, TypeOK
<1>8. NoMissedMeeting'
  BY <1>3 DEF IInv, Agree, NoMissedMeeting, SendWaits
<1>9. AltMarksExact'
  BY <1>3, <1>5, <1>6, <1>7 DEF IInv, Agree, AltMarksExact
<1>10. OneRecv'
<2> SUFFICES ASSUME NEW q \in Prog, NEW d \in Chan, NEW e \in Chan,
                    q \in ToSet(ch'[d].recv), q \in ToSet(ch'[e].recv)
             PROVE  d = e
  BY DEF OneRecv
<2>1. CASE q = p
  BY <1>1, <1>4, <2>1
<2>2. CASE q # p
<3>1. q \in ToSet(ch[d].recv) /\ q \in ToSet(ch[e].recv)
  BY <1>4, <2>2
<3> QED
  BY <3>1 DEF IInv, Agree, OneRecv
<2> QED
  BY <2>1, <2>2
<1>11. WaitConsistent'
<2>1. ASSUME NEW d \in Chan
      PROVE  /\ IsInjective(ch'[d].send) /\ IsInjective(ch'[d].recv)
             /\ d \notin live' => ch'[d] = cnewc
  BY <1>3, <1>4 DEF IInv, Agree, WaitConsistent
<2>2. ASSUME NEW q \in Prog, NEW d \in Chan
      PROVE  /\ q \in ToSet(ch'[d].send) <=> state'[q] = "send" /\ chan'[q] = d
             /\ q \in ToSet(ch'[d].recv) =>
                  \/ state'[q] = "recv" /\ chan'[q] = d
                  \/ Hooked(q)' /\ ptr'[q]
             /\ state'[q] = "recv" /\ chan'[q] = d => q \in ToSet(ch'[d].recv)
<3>1. CASE q = p
<4>1. q \notin ToSet(ch'[d].send) /\ (q \in ToSet(ch'[d].recv) <=> d = c)
  BY <1>1, <1>3, <1>4, <3>1
<4>2. /\ state'[q] # "send"
      /\ state'[q] = "recv" => chan'[q] = c
      /\ state'[q] = "recv" \/ (Hooked(q)' /\ ptr'[q])
  BY <1>7, <3>1 DEF Hooked
<4> QED
  BY <4>1, <4>2
<3>2. CASE q # p
<4>1. /\ q \in ToSet(ch[d].send) <=> state[q] = "send" /\ chan[q] = d
      /\ q \in ToSet(ch[d].recv) =>
           \/ state[q] = "recv" /\ chan[q] = d
           \/ Hooked(q) /\ ptr[q]
      /\ state[q] = "recv" /\ chan[q] = d => q \in ToSet(ch[d].recv)
  BY DEF IInv, Agree, WaitConsistent
<4>2. ch'[d].send = ch[d].send /\ (q \in ToSet(ch'[d].recv) <=> q \in ToSet(ch[d].recv))
  BY <1>3, <1>4, <3>2, ZenonT(60)
<4> QED
  BY <1>6, <3>2, <4>1, <4>2 DEF Hooked
<3> QED
  BY <3>1, <3>2
<2>3. ASSUME NEW q \in Prog, Hooked(q)', ptr'[q]
      PROVE  \E d \in live' : q \in ToSet(ch'[d].recv)
<3>1. CASE q = p
  BY <1>0, <1>4, <3>1
<3>2. CASE q # p
<4>1. PICK d \in live : q \in ToSet(ch[d].recv)
  BY <1>6, <2>3, <3>2 DEF IInv, Agree, WaitConsistent, Hooked
<4>2. d \in Chan
  BY DEF IInv, TypeOK
<4> QED
  BY <1>4, <4>1, <4>2
<3> QED
  BY <3>1, <3>2
<2>4. ASSUME NEW q \in Prog, state'[q] \in {"send", "recv", "alt"} \/ blk'[q] = "sleep"
      PROVE  kill'[q] = "no"
  BY <1>6, <1>7, <2>4 DEF IInv, Agree, WaitConsistent
<2> QED
  BY <2>1, <2>2, <2>3, <2>4 DEF WaitConsistent, Hooked
<1>12. TypeOK'
  BY <1>3 DEF IInv, TypeOK, Threads, Table, Channel
<1>13. /\ Sends(ch', p) = {} /\ Recvs(ch', p) = {c}
       /\ \A q \in Prog \ {p} : Sends(ch', q) = Sends(ch, q) /\ Recvs(ch', q) = Recvs(ch, q)
<2>1. ASSUME NEW q \in Prog, NEW d \in Chan
      PROVE  /\ q \in ToSet(ch'[d].send) <=> q \in ToSet(ch[d].send)
             /\ q \in ToSet(ch'[d].recv) <=> q \in ToSet(ch[d].recv) \/ (q = p /\ d = c)
             /\ ch'[d].sendalt = q <=> ch[d].sendalt = q
             /\ ch'[d].recvalt = q <=> ch[d].recvalt = q
  BY <1>3, <1>4, ZenonT(60)
<2> QED
  BY <1>0, <1>1, <2>1 DEF Sends, Recvs
<1>14. Abs!Next
<2>1. {} \cup {c} # {} /\ {} \cap {c} = {} /\ {} \subseteq Chan /\ {c} \subseteq Chan
  BY <1>0
<2>2. Idle(p) /\ SameQueues(ch, ch')
  BY <1>3, HeadFacts DEF SameQueues
<2>3. \A d \in {c} : ~ SendWaits(ch, d) /\ ch[d].sendq = <<>>
  OBVIOUS
<2> QED
  BY <1>13, <2>1, <2>2, <2>3, AbsPost
<1> QED
  BY <1>8, <1>9, <1>10, <1>11, <1>12, <1>14 DEF IInv, Threads, Agree

\* p waits in the send list of c.
LEMMA JoinSend ==
  ASSUME IInv, NEW p \in Prog, Running(p), NEW c \in live, ~ RecvWaits(ch, c),
         ch' = [ch EXCEPT ![c].send = Append(@, p)], Wait(p, "send", c)
  PROVE  IInv' /\ Abs!Next
<1>0. ch \in Table /\ c \in Chan /\ ch[c].send \in Seq(Prog)
  BY DEF IInv, TypeOK, Table, Channel
<1>h. AtHead(p) /\ kill[p] = "no" /\ blk[p] = "no"
  BY DEF Running, AtHead
<1>w. /\ state' = [state EXCEPT ![p] = "send"] /\ delrun(p, "send")
      /\ ptr' = [ptr EXCEPT ![p] = TRUE] /\ chan' = [chan EXCEPT ![p] = c] /\ moved' = NoMsg
      /\ kill' = kill /\ blk' = blk /\ alt' = alt /\ live' = live
  BY DEF Wait, delrun, Still
<1>1. \A d \in Chan : /\ p \notin ToSet(ch[d].send) /\ p \notin ToSet(ch[d].recv)
                      /\ ch[d].sendalt # p /\ ch[d].recvalt # p
  BY <1>h, HeadFacts, IdleNowhere DEF IInv
<1>2. /\ Append(ch[c].send, p) \in Seq(Prog) /\ IsInjective(Append(ch[c].send, p))
      /\ ToSet(Append(ch[c].send, p)) = ToSet(ch[c].send) \cup {p}
  BY <1>0, <1>1, ListAppend DEF IInv, Agree, WaitConsistent
<1>3. /\ ch' \in Table
      /\ \A d \in Chan :
           /\ ch'[d].recv = ch[d].recv /\ ch'[d].sendq = ch[d].sendq
           /\ ch'[d].sendalt = ch[d].sendalt /\ ch'[d].recvalt = ch[d].recvalt
           /\ d # c => ch'[d] = ch[d]
      /\ ch'[c].send = Append(ch[c].send, p)
  BY <1>0, <1>2 DEF Table, Channel
<1>4. \A d \in Chan : /\ IsInjective(ch'[d].send)
                      /\ ToSet(ch'[d].send) = ToSet(ch[d].send) \cup (IF d = c THEN {p} ELSE {})
  BY <1>2, <1>3 DEF IInv, Agree, WaitConsistent
<1>5. state[p] \in {"ready", "exiting"}
  BY <1>h, HeadFacts
<1>6. \A q \in Prog : q # p => state'[q] = state[q] /\ chan'[q] = chan[q] /\ ptr'[q] = ptr[q]
  BY <1>w DEF IInv, TypeOK
<1>7. state'[p] = "send" /\ chan'[p] = c
  BY <1>w DEF IInv, TypeOK
<1>t. Threads'
<2>1. blk' = [blk EXCEPT ![p] = "no"]
  BY <1>h, <1>w DEF IInv, TypeOK
<2> QED
  BY <1>h, <1>w, <2>1, LeaveRunq DEF Outside, Waiting
<1>8. NoMissedMeeting'
  BY <1>3 DEF IInv, Agree, NoMissedMeeting, RecvWaits
<1>9. AltMarksExact'
  BY <1>w, <1>3, <1>5, <1>6, <1>7 DEF IInv, Agree, AltMarksExact
<1>10. OneRecv'
  BY <1>3 DEF IInv, Agree, OneRecv
<1>11. WaitConsistent'
<2>1. ASSUME NEW d \in Chan
      PROVE  /\ IsInjective(ch'[d].send) /\ IsInjective(ch'[d].recv)
             /\ d \notin live' => ch'[d] = cnewc
  BY <1>w, <1>3, <1>4 DEF IInv, Agree, WaitConsistent
<2>2. ASSUME NEW q \in Prog, NEW d \in Chan
      PROVE  /\ q \in ToSet(ch'[d].send) <=> state'[q] = "send" /\ chan'[q] = d
             /\ q \in ToSet(ch'[d].recv) =>
                  \/ state'[q] = "recv" /\ chan'[q] = d
                  \/ Hooked(q)' /\ ptr'[q]
             /\ state'[q] = "recv" /\ chan'[q] = d => q \in ToSet(ch'[d].recv)
<3>1. CASE q = p
  BY <1>1, <1>3, <1>4, <1>7, <3>1
<3>2. CASE q # p
<4>1. /\ q \in ToSet(ch[d].send) <=> state[q] = "send" /\ chan[q] = d
      /\ q \in ToSet(ch[d].recv) =>
           \/ state[q] = "recv" /\ chan[q] = d
           \/ Hooked(q) /\ ptr[q]
      /\ state[q] = "recv" /\ chan[q] = d => q \in ToSet(ch[d].recv)
  BY DEF IInv, Agree, WaitConsistent
<4>2. ch'[d].recv = ch[d].recv /\ (q \in ToSet(ch'[d].send) <=> q \in ToSet(ch[d].send))
  BY <1>3, <1>4, <3>2
<4> QED
  BY <1>w, <1>6, <3>2, <4>1, <4>2 DEF Hooked
<3> QED
  BY <3>1, <3>2
<2>3. ASSUME NEW q \in Prog, Hooked(q)', ptr'[q]
      PROVE  \E d \in live' : q \in ToSet(ch'[d].recv)
<3>1. PICK d \in live : q \in ToSet(ch[d].recv)
<4>1. q # p
  BY <1>h, <1>w, <2>3 DEF Hooked
<4> QED
  BY <1>w, <1>6, <2>3, <4>1 DEF IInv, Agree, WaitConsistent, Hooked
<3>2. d \in Chan
  BY DEF IInv, TypeOK
<3> QED
  BY <1>w, <1>3, <3>1, <3>2
<2>4. ASSUME NEW q \in Prog, state'[q] \in {"send", "recv", "alt"} \/ blk'[q] = "sleep"
      PROVE  kill'[q] = "no"
  BY <1>h, <1>w, <1>6, <2>4 DEF IInv, Agree, WaitConsistent
<2> QED
  BY <2>1, <2>2, <2>3, <2>4 DEF WaitConsistent, Hooked
<1>12. TypeOK'
  BY <1>w, <1>0, <1>3, <1>t DEF IInv, TypeOK, Threads, Table, Channel
<1>13. /\ Sends(ch', p) = {c} /\ Recvs(ch', p) = {}
       /\ \A q \in Prog \ {p} : Sends(ch', q) = Sends(ch, q) /\ Recvs(ch', q) = Recvs(ch, q)
<2>1. ASSUME NEW q \in Prog, NEW d \in Chan
      PROVE  /\ q \in ToSet(ch'[d].send) <=> q \in ToSet(ch[d].send) \/ (q = p /\ d = c)
             /\ q \in ToSet(ch'[d].recv) <=> q \in ToSet(ch[d].recv)
             /\ ch'[d].sendalt = q <=> ch[d].sendalt = q
             /\ ch'[d].recvalt = q <=> ch[d].recvalt = q
  BY <1>3, <1>4
<2> QED
  BY <1>0, <1>1, <2>1 DEF Sends, Recvs
<1>14. Abs!Next
<2>1. {c} \cup {} # {} /\ {c} \cap {} = {} /\ {} \subseteq Chan /\ {c} \subseteq Chan
  BY <1>0
<2>2. Idle(p) /\ SameQueues(ch, ch')
  BY <1>h, <1>3, HeadFacts DEF SameQueues
<2>3. \A d \in {c} : ~ RecvWaits(ch, d)
  OBVIOUS
<2> QED
  BY <1>w, <1>13, <2>1, <2>2, <2>3, AbsPost
<1> QED
  BY <1>t, <1>8, <1>9, <1>10, <1>11, <1>12, <1>14 DEF IInv, Threads, Agree

LEMMA StepSend ==
  ASSUME IInv, NEW p \in Prog, NEW c \in Chan, isend(p, c)
  PROVE  IInv' /\ Abs!Next
<1>1. Running(p) /\ AtHead(p) /\ c \in live
  BY DEF isend, Running, AtHead
<1>2. Idle(p)
  BY <1>1, HeadFacts
<1>3. CASE ~ RecvWaits(ch, c)
  BY <1>1, <1>3, JoinSend DEF isend
<1>4. CASE RecvWaits(ch, c)
  BY <1>2, <1>4, TakesReceiver DEF isend
<1> QED
  BY <1>3, <1>4

LEMMA StepRecv ==
  ASSUME IInv, NEW p \in Prog, NEW c \in Chan, irecv(p, c)
  PROVE  IInv' /\ Abs!Next
<1>1. AtHead(p) /\ c \in live /\ blk[p] = "no" /\ kill[p] = "no"
  BY DEF irecv, Running, AtHead
<1>2. Idle(p)
  BY <1>1, HeadFacts
<1>3. blk = [blk EXCEPT ![p] = "no"]
  BY <1>1 DEF IInv, TypeOK
<1>4. CASE ~ SendWaits(ch, c) /\ ch[c].sendq = <<>>
<2>1. ch' = [ch EXCEPT ![c].recv = Append(@, p)] /\ Wait(p, "recv", c)
  BY <1>4 DEF irecv
<2>2. /\ state' = [state EXCEPT ![p] = "recv"] /\ delrun(p, "recv")
      /\ ptr' = [ptr EXCEPT ![p] = TRUE] /\ chan' = [chan EXCEPT ![p] = c] /\ moved' = NoMsg
      /\ UNCHANGED <<kill, live, alt>> /\ blk' = blk
  BY <2>1 DEF Wait, delrun, Still
<2>3. /\ chan' \in [Prog -> Chan \cup {NoChan}] /\ chan'[p] = c
      /\ \A q \in Prog \ {p} : chan'[q] = chan[q]
  BY <2>2 DEF IInv, TypeOK
<2>4. Threads'
  BY <1>1, <1>3, <2>2, LeaveRunq DEF Outside, Waiting
<2> QED
  BY <1>1, <1>3, <1>4, <2>1, <2>2, <2>3, <2>4, JoinRecv
<1>5. CASE ~ SendWaits(ch, c) /\ ch[c].sendq # <<>>
  BY <1>1, <1>3, <1>5, QueueTaken DEF irecv
<1>6. CASE SendWaits(ch, c)
  BY <1>2, <1>6, TakesSender DEF irecv
<1> QED
  BY <1>4, <1>5, <1>6

LEMMA StepNewc ==
  ASSUME IInv, NEW p \in Prog, NEW c \in Chan, newc(p, c)
  PROVE  IInv' /\ Abs!Next
<1>1. /\ live' = live \cup {c} /\ c \notin live /\ ch' = [ch EXCEPT ![c] = cnewc] /\ moved' = NoMsg
      /\ runq' = runq /\ state' = state /\ kill' = kill /\ blk' = blk /\ chan' = chan
      /\ ptr' = ptr /\ alt' = alt
  BY DEF newc, Still
<1>2. ch' = ch
  BY <1>1 DEF IInv, TypeOK, Agree, WaitConsistent
<1>3. TypeOK' /\ RunqConsistent' /\ Places'
  BY <1>1, <1>2 DEF IInv, TypeOK, RunqConsistent, Places, currun, Waiting
<1>4. Agree'
  BY <1>1, <1>2 DEF IInv, Agree, WaitConsistent, OneRecv, AltMarksExact, NoMissedMeeting, Hooked
<1> QED
  BY <1>1, <1>2, <1>3, <1>4, AbsElse DEF IInv

LEMMA StepCsendq ==
  ASSUME IInv, NEW p \in Prog, NEW c \in Chan, csendq(p, c)
  PROVE  IInv' /\ Abs!Next
<1>1. AtHead(p) /\ c \in live
  BY DEF csendq, InCall, Running, AtHead
<1>2. Idle(p)
  BY <1>1, HeadFacts
<1>3. ch \in Table /\ ch[c].sendq \in Seq(Msg) /\ <<p, c>> \in Msg
  BY DEF IInv, TypeOK, Table, Channel, Msg
<1>4. CASE ~ RecvWaits(ch, c) /\ Len(ch[c].sendq) < Lim
<2>1. /\ ch' = [ch EXCEPT ![c].sendq = Append(ch[c].sendq, <<p, c>>)]
      /\ blk' = [blk EXCEPT ![p] = "in"] /\ moved' = NoMsg
      /\ UNCHANGED <<runq, state, chan, ptr, alt, kill, live>>
<3>1. ~ (Len(ch[c].sendq) >= Lim)
  BY <1>3, <1>4, LimAssumption
<3>2. /\ ch' = [ch EXCEPT ![c].sendq = Append(@, <<p, c>>)]
      /\ blk' = [blk EXCEPT ![p] = "in"] /\ moved' = NoMsg
      /\ UNCHANGED <<runq, state, chan, ptr, alt, kill, live>>
  BY <1>4, <3>1 DEF csendq, Enter, Still
<3> QED
  BY <1>3, <3>2 DEF Table
<2>2. Append(ch[c].sendq, <<p, c>>) \in Seq(Msg)
  BY <1>3
<2> QED
  BY <1>1, <1>4, <2>1, <2>2, QueueStep, AbsEnqueue
<1>5. CASE ~ RecvWaits(ch, c) /\ Len(ch[c].sendq) >= Lim
<2>1. /\ ch' = ch /\ blk' = [blk EXCEPT ![p] = "in"] /\ moved' = NoMsg
      /\ runq' = runq /\ state' = state /\ chan' = chan /\ ptr' = ptr /\ alt' = alt
      /\ kill' = kill /\ live' = live
  BY <1>3, <1>5, LimAssumption DEF csendq, Enter, Still
<2>2. Threads'
  BY <1>1, <2>1, StayHead
<2>3. ASSUME NEW q \in Prog PROVE Bystander(q)
  BY <1>2, <2>1 DEF IInv, TypeOK, Bystander, Idle, Hooked, Waiting
<2> QED
  BY <2>1, <2>2, <2>3, Quiet DEF IInv, TypeOK
<1>6. CASE RecvWaits(ch, c)
  BY <1>2, <1>6, TakesReceiver DEF csendq
<1> QED
  BY <1>4, <1>5, <1>6 DEF csendq

LEMMA StepCrecv ==
  ASSUME IInv, NEW p \in Prog, NEW c \in Chan, crecv(p, c)
  PROVE  IInv' /\ Abs!Next
<1>1. AtHead(p) /\ c \in live
  BY DEF crecv, InCall, Running, AtHead
<1>2. Idle(p)
  BY <1>1, HeadFacts
<1>3. CASE ~ SendWaits(ch, c) /\ ch[c].sendq = <<>>
<2>1. /\ ch' = [ch EXCEPT ![c].recv = Append(@, p)] /\ ptr' = [ptr EXCEPT ![p] = TRUE]
      /\ delrun(p, "release") /\ state' = [state EXCEPT ![p] = "release"]
      /\ blk' = [blk EXCEPT ![p] = "block"] /\ moved' = NoMsg
      /\ chan' = chan /\ UNCHANGED <<kill, live, alt>>
  BY <1>3 DEF crecv, Still, delrun
<2>3. Threads'
  BY <1>1, <2>1, LeaveRunq DEF Outside
<2>4. chan' \in [Prog -> Chan \cup {NoChan}] /\ \A q \in Prog \ {p} : chan'[q] = chan[q]
  BY <2>1 DEF IInv, TypeOK
<2> QED
  BY <1>1, <1>3, <2>1, <2>3, <2>4, JoinRecv
<1>4. CASE ~ SendWaits(ch, c) /\ ch[c].sendq # <<>>
  BY <1>1, <1>4, QueueTaken DEF crecv, Enter
<1>5. CASE SendWaits(ch, c)
  BY <1>2, <1>5, TakesSender DEF crecv
<1> QED
  BY <1>3, <1>4, <1>5

LEMMA StepAcquire ==
  ASSUME IInv, NEW p \in Prog, acquire(p)
  PROVE  IInv' /\ Abs!Next
<1> USE DEF IInv, TypeOK
<1>1. blk[p] \in {"sys", "woken", "intr"} /\ state[p] \in {"release", "exiting"}
  BY DEF acquire, Places, Waiting, ProgState
<1>2. \A q \in Prog : blk[q] # "in"
  BY DEF acquire, VMFree, Places
<1>3. /\ runq' = <<p>> \o runq /\ state' = [state EXCEPT ![p] = "ready"]
      /\ blk' = [blk EXCEPT ![p] = "in"] /\ moved' = NoMsg
      /\ kill' = kill /\ chan' = chan /\ alt' = alt /\ live' = live
  BY DEF acquire, Enter, Still
<1>4. /\ runq' \in Seq(Prog) /\ IsInjective(runq') /\ ToSet(runq') = ToSet(runq) \cup {p}
      /\ runq' # <<>> /\ Head(runq') = p
<2>1. runq \in Seq(Prog) /\ IsInjective(runq) /\ p \notin ToSet(runq)
  BY <1>1 DEF RunqConsistent
<2> QED
  BY ONLY <1>3, <2>1, ListPush, p \in Prog
<1>5. RunqConsistent'
  BY <1>1, <1>3, <1>4 DEF RunqConsistent
<1>6. Places'
  BY <1>1, <1>2, <1>3, <1>4 DEF Places, currun, Waiting
<1>7. Threads'
  BY <1>3, <1>4, <1>5, <1>6 DEF Threads, ProgState, Where
<1>8. CASE blk[p] = "intr" /\ ptr[p]
<2>1. /\ ch' = [c \in Chan |-> [ch[c] EXCEPT !.recv = RemoveFirst(@, p)]]
      /\ ptr' = [ptr EXCEPT ![p] = FALSE]
  BY <1>8 DEF acquire
<2>2. \A d \in Chan : /\ p \notin ToSet(ch[d].send) /\ ch[d].sendalt # p /\ ch[d].recvalt # p
                      /\ IsInjective(ch[d].send) /\ IsInjective(ch[d].recv)
  BY <1>1 DEF Agree, WaitConsistent, AltMarksExact
<2>3. ASSUME NEW d \in Chan
      PROVE  LET r == ch'[d]
             IN /\ r \in Channel /\ r.send = ch[d].send /\ r.sendq = ch[d].sendq
                /\ r.sendalt = ch[d].sendalt /\ r.recvalt = ch[d].recvalt
                /\ IsInjective(r.recv) /\ ToSet(r.recv) = ToSet(ch[d].recv) \ {p}
<3>1. ch[d] \in Channel /\ ch[d].recv \in Seq(Prog)
  BY DEF Channel
<3>2. /\ RemoveFirst(ch[d].recv, p) \in Seq(Prog) /\ IsInjective(RemoveFirst(ch[d].recv, p))
      /\ ToSet(RemoveFirst(ch[d].recv, p)) = ToSet(ch[d].recv) \ {p}
  BY <2>2, <3>1, ListRemove
<3>3. ch'[d] = [ch[d] EXCEPT !.recv = RemoveFirst(ch[d].recv, p)]
  BY <2>1
<3> HIDE DEF IInv, TypeOK
<3> QED
  BY <3>1, <3>2, <3>3 DEF Channel
<2>4. Leaves(ch, ch', {p}) /\ SameQueues(ch, ch')
<3>1. ch' \in Table
  BY <2>1, <2>3 DEF Table
<3> QED
  BY <2>2, <2>3, <3>1 DEF Leaves, SameQueues
<2>5. ASSUME NEW q \in Prog \ {p} PROVE Bystander(q)
  BY <1>3, <2>1 DEF Bystander, Hooked
<2>7. /\ state'[p] \notin Waiting /\ blk'[p] # "sleep" /\ ~ ptr'[p]
      /\ live' \subseteq Chan /\ {p} \subseteq Prog /\ TypeOK /\ Agree /\ live \subseteq live'
  BY <1>3, <2>1 DEF Waiting
<2> HIDE DEF IInv, TypeOK
<2>6. ASSUME NEW d \in Chan, d \notin live' PROVE ch'[d] = cnewc
  BY <2>4, <2>6, <2>7, DeadStay DEF SameQueues
<2>8. Agree'
  BY <2>4, <2>5, <2>6, <2>7, LeavesKeep DEF SameQueues
<2>9. TypeOK'
  BY <1>3, <1>7, <2>1, <2>4 DEF Threads, Leaves, Table, Channel, IInv, TypeOK
<2> QED
  BY <1>3, <1>7, <2>4, <2>8, <2>9, AbsWithdraw DEF Threads, IInv
<1>9. CASE ~ (blk[p] = "intr" /\ ptr[p])
<2>1. ch' = ch /\ ptr' = ptr
  BY <1>9 DEF acquire
<2>2. ASSUME NEW q \in Prog PROVE Bystander(q)
  BY <1>1, <1>3, <1>9, <2>1 DEF Bystander, Hooked, Waiting
<2> QED
  BY <1>3, <1>7, <2>1, <2>2, Quiet
<1> QED
  BY <1>8, <1>9

\* cblock goes to sleep, or finds p->kill set.
LEMMA StepCblock ==
  ASSUME IInv, NEW p \in Prog, cblock(p)
  PROVE  IInv' /\ Abs!Next
<1>0. TypeOK /\ RunqConsistent /\ Places
  BY DEF IInv
<1>1. /\ blk' = [blk EXCEPT ![p] = IF kill[p] = "no" THEN "sleep" ELSE "intr"]
      /\ blk[p] = "block" /\ moved' = NoMsg /\ runq' = runq /\ state' = state /\ kill' = kill
      /\ chan' = chan /\ ptr' = ptr /\ alt' = alt /\ live' = live /\ ch' = ch
  BY DEF cblock, Still
<1>2. /\ blk' \in [Prog -> Where] /\ blk'[p] \in {"sleep", "intr"}
      /\ blk'[p] = "sleep" => kill[p] = "no"
      /\ \A q \in Prog \ {p} : blk'[q] = blk[q]
  BY <1>0, <1>1 DEF TypeOK, Where
<1>3. state[p] \in {"release", "exiting"}
  BY <1>0, <1>1 DEF TypeOK, ProgState, Places, Waiting
<1>4. RunqConsistent'
  BY <1>0, <1>1, <1>2, <1>3 DEF RunqConsistent
<1>5. Places'
  BY <1>0, <1>1, <1>2, <1>3 DEF Places, currun, Waiting
<1>6. Threads'
  BY <1>0, <1>1, <1>2, <1>4, <1>5 DEF Threads, TypeOK
<1>7. ASSUME NEW q \in Prog PROVE Bystander(q)
<2>1. CASE q = p
  BY <1>1, <1>2, <1>3, <2>1 DEF Bystander, Hooked, Waiting
<2>2. CASE q # p
  BY <1>1, <1>2, <2>2 DEF Bystander, Hooked
<2> QED
  BY <2>1, <2>2
<1> QED
  BY <1>0, <1>1, <1>6, <1>7, Quiet DEF TypeOK

(***************************************************************************)
(* alt.                                                                    *)
(***************************************************************************)

LEMMA LiveAltTable ==
  ASSUME TypeOK, NEW a \in LiveAlt
  PROVE  a \in AltTable /\ a.send \subseteq live /\ a.recv \subseteq live
  BY DEF TypeOK, LiveAlt, AltTable

\* An alt with an error, and an nbalt that finds nothing, change no channel.
LEMMA StepAltIdle ==
  ASSUME IInv, NEW p \in Prog, NEW a \in LiveAlt, NEW twice \in BOOLEAN,
         AltErr(p, a, twice) \/ AltNone(p, a)
  PROVE  IInv' /\ Abs!Next
<1>1. AtHead(p) /\ blk[p] = "no" /\ TypeOK /\ Agree
  BY DEF AltErr, AltNone, Running, AtHead, IInv
<1>2. Idle(p) /\ a \in AltTable
  BY <1>1, HeadFacts, LiveAltTable
<1>3. \A d \in Chan : ch[d].recvalt # p /\ ch[d].sendalt # p
  BY <1>1, <1>2, IdleNowhere
<1>4. ch' = ch
  BY <1>1, <1>2, <1>3, AltUndo DEF AltErr, AltNone
<1>5. CASE AltErr(p, a, twice)
  BY <1>1, <1>4, <1>5, RaiseStep DEF AltErr
<1>6. CASE AltNone(p, a)
<2>1. /\ runq' = runq /\ state' = state /\ kill' = kill /\ blk' = blk /\ chan' = chan
      /\ ptr' = ptr /\ alt' = alt /\ live' = live /\ moved' = NoMsg
  BY <1>6 DEF AltNone, Still
<2>2. blk' = [blk EXCEPT ![p] = "no"]
  BY <1>1, <2>1 DEF TypeOK
<2>3. Threads'
  BY <1>1, <2>1, <2>2, StayHead
<2>4. ASSUME NEW q \in Prog PROVE Bystander(q)
  BY <2>1 DEF Bystander, Hooked
<2> QED
  BY <1>4, <2>1, <2>3, <2>4, Quiet DEF IInv, TypeOK
<1> QED
  BY <1>5, <1>6

\* p waits in an alt: its entries were free and nobody waits at their other ends.
LEMMA StepAltBlock ==
  ASSUME IInv, NEW p \in Prog, NEW a \in LiveAlt, AltBlock(p, a)
  PROVE  IInv' /\ Abs!Next
<1>1. AtHead(p) /\ blk[p] = "no" /\ kill[p] = "no" /\ TypeOK /\ Agree
  BY DEF AltBlock, Running, AtHead, IInv
<1>2. /\ state[p] \in {"ready", "exiting"} /\ Idle(p)
      /\ a \in AltTable /\ a.send \subseteq live /\ a.recv \subseteq live
  BY <1>1, HeadFacts, LiveAltTable
<1>3. \A d \in Chan : /\ p \notin ToSet(ch[d].send) /\ p \notin ToSet(ch[d].recv)
                      /\ ch[d].sendalt # p /\ ch[d].recvalt # p
  BY <1>1, <1>2, IdleNowhere
<1>4. /\ ~ AltBad(a, p) /\ ch' = AltMark(ch, p, a) /\ alt' = [alt EXCEPT ![p] = a]
      /\ delrun(p, "alt") /\ state' = [state EXCEPT ![p] = "alt"] /\ moved' = NoMsg
      /\ kill' = kill /\ blk' = blk /\ chan' = chan /\ ptr' = ptr /\ live' = live
  BY DEF AltBlock, delrun, Still
<1>5. ch' \in Table /\ Marked(ch, ch', p, a)
  BY <1>1, <1>2, <1>3, <1>4, AltMarkTable, AltMarkGood
<1>6. \A d \in Chan :
        /\ ch'[d].send = ch[d].send /\ ch'[d].recv = ch[d].recv /\ ch'[d].sendq = ch[d].sendq
        /\ d \in a.send => ch[d].sendalt = NoProg /\ ch'[d].sendalt = p
        /\ d \notin a.send => ch'[d].sendalt = ch[d].sendalt
        /\ d \in a.recv => ch[d].recvalt = NoProg /\ ch'[d].recvalt = p
        /\ d \notin a.recv => ch'[d].recvalt = ch[d].recvalt
  BY <1>5 DEF Marked, SameLists
<1>7. /\ \A d \in a.send : ~ RecvWaits(ch, d) /\ d \notin a.recv
      /\ \A d \in a.recv : ~ SendWaits(ch, d) /\ ch[d].sendq = <<>>
<2>1. AltReady(a) = {}
  BY DEF AltBlock
<2>2. ASSUME NEW d \in a.send PROVE ~ RecvWaits(ch, d) /\ d \notin a.recv
<3>1. <<"send", d>> \in Entry(a)
  BY DEF Entry
<3> QED
  BY <1>4, <2>1, <3>1 DEF AltReady, AltBad
<2>3. ASSUME NEW d \in a.recv PROVE ~ SendWaits(ch, d) /\ ch[d].sendq = <<>>
<3>1. <<"recv", d>> \in Entry(a)
  BY DEF Entry
<3> QED
  BY <2>1, <3>1 DEF AltReady
<2> QED
  BY <2>2, <2>3
<1>8. /\ state'[p] = "alt" /\ alt'[p] = a
      /\ \A q \in Prog : q # p => state'[q] = state[q] /\ alt'[q] = alt[q]
  BY <1>1, <1>4 DEF TypeOK
<1>9. Threads'
<2>1. blk' = [blk EXCEPT ![p] = "no"]
  BY <1>1, <1>4 DEF TypeOK
<2> QED
  BY <1>1, <1>4, <2>1, LeaveRunq DEF Outside, Waiting
<1>10. NoMissedMeeting'
<2> SUFFICES ASSUME NEW d \in Chan,
                    ch'[d].send # <<>> \/ ch'[d].sendalt # NoProg \/ ch'[d].sendq # <<>>,
                    ch'[d].recv # <<>> \/ ch'[d].recvalt # NoProg
             PROVE  FALSE
  BY DEF NoMissedMeeting
<2>1. CASE d \in a.send
  BY <1>6, <1>7, <2>1 DEF RecvWaits
<2>2. CASE d \in a.recv
  BY <1>6, <1>7, <2>2 DEF SendWaits
<2>3. CASE d \notin a.send /\ d \notin a.recv
  BY <1>1, <1>6, <2>3 DEF Agree, NoMissedMeeting
<2> QED
  BY <2>1, <2>2, <2>3
<1>11. AltMarksExact'
<2> SUFFICES ASSUME NEW q \in Prog, NEW d \in Chan
             PROVE  /\ ch'[d].sendalt = q <=> state'[q] = "alt" /\ d \in alt'[q].send
                    /\ ch'[d].recvalt = q <=> state'[q] = "alt" /\ d \in alt'[q].recv
  BY DEF AltMarksExact
<2>1. /\ ch[d].sendalt = q <=> state[q] = "alt" /\ d \in alt[q].send
      /\ ch[d].recvalt = q <=> state[q] = "alt" /\ d \in alt[q].recv
  BY <1>1 DEF Agree, AltMarksExact
<2>2. CASE q = p
  BY <1>3, <1>6, <1>8, <2>2
<2>3. CASE q # p
  BY <1>6, <1>8, <2>1, <2>3, NilAssumption
<2> QED
  BY <2>2, <2>3
<1>12. OneRecv'
  BY <1>1, <1>6 DEF Agree, OneRecv
<1>13. WaitConsistent'
<2>1. ASSUME NEW d \in Chan
      PROVE  /\ IsInjective(ch'[d].send) /\ IsInjective(ch'[d].recv)
             /\ d \notin live' => ch'[d] = cnewc
<3>1. IsInjective(ch'[d].send) /\ IsInjective(ch'[d].recv)
  BY <1>1, <1>6 DEF Agree, WaitConsistent
<3>2. ASSUME d \notin live' PROVE ch'[d] = cnewc
<4>1. ch[d] = cnewc /\ d \notin a.send /\ d \notin a.recv
  BY <1>1, <1>2, <1>4, <3>2 DEF Agree, WaitConsistent
<4>2. /\ ch'[d].send = <<>> /\ ch'[d].recv = <<>> /\ ch'[d].sendq = <<>>
      /\ ch'[d].sendalt = NoProg /\ ch'[d].recvalt = NoProg
  BY <1>6, <4>1 DEF cnewc
<4>3. ch'[d] \in Channel
  BY <1>5 DEF Table
<4> QED
  BY <4>2, <4>3 DEF Channel, cnewc
<3> QED
  BY <3>1, <3>2
<2>2. ASSUME NEW q \in Prog, NEW d \in Chan
      PROVE  /\ q \in ToSet(ch'[d].send) <=> state'[q] = "send" /\ chan'[q] = d
             /\ q \in ToSet(ch'[d].recv) =>
                  \/ state'[q] = "recv" /\ chan'[q] = d
                  \/ Hooked(q)' /\ ptr'[q]
             /\ state'[q] = "recv" /\ chan'[q] = d => q \in ToSet(ch'[d].recv)
<3>1. CASE q = p
  BY <1>3, <1>6, <1>8, <3>1
<3>2. CASE q # p
  BY <1>1, <1>4, <1>6, <1>8, <3>2 DEF Agree, WaitConsistent, Hooked
<3> QED
  BY <3>1, <3>2
<2>3. ASSUME NEW q \in Prog, Hooked(q)', ptr'[q]
      PROVE  \E d \in live' : q \in ToSet(ch'[d].recv)
<3>1. PICK d \in live : q \in ToSet(ch[d].recv)
  BY <1>1, <1>4, <2>3 DEF Agree, WaitConsistent, Hooked
<3>2. d \in Chan
  BY <1>1 DEF TypeOK
<3> QED
  BY <1>4, <1>6, <3>1, <3>2
<2>4. ASSUME NEW q \in Prog, state'[q] \in {"send", "recv", "alt"} \/ blk'[q] = "sleep"
      PROVE  kill'[q] = "no"
  BY <1>1, <1>4, <1>8, <2>4 DEF Agree, WaitConsistent
<2> QED
  BY <2>1, <2>2, <2>3, <2>4 DEF WaitConsistent, Hooked
<1>14. TypeOK'
  BY <1>1, <1>2, <1>4, <1>5, <1>9 DEF TypeOK, Threads, Table, Channel
<1>15. /\ Sends(ch', p) = a.send /\ Recvs(ch', p) = a.recv
       /\ \A q \in Prog \ {p} : Sends(ch', q) = Sends(ch, q) /\ Recvs(ch', q) = Recvs(ch, q)
<2>1. ASSUME NEW q \in Prog, NEW d \in Chan
      PROVE  /\ q \in ToSet(ch'[d].send) <=> q \in ToSet(ch[d].send)
             /\ q \in ToSet(ch'[d].recv) <=> q \in ToSet(ch[d].recv)
             /\ ch'[d].sendalt = q <=> ch[d].sendalt = q \/ (q = p /\ d \in a.send)
             /\ ch'[d].recvalt = q <=> ch[d].recvalt = q \/ (q = p /\ d \in a.recv)
  BY <1>3, <1>6, NilAssumption
<2>2. a.send \subseteq Chan /\ a.recv \subseteq Chan
  BY <1>1, <1>2 DEF TypeOK
<2> QED
  BY <1>3, <2>1, <2>2 DEF Sends, Recvs
<1>16. Abs!Next
<2>1. a.send \cup a.recv # {}
<3>1. Cardinality(a.send) + Cardinality(a.recv) \in 1..MaxAlt
  BY DEF LiveAlt
<3>2. Cardinality({}) = 0
  BY FS_EmptySet
<3>3. a.send # {} \/ a.recv # {}
  BY <3>1, <3>2, LimAssumption
<3> QED
  BY <3>3
<2>2. /\ a.send \subseteq Chan /\ a.recv \subseteq Chan /\ a.send \cap a.recv = {}
      /\ SameQueues(ch, ch')
  BY <1>1, <1>2, <1>6, <1>7 DEF TypeOK, SameQueues
<2> QED
  BY <1>2, <1>4, <1>7, <1>15, <2>1, <2>2, AbsPost
<1> QED
  BY <1>9, <1>10, <1>11, <1>12, <1>13, <1>14, <1>16 DEF IInv, Threads, Agree

\* altcomm: the meeting is the one an instruction would make, the marks of the
\* alt come and go.
LEMMA StepAltComm ==
  ASSUME IInv, NEW p \in Prog, NEW a \in LiveAlt, AltComm(p, a)
  PROVE  IInv' /\ Abs!Next
<1>1. AtHead(p) /\ blk[p] = "no" /\ TypeOK /\ Agree /\ Places /\ ch \in Table
  BY DEF AltComm, Running, AtHead, IInv, TypeOK, Table, Channel
<1>2. Idle(p) /\ a \in AltTable /\ a.send \subseteq live /\ a.recv \subseteq live /\ live \subseteq Chan
  BY <1>1, HeadFacts, LiveAltTable DEF TypeOK
<1>3. \A d \in Chan : ch[d].recvalt # p /\ ch[d].sendalt # p
  BY <1>1, <1>2, IdleNowhere
<1> DEFINE m == AltMark(ch, p, a)
<1>4. ~ AltBad(a, p) /\ kill' = kill /\ live' = live
  BY DEF AltComm
<1>5. m \in Table /\ Marked(ch, m, p, a)
  BY <1>1, <1>2, <1>3, <1>4, AltMarkTable, AltMarkGood
<1>6. PICK e \in AltReady(a) :
        \/ /\ e[1] = "send"
           /\ ch' = altdone(TakeReceiver(m, e[2]), p, a)
           /\ Meet(Receiver(m, e[2]), p, Receiver(m, e[2]), e[2])
        \/ /\ e[1] = "recv" /\ SendWaits(m, e[2])
           /\ ch' = altdone(TakeSender(m, e[2]), p, a)
           /\ Meet(Sender(m, e[2]), Sender(m, e[2]), p, e[2])
        \/ /\ e[1] = "recv" /\ ~ SendWaits(m, e[2])
           /\ ch' = altdone([m EXCEPT ![e[2]].sendq = Tail(@)], p, a)
           /\ moved' = Append(Head(ch[e[2]].sendq), p)
           /\ UNCHANGED <<runq, state, blk, chan, ptr, alt>>
  BY DEF AltComm
<1> HIDE DEF m
<1> DEFINE c == e[2]
<1>7. \/ e[1] = "send" /\ c \in a.send /\ RecvWaits(ch, c)
      \/ e[1] = "recv" /\ c \in a.recv /\ (SendWaits(ch, c) \/ ch[c].sendq # <<>>)
  BY DEF AltReady, Entry
<1> HIDE DEF c
<1>8. c \in live /\ c \in Chan /\ (c \in a.send => c \notin a.recv)
  BY <1>2, <1>4, <1>7 DEF AltBad
<1>9. CASE e[1] = "send"
<2>1. c \in a.send /\ c \notin a.recv /\ RecvWaits(ch, c)
  BY <1>7, <1>8, <1>9
<2>2. ch' = altdone(TakeReceiver(m, c), p, a) /\ Meet(Receiver(m, c), p, Receiver(m, c), c)
  BY <1>6, <1>9 DEF c
<2>3. RecvWaits(m, c)
  BY <1>5, <1>8, <2>1 DEF Marked, SameLists, RecvWaits
<2>4. TakeReceiver(m, c) \in Table
  BY <1>1, <1>5, <1>8, <2>3, TakeReceiverTable
<2>5. ch' \in Table /\ Unmarked(TakeReceiver(m, c), ch', p, a)
  BY <1>2, <2>2, <2>4, AltdoneTable
<2> DEFINE q == Receiver(m, c)
<2>6. /\ q \in Prog /\ q # p /\ Leaves(ch, ch', {q}) /\ SameQueues(ch, ch')
      /\ \/ state[q] \in {"alt", "recv"}
         \/ Hooked(q) /\ ptr[q] /\ state[q] \in {"release", "exiting"}
      /\ q \in ToSet(ch[c].recv) \/ ch[c].recvalt = q
  BY ONLY p \in Prog, <1>1, <1>2, <1>5, <1>8, <2>1, <2>5, MeetReceiver
<2>7. IInv'
  BY <1>4, <1>8, <2>2, <2>6, Meeting DEF Waiting
<2>8. moved' = <<p, c, q>> /\ c \in Recvs(ch, q)
  BY <1>8, <2>2, <2>6 DEF Meet, Recvs
<2> HIDE DEF q
<2> QED
  BY <1>2, <1>8, <2>6, <2>7, <2>8, AbsMeet
<1>10. CASE e[1] = "recv" /\ SendWaits(m, c)
<2>1. c \in a.recv /\ c \notin a.send
  BY <1>7, <1>8, <1>10
<2>2. ch' = altdone(TakeSender(m, c), p, a) /\ Meet(Sender(m, c), Sender(m, c), p, c)
  BY <1>6, <1>10 DEF c
<2>3. SendWaits(ch, c)
  BY <1>5, <1>8, <1>10, <2>1 DEF Marked, SameLists, SendWaits
<2>4. TakeSender(m, c) \in Table
  BY <1>1, <1>5, <1>8, <1>10, TakeSenderTable
<2>5. ch' \in Table /\ Unmarked(TakeSender(m, c), ch', p, a)
  BY <1>2, <2>2, <2>4, AltdoneTable
<2> DEFINE q == Sender(m, c)
<2>6. /\ q \in Prog /\ q # p /\ Leaves(ch, ch', {q}) /\ SameQueues(ch, ch')
      /\ state[q] \in {"alt", "send"}
      /\ q \in ToSet(ch[c].send) \/ ch[c].sendalt = q
  BY ONLY p \in Prog, <1>1, <1>2, <1>5, <1>8, <2>1, <2>3, <2>5, MeetSender
<2>7. IInv'
  BY <1>4, <1>8, <2>2, <2>6, Meeting DEF Waiting
<2>8. moved' = <<q, c, p>> /\ c \in Sends(ch, q)
  BY <1>8, <2>2, <2>6 DEF Meet, Sends
<2> HIDE DEF q
<2> QED
  BY <1>2, <1>8, <2>6, <2>7, <2>8, AbsMeet
<1>11. CASE e[1] = "recv" /\ ~ SendWaits(m, c)
<2>1. c \in a.recv /\ c \notin a.send
  BY <1>7, <1>8, <1>11
<2>2. ~ SendWaits(ch, c)
  BY <1>5, <1>8, <1>11, <2>1 DEF Marked, SameLists, SendWaits
<2>3. ch[c].sendq # <<>> /\ m[c].sendq = ch[c].sendq
  BY <1>5, <1>7, <1>8, <1>11, <2>2 DEF Marked, SameLists
<2> DEFINE v == [m EXCEPT ![c].sendq = Tail(@)]
           w == [ch EXCEPT ![c].sendq = Tail(@)]
<2>4. /\ ch' = altdone(v, p, a) /\ moved' = Append(Head(ch[c].sendq), p)
      /\ UNCHANGED <<runq, state, blk, chan, ptr, alt>>
  BY <1>6, <1>11 DEF c
<2>5. Tail(ch[c].sendq) \in Seq(Msg)
  BY <1>1, <1>8, <2>3 DEF Table, Channel
<2>6. /\ v \in Table
      /\ \A d \in Chan : /\ v[d].send = m[d].send /\ v[d].recv = m[d].recv
                         /\ v[d].sendalt = m[d].sendalt /\ v[d].recvalt = m[d].recvalt
                         /\ v[d].sendq = IF d = c THEN Tail(ch[c].sendq) ELSE m[d].sendq
  BY <1>5, <1>8, <2>3, <2>5 DEF Table, Channel
<2>7. /\ w \in Table
      /\ \A d \in Chan : /\ w[d].send = ch[d].send /\ w[d].recv = ch[d].recv
                         /\ w[d].sendalt = ch[d].sendalt /\ w[d].recvalt = ch[d].recvalt
                         /\ w[d].sendq = IF d = c THEN Tail(ch[c].sendq) ELSE ch[d].sendq
  BY <1>1, <1>8, <2>5 DEF Table, Channel
<2> HIDE DEF v, w
<2>8. ch' \in Table /\ Unmarked(v, ch', p, a)
  BY <1>2, <2>4, <2>6, AltdoneTable
<2>9. ASSUME NEW d \in Chan PROVE ch'[d] = w[d]
<3>1. /\ ch'[d].send = v[d].send /\ ch'[d].recv = v[d].recv /\ ch'[d].sendq = v[d].sendq
      /\ ch'[d].sendalt = IF d \in a.send /\ v[d].sendalt = p THEN NoProg ELSE v[d].sendalt
      /\ ch'[d].recvalt = IF d \in a.recv /\ v[d].recvalt = p THEN NoProg ELSE v[d].recvalt
  BY <2>8 DEF Unmarked, SameLists
<3>2. /\ m[d].send = ch[d].send /\ m[d].recv = ch[d].recv /\ m[d].sendq = ch[d].sendq
      /\ d \in a.send => ch[d].sendalt = NoProg /\ m[d].sendalt = p
      /\ d \notin a.send => m[d].sendalt = ch[d].sendalt
      /\ d \in a.recv => ch[d].recvalt = NoProg /\ m[d].recvalt = p
      /\ d \notin a.recv => m[d].recvalt = ch[d].recvalt
  BY <1>5 DEF Marked, SameLists
<3>3. /\ ch'[d].send = w[d].send /\ ch'[d].recv = w[d].recv /\ ch'[d].sendq = w[d].sendq
      /\ ch'[d].sendalt = w[d].sendalt /\ ch'[d].recvalt = w[d].recvalt
  BY <2>6, <2>7, <3>1, <3>2
<3>4. ch'[d] \in Channel /\ w[d] \in Channel
  BY <2>7, <2>8 DEF Table
<3> QED
  BY <3>3, <3>4 DEF Channel
<2>10. ch' = w
  BY <2>7, <2>8, <2>9 DEF Table
<2>11. blk' = [blk EXCEPT ![p] = "no"]
  BY <1>1, <2>4 DEF TypeOK
<2>12. ch' = [ch EXCEPT ![c].sendq = Tail(@)]
  BY <2>10 DEF w
<2> QED
  BY <1>1, <1>4, <1>8, <2>2, <2>3, <2>4, <2>11, <2>12, QueueTaken
<1> QED
  BY <1>7, <1>9, <1>10, <1>11

LEMMA StepAlt ==
  ASSUME IInv, NEW p \in Prog, NEW a \in LiveAlt, xecalt(p, a)
  PROVE  IInv' /\ Abs!Next
<1>1. ASSUME NEW twice \in BOOLEAN, AltErr(p, a, twice) PROVE IInv' /\ Abs!Next
  BY <1>1, StepAltIdle
<1>2. ASSUME AltNone(p, a) PROVE IInv' /\ Abs!Next
<2>1. TRUE \in BOOLEAN
  OBVIOUS
<2> QED
  BY <1>2, <2>1, StepAltIdle
<1> QED
  BY <1>1, <1>2, StepAltBlock, StepAltComm DEF xecalt

(***************************************************************************)
(* Kill.                                                                   *)
(***************************************************************************)

\* killprog takes a thread out of what it waits on, and only there.
LEMMA DelcommLeaves ==
  ASSUME IInv, NEW p \in Prog, state[p] \in {"alt", "send", "recv", "ready", "broken"}
  PROVE  Leaves(ch, Delcomm(p), {p}) /\ SameQueues(ch, Delcomm(p))
<1> DEFINE u == Delcomm(p)
<1>0. TypeOK /\ Agree /\ Places /\ ch \in Table /\ ~ Hooked(p)
  BY DEF IInv, TypeOK, Table, Channel, Places, Waiting, Hooked
<1>1. \A d \in Chan : IsInjective(ch[d].send) /\ IsInjective(ch[d].recv)
  BY <1>0 DEF Agree, WaitConsistent
<1>2. CASE state[p] = "alt"
<2>1. u = altdone(ch, p, alt[p]) /\ alt[p] \in AltTable
  BY <1>0, <1>2 DEF Delcomm, TypeOK
<2>2. u \in Table /\ Unmarked(ch, u, p, alt[p])
  BY <1>0, <2>1, AltdoneTable
<2>3. \A d \in Chan : /\ p \notin ToSet(ch[d].send) /\ p \notin ToSet(ch[d].recv)
                      /\ ch[d].sendalt = p => d \in alt[p].send
                      /\ ch[d].recvalt = p => d \in alt[p].recv
  BY <1>0, <1>2 DEF Agree, WaitConsistent, AltMarksExact, Hooked
<2> HIDE DEF u
<2>4. Leaves(ch, u, {p}) /\ SameQueues(ch, u)
  BY <1>1, <2>2, <2>3 DEF Leaves, SameQueues, Unmarked, SameLists
<2> QED
  BY <2>4 DEF u
<1>3. CASE state[p] = "send"
<2> DEFINE c == chan[p]
<2>1. \A d \in Chan : /\ p \notin ToSet(ch[d].recv) /\ ch[d].sendalt # p /\ ch[d].recvalt # p
                      /\ p \in ToSet(ch[d].send) <=> d = c
  BY <1>0, <1>3 DEF Agree, WaitConsistent, AltMarksExact, Hooked
<2>2. u = [ch EXCEPT ![c].send = RemoveFirst(@, p)]
  BY <1>3 DEF Delcomm
<2> HIDE DEF u, c
<2>3. ASSUME NEW d \in Chan
      PROVE  /\ u[d] \in Channel /\ u[d].recv = ch[d].recv /\ u[d].sendq = ch[d].sendq
             /\ u[d].sendalt = ch[d].sendalt /\ u[d].recvalt = ch[d].recvalt
             /\ IsInjective(u[d].send) /\ ToSet(u[d].send) = ToSet(ch[d].send) \ {p}
<3>0. ch[d] \in Channel /\ ch[d].send \in Seq(Prog) /\ IsInjective(ch[d].send)
  BY <1>0, <1>1 DEF Table, Channel
<3>1. CASE d = c
<4>1. u[d] = [ch[d] EXCEPT !.send = RemoveFirst(ch[d].send, p)]
  BY <1>0, <2>2, <3>1 DEF Table
<4>2. /\ RemoveFirst(ch[d].send, p) \in Seq(Prog) /\ IsInjective(RemoveFirst(ch[d].send, p))
      /\ ToSet(RemoveFirst(ch[d].send, p)) = ToSet(ch[d].send) \ {p}
  BY <3>0, ListRemove
<4> QED
  BY <3>0, <4>1, <4>2 DEF Channel
<3>2. CASE d # c
<4>1. u[d] = ch[d] /\ p \notin ToSet(ch[d].send)
  BY <1>0, <2>1, <2>2, <3>2 DEF Table
<4> QED
  BY <3>0, <4>1
<3> QED
  BY <3>1, <3>2
<2>4. u \in Table
  BY <1>0, <2>2, <2>3 DEF Table
<2>5. Leaves(ch, u, {p}) /\ SameQueues(ch, u)
  BY <1>1, <2>1, <2>3, <2>4 DEF Leaves, SameQueues
<2> QED
  BY <2>5 DEF u
<1>4. CASE state[p] = "recv"
<2> DEFINE c == chan[p]
<2>1. \A d \in Chan : /\ p \notin ToSet(ch[d].send) /\ ch[d].sendalt # p /\ ch[d].recvalt # p
                      /\ p \in ToSet(ch[d].recv) <=> d = c
  BY <1>0, <1>4 DEF Agree, WaitConsistent, AltMarksExact, Hooked
<2>2. u = [ch EXCEPT ![c].recv = RemoveFirst(@, p)]
  BY <1>4 DEF Delcomm
<2> HIDE DEF u, c
<2>3. ASSUME NEW d \in Chan
      PROVE  /\ u[d] \in Channel /\ u[d].send = ch[d].send /\ u[d].sendq = ch[d].sendq
             /\ u[d].sendalt = ch[d].sendalt /\ u[d].recvalt = ch[d].recvalt
             /\ IsInjective(u[d].recv) /\ ToSet(u[d].recv) = ToSet(ch[d].recv) \ {p}
<3>0. ch[d] \in Channel /\ ch[d].recv \in Seq(Prog) /\ IsInjective(ch[d].recv)
  BY <1>0, <1>1 DEF Table, Channel
<3>1. CASE d = c
<4>1. u[d] = [ch[d] EXCEPT !.recv = RemoveFirst(ch[d].recv, p)]
  BY <1>0, <2>2, <3>1 DEF Table
<4>2. /\ RemoveFirst(ch[d].recv, p) \in Seq(Prog) /\ IsInjective(RemoveFirst(ch[d].recv, p))
      /\ ToSet(RemoveFirst(ch[d].recv, p)) = ToSet(ch[d].recv) \ {p}
  BY <3>0, ListRemove
<4> QED
  BY <3>0, <4>1, <4>2 DEF Channel
<3>2. CASE d # c
<4>1. u[d] = ch[d] /\ p \notin ToSet(ch[d].recv)
  BY <1>0, <2>1, <2>2, <3>2 DEF Table
<4> QED
  BY <3>0, <4>1
<3> QED
  BY <3>1, <3>2
<2>4. u \in Table
  BY <1>0, <2>2, <2>3 DEF Table
<2>5. Leaves(ch, u, {p}) /\ SameQueues(ch, u)
  BY <1>1, <2>1, <2>3, <2>4 DEF Leaves, SameQueues
<2> QED
  BY <2>5 DEF u
<1>5. CASE state[p] \in {"ready", "broken"}
<2>1. u = ch
  BY <1>5 DEF Delcomm
<2>2. Idle(p)
  BY <1>0, <1>5 DEF Idle, Waiting, Hooked
<2>3. \A d \in Chan : /\ p \notin ToSet(ch[d].send) /\ p \notin ToSet(ch[d].recv)
                      /\ ch[d].sendalt # p /\ ch[d].recvalt # p
  BY <1>0, <2>2, IdleNowhere
<2> HIDE DEF u
<2>4. Leaves(ch, u, {p}) /\ SameQueues(ch, u)
  BY <1>0, <1>1, <2>1, <2>3 DEF Leaves, SameQueues
<2> QED
  BY <2>4 DEF u
<1> QED
  BY <1>2, <1>3, <1>4, <1>5

\* killprog frees a thread that is not in a call; the killer releases the VM.
LEMMA StepKillFree ==
  ASSUME IInv, NEW k \in Prog, NEW p \in Prog, p # k, AtHead(k),
         state[p] \in {"alt", "send", "recv", "ready", "broken"},
         KillFree(k, p, Delcomm(p)), live' = live
  PROVE  IInv' /\ Abs!Next
<1>0. TypeOK /\ Agree /\ Places /\ RunqConsistent
  BY DEF IInv
<1>1. /\ ch' = Delcomm(p)
      /\ runq' = Tail(IF state[p] = "ready" THEN RemoveFirst(runq, p) ELSE runq)
      /\ state' = [state EXCEPT ![p] = "none", ![k] = "release"]
      /\ blk' = [blk EXCEPT ![k] = "sys"] /\ kill' = [kill EXCEPT ![p] = "no"]
      /\ ptr' = [ptr EXCEPT ![p] = FALSE] /\ chan' = [chan EXCEPT ![p] = NoChan]
      /\ alt' = [alt EXCEPT ![p] = NoAlt] /\ moved' = NoMsg
  BY DEF KillFree, Still
<1>2. state[k] \in {"ready", "exiting"} /\ Idle(k) /\ k \in ToSet(runq)
  BY HeadFacts
<1>3. \A q \in Prog : q # k => blk[q] # "in"
  BY <1>0 DEF Places, AtHead
<1>4. blk[p] = "no"
  BY <1>0, <1>3 DEF Places, Waiting
<1>5. /\ state'[p] = "none" /\ state'[k] = "release" /\ blk'[k] = "sys" /\ blk'[p] = "no"
      /\ \A q \in Prog \ {p, k} : state'[q] = state[q] /\ blk'[q] = blk[q]
  BY <1>0, <1>1, <1>4 DEF TypeOK
<1>6. runq' \in Seq(Prog) /\ IsInjective(runq') /\ ToSet(runq') = ToSet(runq) \ {p, k}
<2> DEFINE s == IF state[p] = "ready" THEN RemoveFirst(runq, p) ELSE runq
<2>1. runq \in Seq(Prog) /\ runq # <<>> /\ IsInjective(runq) /\ Head(runq) = k
  BY <1>0 DEF TypeOK, RunqConsistent, AtHead, currun
<2>2. /\ s \in Seq(Prog) /\ s # <<>> /\ IsInjective(s) /\ Head(s) = k
      /\ ToSet(s) = ToSet(runq) \ {p}
<3>1. CASE state[p] = "ready"
<4>1. s = RemoveFirst(runq, p) /\ Head(runq) # p
  BY <2>1, <3>1
<4> HIDE DEF s
<4> QED
  BY <2>1, <4>1, ListRemove
<3>2. CASE state[p] # "ready"
<4>1. s = runq /\ p \notin ToSet(runq)
  BY <1>0, <3>2 DEF RunqConsistent
<4> QED
  BY <2>1, <4>1
<3> QED
  BY <3>1, <3>2
<2>3. runq' = Tail(s)
  BY <1>1
<2> HIDE DEF s
<2>4. Tail(s) \in Seq(Prog) /\ IsInjective(Tail(s)) /\ ToSet(Tail(s)) = ToSet(s) \ {k}
  BY <2>2, ListTail
<2> QED
  BY <2>2, <2>3, <2>4
<1>7. RunqConsistent'
<2> SUFFICES ASSUME NEW q \in Prog
             PROVE  q \in ToSet(runq') <=>
                      state'[q] = "ready" \/ (state'[q] = "exiting" /\ blk'[q] \in {"no", "in"})
  BY <1>6 DEF RunqConsistent
<2>1. q \in ToSet(runq) <=>
        state[q] = "ready" \/ (state[q] = "exiting" /\ blk[q] \in {"no", "in"})
  BY <1>0 DEF RunqConsistent
<2> QED
  BY <1>5, <1>6, <2>1
<1>8. Places'
  BY <1>0, <1>3, <1>5 DEF Places, Waiting
<1>9. Threads'
  BY <1>0, <1>1, <1>6, <1>7, <1>8 DEF Threads, TypeOK, ProgState, Where
<1>10. Leaves(ch, ch', {p}) /\ SameQueues(ch, ch')
  BY <1>1, DelcommLeaves
<1>11. ASSUME NEW q \in Prog \ {p} PROVE Bystander(q)
<2>1. chan'[q] = chan[q] /\ alt'[q] = alt[q] /\ kill'[q] = kill[q] /\ ptr'[q] = ptr[q]
  BY <1>0, <1>1 DEF TypeOK
<2> QED
  BY <1>2, <1>5, <2>1 DEF Bystander, Idle, Hooked, Waiting
<1>12. /\ live' \subseteq Chan /\ {p} \subseteq Prog /\ state'[p] \notin Waiting
       /\ blk'[p] # "sleep" /\ ~ ptr'[p]
  BY <1>0, <1>1, <1>5 DEF TypeOK, Waiting
<1>13. ASSUME NEW d \in Chan, d \notin live' PROVE ch'[d] = cnewc
  BY <1>0, <1>10, <1>12, <1>13, DeadStay DEF SameQueues
<1>14. Agree'
  BY <1>0, <1>10, <1>11, <1>12, <1>13, LeavesKeep DEF SameQueues
<1>15. TypeOK'
  BY <1>0, <1>1, <1>9, <1>10 DEF TypeOK, Threads, Leaves, Table, Channel, AltTable, NoAlt
<1> QED
  BY <1>1, <1>9, <1>10, <1>14, <1>15, AbsWithdraw DEF IInv, Threads

LEMMA StepKill ==
  ASSUME IInv, NEW k \in Prog, NEW p \in Prog, killprog(k, p)
  PROVE  IInv' /\ Abs!Next
<1>0. TypeOK /\ Places /\ RunqConsistent
  BY DEF IInv
<1>1. AtHead(k) /\ live' = live /\ blk[p] # "dying"
  BY DEF killprog, InCall, Running, AtHead
<1>2. state[k] \in {"ready", "exiting"} /\ Idle(k)
  BY <1>1, HeadFacts
<1>3. \A q \in Prog : q # k => blk[q] # "in"
  BY <1>0, <1>1 DEF Places, AtHead
<1>4. CASE /\ p = k
           /\ kill' = [kill EXCEPT ![p] = "kill"]
           /\ state' = [state EXCEPT ![p] = "exiting"]
           /\ Enter(k) /\ Still
           /\ UNCHANGED <<ch, runq, ptr, chan, alt>>
<2>1. /\ blk' = [blk EXCEPT ![k] = "in"] /\ state' = [state EXCEPT ![k] = "exiting"]
      /\ kill' = [kill EXCEPT ![k] = "kill"] /\ moved' = NoMsg
      /\ ch' = ch /\ runq' = runq /\ ptr' = ptr /\ chan' = chan /\ alt' = alt
  BY <1>4 DEF Enter, Still
<2>2. RunqConsistent'
  BY <1>0, <1>1, <1>2, <2>1 DEF TypeOK, RunqConsistent, AtHead
<2>3. Places'
  BY <1>0, <1>1, <1>3, <2>1 DEF TypeOK, Places, AtHead, currun, Waiting
<2>4. Threads'
  BY <1>0, <2>1, <2>2, <2>3 DEF TypeOK, Threads, ProgState, Where
<2>5. ASSUME NEW q \in Prog PROVE Bystander(q)
  BY <1>0, <1>2, <2>1 DEF TypeOK, Bystander, Idle, Hooked, Waiting
<2>6. kill' \in [Prog -> {"no", "kill", "hangup"}]
  BY <1>0, <2>1 DEF TypeOK
<2> QED
  BY <1>1, <2>1, <2>4, <2>5, <2>6, Quiet
<1>5. CASE /\ p # k /\ state[p] \in {"alt", "send", "recv", "ready", "broken"}
           /\ KillFree(k, p, Delcomm(p))
  BY <1>1, <1>5, StepKillFree
<1>6. CASE /\ p # k /\ state[p] = "release"
           /\ kill' = [kill EXCEPT ![p] = "kill"]
           /\ state' = [state EXCEPT ![p] = "exiting"]
           /\ blk' = [blk EXCEPT ![p] = IF @ = "sleep" THEN "intr" ELSE @, ![k] = "in"]
           /\ Still
           /\ UNCHANGED <<ch, runq, ptr, chan, alt>>
<2>1. /\ ch' = ch /\ runq' = runq /\ ptr' = ptr /\ chan' = chan /\ alt' = alt /\ moved' = NoMsg
      /\ blk' \in [Prog -> Where] /\ state' \in [Prog -> ProgState]
      /\ kill' \in [Prog -> {"no", "kill", "hangup"}]
  BY <1>0, <1>6 DEF Still, TypeOK, ProgState, Where
<2>2. /\ blk'[k] = "in" /\ blk'[p] = IF blk[p] = "sleep" THEN "intr" ELSE blk[p]
      /\ state'[p] = "exiting" /\ state'[k] = state[k]
      /\ \A q \in Prog \ {p} : state'[q] = state[q] /\ kill'[q] = kill[q]
      /\ \A q \in Prog \ {p, k} : blk'[q] = blk[q]
  BY <1>0, <1>6 DEF TypeOK
<2>3. blk[p] \in {"sys", "block", "sleep", "woken", "intr"}
  BY <1>0, <1>1, <1>6 DEF Places
<2>4. RunqConsistent'
<3> SUFFICES ASSUME NEW q \in Prog
             PROVE  q \in ToSet(runq) <=>
                      state'[q] = "ready" \/ (state'[q] = "exiting" /\ blk'[q] \in {"no", "in"})
  BY <1>0, <2>1 DEF RunqConsistent
<3>1. q \in ToSet(runq) <=>
        state[q] = "ready" \/ (state[q] = "exiting" /\ blk[q] \in {"no", "in"})
  BY <1>0 DEF RunqConsistent
<3>2. CASE q = p
  BY <1>6, <2>2, <2>3, <3>1, <3>2
<3>3. CASE q = k
  BY <1>1, <1>2, <2>2, <3>1, <3>3 DEF AtHead
<3>4. CASE q # p /\ q # k
  BY <2>2, <3>1, <3>4
<3> QED
  BY <3>2, <3>3, <3>4
<2>5. Places'
  BY <1>0, <1>1, <1>2, <1>3, <1>6, <2>1, <2>2, <2>3 DEF Places, AtHead, currun, Waiting
<2>6. Threads'
  BY <1>0, <2>1, <2>4, <2>5 DEF TypeOK, Threads
<2>7. ASSUME NEW q \in Prog PROVE Bystander(q)
<3>1. CASE q = p
  BY <1>6, <2>1, <2>2, <2>3, <3>1 DEF Bystander, Hooked, Waiting
<3>2. CASE q = k
  BY <1>1, <1>2, <2>1, <2>2, <3>2 DEF Bystander, Hooked, Waiting, AtHead
<3>3. CASE q # p /\ q # k
  BY <2>1, <2>2, <3>3 DEF Bystander, Hooked, Waiting
<3> QED
  BY <3>1, <3>2, <3>3
<2> QED
  BY <1>1, <2>1, <2>6, <2>7, Quiet
<1>7. CASE /\ p # k /\ state[p] = "exiting"
           /\ Enter(k) /\ Still
           /\ UNCHANGED <<ch, runq, state, kill, ptr, chan, alt>>
<2>1. /\ blk' = [blk EXCEPT ![k] = "in"] /\ moved' = NoMsg /\ state' = state /\ kill' = kill
      /\ ch' = ch /\ runq' = runq /\ ptr' = ptr /\ chan' = chan /\ alt' = alt
  BY <1>7 DEF Enter, Still
<2>2. Threads'
  BY <1>1, <2>1, StayHead
<2>3. ASSUME NEW q \in Prog PROVE Bystander(q)
  BY <1>0, <1>2, <2>1 DEF TypeOK, Bystander, Idle, Hooked, Waiting
<2> QED
  BY <1>0, <1>1, <2>1, <2>2, <2>3, Quiet DEF TypeOK
<1> QED
  BY <1>4, <1>5, <1>6, <1>7 DEF killprog

(***************************************************************************)
(* Hangup.                                                                 *)
(***************************************************************************)

\* altgone cancels every mark of the thread at an alt pointer, if there is one.
LEMMA AltGoneTable ==
  ASSUME IInv, NEW t \in Table, SameLists(ch, t), NEW q \in Prog \cup {NoProg},
         \A d \in Chan : t[d].sendalt \in {ch[d].sendalt, NoProg} /\ t[d].recvalt \in {ch[d].recvalt, NoProg},
         q # NoProg => state[q] = "alt"
  PROVE  LET u == AltGone(t, q)
         IN /\ u \in Table /\ SameLists(ch, u)
            /\ \A d \in Chan :
                 /\ u[d].sendalt = IF t[d].sendalt = q THEN NoProg ELSE t[d].sendalt
                 /\ u[d].recvalt = IF t[d].recvalt = q THEN NoProg ELSE t[d].recvalt
<1> DEFINE u == AltGone(t, q)
<1>1. CASE q = NoProg
<2>1. u = t
  BY <1>1 DEF AltGone
<2> QED
  BY <1>1, <2>1
<1>2. CASE q # NoProg
<2>1. q \in Prog /\ state[q] = "alt" /\ alt[q] \in AltTable
  BY <1>2 DEF IInv, TypeOK
<2>2. u = altdone(t, q, alt[q])
  BY <2>1, <1>2 DEF AltGone
<2>3. u \in Table /\ Unmarked(t, u, q, alt[q])
  BY <2>1, <2>2, AltdoneTable
<2>4. \A d \in Chan : /\ t[d].sendalt = q => d \in alt[q].send
                      /\ t[d].recvalt = q => d \in alt[q].recv
  BY <1>2, <2>1 DEF IInv, Agree, AltMarksExact
<2> HIDE DEF u
<2>5. SameLists(ch, u)
  BY <2>3 DEF Unmarked, SameLists
<2>6. \A d \in Chan :
        /\ u[d].sendalt = IF t[d].sendalt = q THEN NoProg ELSE t[d].sendalt
        /\ u[d].recvalt = IF t[d].recvalt = q THEN NoProg ELSE t[d].recvalt
  BY <2>3, <2>4 DEF Unmarked
<2> QED
  BY <2>3, <2>5, <2>6 DEF u
<1> QED
  BY <1>1, <1>2

\* Everybody who waits on a channel that is freed leaves it, whether to raise a
\* hangup or to find its sleep in cblock interrupted.
LEMMA StepFreeChan ==
  ASSUME IInv, NEW c \in Chan, FreeChan(c)
  PROVE  IInv' /\ Abs!Next
<1> DEFINE sa == ch[c].sendalt
           ra == ch[c].recvalt
           t == AltGone(AltGone(ch, sa), ra)
           all == <<sa, ra>> \o ch[c].send \o ch[c].recv
           Gone == {p \in Prog : p \in ToSet(all) /\ state[p] \in {"alt", "send", "recv"}}
           Swi == {p \in ToSet(ch[c].recv) : state[p] = "release"}
           R == ToSet(ch[c].recv)
           Q == Gone \cup R
<1>0. /\ TypeOK /\ Agree /\ Places /\ RunqConsistent /\ ch \in Table /\ NoProg \notin Prog
      /\ IsFiniteSet(Prog)
  BY NilAssumption DEF IInv, TypeOK, Table, Channel
<1>1. /\ c \in live /\ live' = live \ {c} /\ ch' = [t EXCEPT ![c] = cnewc]
      /\ \E h \in SetToSeqs(Gone) : InOrderOf(h, all) /\ runq' = runq \o h
      /\ state' = [p \in Prog |-> IF p \in Gone THEN "ready" ELSE state[p]]
      /\ kill' = [p \in Prog |-> IF p \in Gone THEN "hangup" ELSE kill[p]]
      /\ ptr' = [p \in Prog |-> IF p \in Gone \cup R THEN FALSE ELSE ptr[p]]
      /\ chan' = [p \in Prog |-> IF p \in Gone THEN NoChan ELSE chan[p]]
      /\ alt' = [p \in Prog |-> IF p \in Gone THEN NoAlt ELSE alt[p]]
      /\ blk' = [p \in Prog |-> IF p \in Swi /\ blk[p] = "sleep" THEN "intr" ELSE blk[p]]
      /\ moved' = NoMsg
  BY DEF FreeChan, Still
<1>2. /\ sa \in Prog \cup {NoProg} /\ ra \in Prog \cup {NoProg}
      /\ ch[c].send \in Seq(Prog) /\ ch[c].recv \in Seq(Prog)
  BY <1>0 DEF Table, Channel
<1>3. ToSet(all) = {sa, ra} \cup ToSet(ch[c].send) \cup R
<2> DEFINE S == Prog \cup {NoProg}
           both == <<sa, ra>>
<2>1. both \in Seq(S) /\ ch[c].send \in Seq(S) /\ ch[c].recv \in Seq(S)
  BY <1>2
<2>2. ToSet(both) = {sa, ra}
  BY DEF ToSet
<2> HIDE DEF both, S
<2>3. /\ both \o ch[c].send \in Seq(S)
      /\ ToSet(both \o ch[c].send) = ToSet(both) \cup ToSet(ch[c].send)
  BY ONLY <2>1, ListConcat
<2> DEFINE senders == both \o ch[c].send
<2>4. senders \in Seq(S) /\ all = senders \o ch[c].recv
  BY <2>3 DEF both
<2> HIDE DEF senders, all
<2>5. ToSet(senders \o ch[c].recv) = ToSet(senders) \cup ToSet(ch[c].recv)
  BY ONLY <2>1, <2>4, ListConcat
<2> QED
  BY <2>2, <2>3, <2>4, <2>5 DEF senders
<1> HIDE DEF all
<1>4. /\ sa # NoProg => state[sa] = "alt"
      /\ ra # NoProg => state[ra] = "alt"
  BY <1>0, <1>2 DEF Agree, AltMarksExact
<1>5. /\ t \in Table /\ SameLists(ch, t)
      /\ \A d \in Chan :
           /\ t[d].sendalt = IF ch[d].sendalt \in {sa, ra} THEN NoProg ELSE ch[d].sendalt
           /\ t[d].recvalt = IF ch[d].recvalt \in {sa, ra} THEN NoProg ELSE ch[d].recvalt
<2> DEFINE v == AltGone(ch, sa)
<2>1. SameLists(ch, ch)
  BY DEF SameLists
<2>2. /\ v \in Table /\ SameLists(ch, v)
      /\ \A d \in Chan :
           /\ v[d].sendalt = IF ch[d].sendalt = sa THEN NoProg ELSE ch[d].sendalt
           /\ v[d].recvalt = IF ch[d].recvalt = sa THEN NoProg ELSE ch[d].recvalt
  BY <1>0, <1>2, <1>4, <2>1, AltGoneTable
<2> HIDE DEF v, sa, ra
<2>3. \A d \in Chan : v[d].sendalt \in {ch[d].sendalt, NoProg} /\ v[d].recvalt \in {ch[d].recvalt, NoProg}
  BY <2>2
<2>4. LET u == AltGone(v, ra)
      IN /\ u \in Table /\ SameLists(ch, u)
         /\ \A d \in Chan :
              /\ u[d].sendalt = IF v[d].sendalt = ra THEN NoProg ELSE v[d].sendalt
              /\ u[d].recvalt = IF v[d].recvalt = ra THEN NoProg ELSE v[d].recvalt
  BY <1>2, <1>4, <2>2, <2>3, AltGoneTable
<2>5. t = AltGone(v, ra)
  BY DEF v
<2> HIDE DEF t
<2>6. ASSUME NEW d \in Chan
      PROVE  /\ t[d].sendalt = IF ch[d].sendalt \in {sa, ra} THEN NoProg ELSE ch[d].sendalt
             /\ t[d].recvalt = IF ch[d].recvalt \in {sa, ra} THEN NoProg ELSE ch[d].recvalt
  BY <2>2, <2>4, <2>5
<2> QED
  BY <2>4, <2>5, <2>6
<1> HIDE DEF t
\* Who waits on c.
<1>6. ASSUME NEW p \in Prog
      PROVE  /\ p \in Gone <=> p = sa \/ p = ra \/ p \in ToSet(ch[c].send) \/ (p \in R /\ state[p] = "recv")
             /\ p \in R /\ p \notin Gone =>
                  Hooked(p) /\ ptr[p] /\ state[p] \in {"release", "exiting"}
<2>1. /\ p = sa \/ p = ra => state[p] = "alt"
      /\ p \in ToSet(ch[c].send) => state[p] = "send"
  BY <1>0, <1>4 DEF Agree, WaitConsistent
<2>2. /\ p \in R => state[p] = "recv" \/ (Hooked(p) /\ ptr[p])
      /\ Hooked(p) => state[p] \in {"release", "exiting"}
<3>1. p \in R => state[p] = "recv" \/ (Hooked(p) /\ ptr[p])
  BY <1>0 DEF Agree, WaitConsistent, Hooked
<3>2. Hooked(p) => state[p] \in {"release", "exiting"}
  BY <1>0 DEF Places, Waiting, Hooked, TypeOK, ProgState
<3> QED
  BY <3>1, <3>2
<2>3. p \in Gone <=> p \in ToSet(all) /\ state[p] \in {"alt", "send", "recv"}
  OBVIOUS
<2> HIDE DEF Gone, R, sa, ra
<2> QED
  BY <1>3, <2>1, <2>2, <2>3
<1>7. Gone \subseteq Prog /\ IsFiniteSet(Gone) /\ R \subseteq Prog /\ Q \subseteq Prog
  BY <1>0, <1>2, FS_Subset, ListEmpty
<1>8. \A p \in Gone : state[p] \in Waiting /\ blk[p] = "no" /\ p \notin ToSet(runq)
  BY <1>0 DEF Places, RunqConsistent, Waiting
<1>9. PICK h \in SetToSeqs(Gone) : runq' = runq \o h
  BY <1>1
<1>10. h \in Seq(Gone) /\ IsInjective(h) /\ ToSet(h) = Gone
  BY <1>7, ListOrder
<1> HIDE DEF Gone, Swi, R
<1>11. /\ runq' \in Seq(Prog) /\ IsInjective(runq') /\ ToSet(runq') = ToSet(runq) \cup Gone
       /\ (runq # <<>> => runq' # <<>> /\ Head(runq') = Head(runq))
<2>1. runq \in Seq(Prog) /\ h \in Seq(Prog) /\ IsInjective(runq) /\ ToSet(runq) \cap ToSet(h) = {}
  BY <1>0, <1>7, <1>8, <1>10 DEF TypeOK, RunqConsistent
<2> QED
  BY ONLY <1>9, <1>10, <2>1, ListConcat
<1>12. \A p \in Prog :
         /\ state'[p] = IF p \in Gone THEN "ready" ELSE state[p]
         /\ blk'[p] = IF p \in Swi /\ blk[p] = "sleep" THEN "intr" ELSE blk[p]
  BY <1>1
<1>13. RunqConsistent'
<2> SUFFICES ASSUME NEW p \in Prog
             PROVE  p \in ToSet(runq') <=>
                      state'[p] = "ready" \/ (state'[p] = "exiting" /\ blk'[p] \in {"no", "in"})
  BY <1>11 DEF RunqConsistent
<2>1. p \in ToSet(runq) <=>
        state[p] = "ready" \/ (state[p] = "exiting" /\ blk[p] \in {"no", "in"})
  BY <1>0 DEF RunqConsistent
<2> QED
  BY <1>11, <1>12, <2>1
<1>14. Places'
<2> SUFFICES ASSUME NEW p \in Prog
             PROVE  /\ state'[p] \in {"none", "broken"} \cup Waiting => blk'[p] = "no"
                    /\ state'[p] = "ready" => blk'[p] \in {"no", "in"}
                    /\ state'[p] = "release" => blk'[p] \in {"sys", "block", "sleep", "woken", "intr", "dying"}
                    /\ state'[p] = "exiting" => blk'[p] \in {"no", "in", "sys", "block", "sleep", "woken", "intr"}
                    /\ blk'[p] = "in" => runq' # <<>> /\ Head(runq') = p
  BY DEF Places, currun
<2>1. /\ state[p] \in {"none", "broken"} \cup Waiting => blk[p] = "no"
      /\ state[p] = "ready" => blk[p] \in {"no", "in"}
      /\ state[p] = "release" => blk[p] \in {"sys", "block", "sleep", "woken", "intr", "dying"}
      /\ state[p] = "exiting" => blk[p] \in {"no", "in", "sys", "block", "sleep", "woken", "intr"}
      /\ blk[p] = "in" => runq # <<>> /\ Head(runq) = p
  BY <1>0 DEF Places, currun
<2>2. p \in Swi => state[p] = "release"
  BY DEF Swi
<2>3. CASE p \in Gone
  BY <1>8, <1>12, <2>3 DEF Waiting
<2>4. CASE p \notin Gone
  BY <1>11, <1>12, <2>1, <2>2, <2>4 DEF Waiting
<2> QED
  BY <2>3, <2>4
<1>15. Threads'
  BY <1>0, <1>1, <1>11, <1>13, <1>14 DEF Threads, TypeOK, ProgState, Where
<1>16. ch' \in Table /\ ch'[c] = cnewc /\ \A d \in Chan : d # c => ch'[d] = t[d]
<2>1. cnewc \in Channel
  BY DEF cnewc, Channel
<2> QED
  BY <1>1, <1>5, <2>1 DEF Table
<1>17. Leaves(ch, ch', Q)
<2> SUFFICES ASSUME NEW d \in Chan
             PROVE  /\ IsInjective(ch'[d].send) /\ ToSet(ch'[d].send) = ToSet(ch[d].send) \ Q
                    /\ IsInjective(ch'[d].recv) /\ ToSet(ch'[d].recv) = ToSet(ch[d].recv) \ Q
                    /\ ch'[d].sendalt = IF ch[d].sendalt \in Q THEN NoProg ELSE ch[d].sendalt
                    /\ ch'[d].recvalt = IF ch[d].recvalt \in Q THEN NoProg ELSE ch[d].recvalt
  BY <1>16 DEF Leaves
<2>1. CASE d = c
<3>1. /\ ch'[d].send = <<>> /\ ch'[d].recv = <<>> /\ ch'[d].sendalt = NoProg /\ ch'[d].recvalt = NoProg
  BY <1>16, <2>1 DEF cnewc
<3>2. ToSet(<<>>) = {} /\ IsInjective(<<>>)
  BY DEF ToSet, IsInjective
<3>3. ToSet(ch[c].send) \subseteq Q
  BY <1>2, <1>6, ListEmpty
<3>4. sa # NoProg => sa \in Q
  BY <1>2, <1>6
<3>5. ra # NoProg => ra \in Q
  BY <1>2, <1>6
<3>6. ToSet(ch[c].recv) \subseteq Q
  BY DEF R
<3> HIDE DEF Q
<3> QED
  BY <2>1, <3>1, <3>2, <3>3, <3>4, <3>5, <3>6
<2>2. CASE d # c
<3>1. /\ ch'[d].send = ch[d].send /\ ch'[d].recv = ch[d].recv
      /\ ch'[d].sendalt = IF ch[d].sendalt \in {sa, ra} THEN NoProg ELSE ch[d].sendalt
      /\ ch'[d].recvalt = IF ch[d].recvalt \in {sa, ra} THEN NoProg ELSE ch[d].recvalt
  BY <1>5, <1>16, <2>2 DEF SameLists
<3>2. IsInjective(ch[d].send) /\ IsInjective(ch[d].recv)
  BY <1>0 DEF Agree, WaitConsistent
<3>3. ASSUME NEW p \in Q PROVE p \notin ToSet(ch[d].send) /\ p \notin ToSet(ch[d].recv)
<4>0. p \in Prog /\ (Hooked(p) => state[p] \notin Waiting)
  BY <1>0, <1>7 DEF Places, Hooked, Waiting
<4>1. CASE p \in R
<5>1. p \notin ToSet(ch[d].recv)
  BY <1>0, <2>2, <4>0, <4>1 DEF R, Agree, OneRecv
<5>2. state[p] # "send"
  BY <1>6, <1>8, <4>0, <4>1 DEF Hooked, R, Agree, WaitConsistent, IInv
<5> QED
  BY <1>0, <4>0, <5>1, <5>2 DEF Agree, WaitConsistent
<4>2. CASE p = sa \/ p = ra
<5>1. state[p] = "alt" /\ ~ Hooked(p)
  BY <1>0, <1>4, <4>0, <4>2 DEF Waiting
<5> QED
  BY <1>0, <4>0, <5>1 DEF Agree, WaitConsistent, Hooked
<4>3. CASE p \in ToSet(ch[c].send)
<5>1. state[p] = "send" /\ chan[p] = c /\ ~ Hooked(p)
  BY <1>0, <4>0, <4>3 DEF Agree, WaitConsistent, Waiting
<5> QED
  BY <1>0, <2>2, <4>0, <5>1 DEF Agree, WaitConsistent, Hooked
<4> QED
  BY <1>6, <4>0, <4>1, <4>2, <4>3
<3>4. ASSUME NEW p \in Prog, p = ch[d].sendalt \/ p = ch[d].recvalt
      PROVE  p \in Q <=> p = sa \/ p = ra
<4>1. state[p] = "alt" /\ ~ Hooked(p)
  BY <1>0, <3>4 DEF Agree, AltMarksExact, Places, Waiting, Hooked
<4>2. p \notin R /\ p \notin ToSet(ch[c].send)
  BY <1>0, <4>1 DEF R, Agree, WaitConsistent, Hooked
<4> QED
  BY <1>6, <4>2
<3>5. ch[d].sendalt \in Prog \cup {NoProg} /\ ch[d].recvalt \in Prog \cup {NoProg} /\ NoProg \notin Q
  BY <1>0, <1>7 DEF Table, Channel
<3> HIDE DEF Q
<3> QED
  BY <3>1, <3>2, <3>3, <3>4, <3>5
<2> QED
  BY <2>1, <2>2
<1>18. \A p \in Prog \ Q : Bystander(p)
<2> TAKE p \in Prog \ Q
<2>1. p \notin Gone /\ p \notin R /\ p \notin Swi
  BY DEF Swi, R
<2>2. /\ state'[p] = state[p] /\ chan'[p] = chan[p] /\ alt'[p] = alt[p] /\ kill'[p] = kill[p]
      /\ ptr'[p] = ptr[p] /\ blk'[p] = blk[p]
  BY <1>1, <2>1
<2> QED
  BY <2>2 DEF Bystander, Hooked
<1>19. \A p \in Q : /\ state'[p] \notin Waiting /\ ~ (Hooked(p)' /\ ptr'[p])
                    /\ blk'[p] = "sleep" => kill'[p] = "no"
<2> TAKE p \in Q
<2>0. p \in Prog
  BY <1>7
<2>1. CASE p \in Gone
<3>1. blk'[p] = "no" /\ state'[p] = "ready"
  BY <1>8, <1>12, <2>0, <2>1
<3> QED
  BY <3>1 DEF Waiting, Hooked
<2>2. CASE p \notin Gone
<3>1. p \in R /\ state[p] \in {"release", "exiting"}
  BY <1>6, <2>0, <2>2
<3>2. ~ ptr'[p] /\ kill'[p] = kill[p]
  BY <1>1, <2>0, <2>2, <3>1 DEF R
<3>3. blk'[p] = "sleep" => blk[p] = "sleep"
  BY <1>12, <2>0
<3>4. blk[p] = "sleep" => kill[p] = "no"
  BY <1>0, <2>0 DEF Agree, WaitConsistent
<3> QED
  BY <1>12, <2>0, <2>2, <3>1, <3>2, <3>3, <3>4 DEF Waiting
<2> QED
  BY <2>1, <2>2
<1>20. ASSUME NEW d \in Chan
       PROVE  /\ ch'[d].sendq # <<>> => ch[d].sendq # <<>>
              /\ d \notin live' => ch'[d] = cnewc
<2>1. CASE d = c
  BY <1>16, <2>1 DEF cnewc
<2>2. CASE d # c
<3>1. ch'[d] = t[d] /\ t[d].sendq = ch[d].sendq /\ t[d].send = ch[d].send /\ t[d].recv = ch[d].recv
  BY <1>5, <1>16, <2>2 DEF SameLists
<3>2. ASSUME d \notin live' PROVE ch'[d] = cnewc
<4>1. ch[d] = cnewc
  BY <1>0, <1>1, <2>2, <3>2 DEF Agree, WaitConsistent
<4>2. t[d].sendalt = NoProg /\ t[d].recvalt = NoProg
  BY <1>5, <4>1 DEF cnewc
<4>3. t[d].send = <<>> /\ t[d].recv = <<>> /\ t[d].sendq = <<>>
  BY <3>1, <4>1 DEF cnewc
<4>4. t[d] \in Channel
  BY <1>5 DEF Table
<4> QED
  BY <3>1, <4>2, <4>3, <4>4 DEF Channel, cnewc
<3> QED
  BY <3>1, <3>2
<2> QED
  BY <2>1, <2>2
<1>21. live' \subseteq Chan
  BY <1>0, <1>1 DEF TypeOK
<1> HIDE DEF Q
<1>22. Agree'
  BY <1>0, <1>7, <1>17, <1>18, <1>19, <1>20, <1>21, LeavesKeep
<1>23. TypeOK'
  BY <1>0, <1>1, <1>15, <1>16, <1>21 DEF TypeOK, Threads, Table, Channel, AltTable, NoAlt
<1>24. Q = WaitsOn(c)
<2>1. \A p \in Prog : p \in Q <=> p = sa \/ p = ra \/ p \in ToSet(ch[c].send) \/ p \in R
  BY <1>6 DEF Q
<2> QED
  BY <1>7, <2>1 DEF WaitsOn, R
<1>25. ASSUME NEW d \in Chan PROVE ch'[d].sendq = IF d = c THEN <<>> ELSE ch[d].sendq
  BY <1>5, <1>16 DEF SameLists, cnewc
<1> QED
  BY <1>1, <1>15, <1>17, <1>22, <1>23, <1>24, <1>25, AbsClose DEF IInv, Threads

(***************************************************************************)
(* The theorems.                                                           *)
(***************************************************************************)

LEMMA InitIInv ==
  ASSUME Init
  PROVE  IInv
<1>1. PICK p \in Prog :
        /\ runq = <<p>> /\ state = [q \in Prog |-> IF q = p THEN "ready" ELSE "none"]
        /\ kill = [q \in Prog |-> "no"] /\ blk = [q \in Prog |-> "no"]
        /\ chan = [q \in Prog |-> NoChan] /\ ptr = [q \in Prog |-> FALSE]
        /\ alt = [q \in Prog |-> NoAlt] /\ live = {}
        /\ ch = [c \in Chan |-> cnewc] /\ moved = NoMsg
  BY DEF Init
<1>2. runq \in Seq(Prog) /\ IsInjective(runq) /\ ToSet(runq) = {p}
  BY <1>1 DEF IsInjective, ToSet
<1>3. \A c \in Chan : /\ ch[c] = cnewc /\ ch[c].send = <<>> /\ ch[c].recv = <<>> /\ ch[c].sendq = <<>>
                      /\ ch[c].sendalt = NoProg /\ ch[c].recvalt = NoProg
  BY <1>1 DEF cnewc
<1>4. ToSet(<<>>) = {} /\ IsInjective(<<>>)
  BY DEF ToSet, IsInjective
<1>5. TypeOK
<2>1. cnewc \in Channel
  BY DEF cnewc, Channel
<2> QED
  BY <1>1, <1>2, <2>1 DEF TypeOK, Channel, ProgState, Where, AltTable, NoAlt
<1>6. RunqConsistent
  BY <1>1, <1>2 DEF RunqConsistent
<1>7. Places
  BY <1>1 DEF Places, Waiting
<1>8. NoMissedMeeting /\ OneRecv
  BY <1>3, <1>4 DEF NoMissedMeeting, OneRecv
<1>9. AltMarksExact
  BY <1>1, <1>3, NilAssumption DEF AltMarksExact
<1>10. WaitConsistent
  BY <1>1, <1>3, <1>4 DEF WaitConsistent
<1> QED
  BY <1>5, <1>6, <1>7, <1>8, <1>9, <1>10 DEF IInv, Agree

\* Every step keeps the invariant, and is a step of ChanAbs.
LEMMA NextIInv ==
  ASSUME IInv, [Next]_vars
  PROVE  IInv' /\ [Abs!Next]_(Abs!vars)
<1>1. ASSUME NEW p \in Prog, raise(p) \/ RaiseKill(p) \/ Reap(p) \/ Rotate(p) \/ release(p)
                             \/ acquire(p) \/ Return(p) \/ cblock(p)
      PROVE  IInv' /\ Abs!Next
  BY <1>1, StepRaise, StepReap, StepRotate, StepRelease, StepAcquire, StepReturn, StepCblock
<1>2. ASSUME NEW p \in Prog, NEW q \in Prog, spawn(p, q) \/ killprog(p, q)
      PROVE  IInv' /\ Abs!Next
  BY <1>2, StepSpawn, StepKill
<1>3. ASSUME NEW p \in Prog, NEW c \in Chan,
             newc(p, c) \/ isend(p, c) \/ irecv(p, c) \/ csendq(p, c) \/ crecv(p, c)
      PROVE  IInv' /\ Abs!Next
  BY <1>3, StepNewc, StepSend, StepRecv, StepCsendq, StepCrecv
<1>4. ASSUME NEW p \in Prog, NEW a \in LiveAlt, xecalt(p, a)
      PROVE  IInv' /\ Abs!Next
  BY <1>4, StepAlt
<1>5. ASSUME NEW c \in Chan, FreeChan(c)
      PROVE  IInv' /\ Abs!Next
  BY <1>5, StepFreeChan
<1>6. ASSUME UNCHANGED vars PROVE IInv'
  BY <1>6 DEF vars, Hooked, IInv, TypeOK, RunqConsistent, currun, Places, Agree, WaitConsistent, OneRecv,
              AltMarksExact, NoMissedMeeting
<1>7. ASSUME UNCHANGED vars PROVE UNCHANGED Abs!vars
  BY <1>7 DEF vars, Abs!vars, Offers
<1> QED
  BY <1>1, <1>2, <1>3, <1>4, <1>5, <1>6, <1>7 DEF Next

LEMMA Inductive == Spec => []IInv
<1>1. Init => IInv
  BY InitIInv
<1>2. IInv /\ [Next]_vars => IInv'
  BY NextIInv
<1> QED
  BY <1>1, <1>2, PTL DEF Spec

\* The variables stay of their types, through every instruction, call and kill of
\* alt.c, xec.c and dis.c.
THEOREM TypeCorrect == Spec => []TypeOK
<1>1. IInv => TypeOK
  BY DEF IInv
<1> QED
  BY <1>1, Inductive, PTL

\* The run queue holds exactly the threads that are ready, or killed themselves and
\* have not left yet, and none of them twice (addrun, delrun, acquire, killprog,
\* killcomm), for any number of threads.
THEOREM RunqAgrees == Spec => []RunqConsistent
<1>1. IInv => RunqConsistent
  BY DEF IInv
<1> QED
  BY <1>1, Inductive, PTL

\* No sender and receiver ever both wait on one channel (isend, irecv, altrdy,
\* csendq, crecv), whatever kills and hangups come between.
THEOREM MeetingsNotMissed == Spec => []NoMissedMeeting
<1>1. IInv => NoMissedMeeting
  BY DEF IInv, Agree
<1> QED
  BY <1>1, Inductive, PTL

\* The wait lists of the channels agree with the states of the threads: what
\* killprog and freechan find in p->state, p->chan and p->ptr is where p waits.
THEOREM WaitsAgree == Spec => []WaitConsistent
<1>1. IInv => WaitConsistent
  BY DEF IInv, Agree
<1> QED
  BY <1>1, Inductive, PTL

\* The alt pointers of the channels are those of the entries of the alts that wait
\* (altmark and altunmark), when no array of channels changes under an alt.
THEOREM AltMarksAreExact == Spec => []AltMarksExact
<1>1. IInv => AltMarksExact
  BY DEF IInv, Agree
<1> QED
  BY <1>1, Inductive, PTL

\* Limbo channels are synchronous channels (isend, irecv, xecalt, csendq, crecv,
\* killprog, freechan): every step moves a message, posts, withdraws or hangs up
\* offers as ChanAbs allows, or changes nothing ChanAbs knows of.
THEOREM ChannelsImplemented == Spec => ImplementsChannels
<1>1. Init => Abs!Init
<2> SUFFICES ASSUME Init PROVE Abs!Init
  OBVIOUS
<2>1. /\ \A c \in Chan : /\ ch[c].send = <<>> /\ ch[c].recv = <<>> /\ ch[c].sendq = <<>>
                         /\ ch[c].sendalt = NoProg /\ ch[c].recvalt = NoProg
      /\ moved = NoMsg
  BY DEF Init, cnewc
<2>2. \A p \in Prog : Sends(ch, p) = {} /\ Recvs(ch, p) = {}
  BY <2>1, NilAssumption DEF Sends, Recvs, ToSet
<2>3. Offers = [p \in Prog |-> {}]
  BY <2>2, OffersArePairs, PairsFacts
<2> QED
  BY <2>1, <2>3 DEF Abs!Init, Abs!NoMsg, NoMsg
<1>2. IInv /\ [Next]_vars => [Abs!Next]_(Abs!vars)
  BY NextIInv
<1> QED
  BY <1>1, <1>2, Inductive, PTL DEF Spec, ImplementsChannels, Abs!Spec

=============================================================================
