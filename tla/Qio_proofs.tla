----------------------------- MODULE Qio_proofs -----------------------------
(***************************************************************************)
(* Proofs about the byte queues of qio.c, for any number of readers,       *)
(* writers and producers, any limit and any sizes of blocks and reads:     *)
(* order, length and end of stream, and that sleepers are woken.           *)
(***************************************************************************)
EXTENDS Qio, TLAPS

(***************************************************************************)
(* Runs of blocks.  Run(s, lo, hi) says that the blocks of s, none empty,  *)
(* hold the bytes after lo up to hi, in order.                             *)
(***************************************************************************)
Run(s, lo, hi) ==
  /\ \A i \in 1..Len(s) : lo < s[i][1] /\ s[i][1] <= s[i][2] /\ s[i][2] <= hi
  /\ \A i, j \in 1..Len(s) : i < j => s[i][2] < s[j][1]
  /\ \A i \in 1..Len(s) : s[i][1] = (IF i = 1 THEN lo ELSE s[i - 1][2]) + 1
  /\ lo <= hi
  /\ hi = IF s = <<>> THEN lo ELSE s[Len(s)][2]

Blocks == Seq(Nat \X Nat)

\* qclose throws the blocks away.
LEMMA RunEmpty == ASSUME NEW n \in Nat PROVE Run(<<>>, n, n) /\ <<>> \in Blocks
  BY DEF Run, Blocks

\* Sequences from their parts.
LEMMA SeqPush ==
  ASSUME NEW S, NEW s \in Seq(S), NEW e \in S
  PROVE  /\ <<e>> \o s \in Seq(S) /\ Len(s) \in Nat /\ Len(<<e>> \o s) = Len(s) + 1
         /\ (<<e>> \o s)[1] = e /\ \A i \in 1..Len(s) : (<<e>> \o s)[i + 1] = s[i]
  OBVIOUS

LEMMA SeqFun ==
  ASSUME NEW S, NEW n \in Nat, NEW f \in [1..n -> S]
  PROVE  f \in Seq(S) /\ Len(f) = n /\ (f = <<>> <=> n = 0)
  OBVIOUS

\* The parts of Run, with the blocks' numbers known to be numbers.
LEMMA RunParts ==
  ASSUME NEW s \in Blocks, NEW lo \in Nat, NEW hi \in Nat, Run(s, lo, hi)
  PROVE  /\ Len(s) \in Nat /\ (s = <<>> <=> Len(s) = 0)
         /\ \A i \in 1..Len(s) : /\ s[i][1] \in Nat /\ s[i][2] \in Nat
                                 /\ lo < s[i][1] /\ s[i][1] <= s[i][2] /\ s[i][2] <= hi
         /\ \A i, j \in 1..Len(s) : i < j => s[i][2] < s[j][1]
         /\ Len(s) > 0 => s[1][1] = lo + 1
         /\ \A i \in 2..Len(s) : s[i][1] = s[i - 1][2] + 1
         /\ lo <= hi
         /\ Len(s) = 0 => hi = lo
         /\ Len(s) > 0 => hi = s[Len(s)][2]
<1>1. Len(s) \in Nat /\ (s = <<>> <=> Len(s) = 0)
  BY DEF Blocks
<1>2. \A i \in 1..Len(s) : s[i][1] \in Nat /\ s[i][2] \in Nat
<2>1. \A i \in 1..Len(s) : s[i] \in Nat \X Nat
  BY DEF Blocks
<2> QED
  BY <2>1
<1>3. Len(s) > 0 => 1 \in 1..Len(s)
  BY <1>1
<1>4. \A i \in 2..Len(s) : i \in 1..Len(s) /\ i # 1
  BY <1>1
<1> QED
  BY <1>1, <1>2, <1>3, <1>4 DEF Run

\* Together they are Run.
LEMMA RunFrom ==
  ASSUME NEW s \in Blocks, NEW lo, NEW hi,
         \A i \in 1..Len(s) : lo < s[i][1] /\ s[i][1] <= s[i][2] /\ s[i][2] <= hi,
         \A i, j \in 1..Len(s) : i < j => s[i][2] < s[j][1],
         Len(s) > 0 => s[1][1] = lo + 1,
         \A i \in 2..Len(s) : s[i][1] = s[i - 1][2] + 1,
         lo <= hi,
         Len(s) = 0 => hi = lo,
         Len(s) > 0 => hi = s[Len(s)][2]
  PROVE  Run(s, lo, hi)
<1>1. Len(s) \in Nat /\ (s = <<>> <=> Len(s) = 0)
  BY DEF Blocks
<1>2. \A i \in 1..Len(s) : i = 1 \/ i \in 2..Len(s)
  BY <1>1
<1>3. \A i \in 1..Len(s) : s[i][1] = (IF i = 1 THEN lo ELSE s[i - 1][2]) + 1
  BY <1>1, <1>2
<1> QED
  BY <1>1, <1>3 DEF Run

\* qbread takes the first block off.
LEMMA RunTail ==
  ASSUME NEW s \in Blocks, s # <<>>, NEW lo \in Nat, NEW hi \in Nat, Run(s, lo, hi)
  PROVE  /\ Head(s) \in Nat \X Nat /\ Tail(s) \in Blocks
         /\ Head(s)[1] = lo + 1 /\ Head(s)[1] <= Head(s)[2] /\ Head(s)[2] <= hi
         /\ Run(Tail(s), Head(s)[2], hi)
<1> DEFINE t == Tail(s)
           n == Len(s)
<1>1. /\ t \in Blocks /\ n \in Nat /\ n > 0 /\ Len(t) = n - 1 /\ Head(s) = s[1]
      /\ Head(s) \in Nat \X Nat
      /\ \A i \in 1..Len(t) : t[i] = s[i + 1]
  BY DEF Blocks
<1>2. /\ \A i \in 1..n : /\ s[i][1] \in Nat /\ s[i][2] \in Nat
                         /\ lo < s[i][1] /\ s[i][1] <= s[i][2] /\ s[i][2] <= hi
      /\ \A i, j \in 1..n : i < j => s[i][2] < s[j][1]
      /\ n > 0 => s[1][1] = lo + 1
      /\ \A i \in 2..n : s[i][1] = s[i - 1][2] + 1
      /\ n > 0 => hi = s[n][2]
  BY RunParts
<1> HIDE DEF t, n
<1>3. \A i \in 1..Len(t) : i + 1 \in 1..n /\ i + 1 \in 2..n /\ 1 < i + 1
  BY <1>1
<1>4. 1 \in 1..n
  BY <1>1
<1>5. Head(s)[1] = lo + 1 /\ Head(s)[1] <= Head(s)[2] /\ Head(s)[2] <= hi /\ Head(s)[2] \in Nat
  BY <1>1, <1>2, <1>4
<1>6. \A i \in 1..Len(t) : Head(s)[2] < t[i][1] /\ t[i][1] <= t[i][2] /\ t[i][2] <= hi
  BY <1>1, <1>2, <1>3, <1>4
<1>7. \A i, j \in 1..Len(t) : i < j => t[i][2] < t[j][1]
<2> SUFFICES ASSUME NEW i \in 1..Len(t), NEW j \in 1..Len(t), i < j PROVE t[i][2] < t[j][1]
  OBVIOUS
<2>1. i + 1 < j + 1
  BY <1>1
<2> QED
  BY <1>1, <1>2, <1>3, <2>1
<1>8. Len(t) > 0 => t[1][1] = Head(s)[2] + 1
<2>1. Len(t) > 0 => 1 \in 1..Len(t) /\ 2 \in 2..n
  BY <1>1
<2>2. Len(t) > 0 => t[1] = s[2] /\ s[2][1] = s[1][2] + 1
  BY <1>1, <1>2, <2>1
<2> QED
  BY <1>1, <2>2
<1>9. \A i \in 2..Len(t) : t[i][1] = t[i - 1][2] + 1
<2> SUFFICES ASSUME NEW i \in 2..Len(t) PROVE t[i][1] = t[i - 1][2] + 1
  OBVIOUS
<2>1. i \in 1..Len(t) /\ i - 1 \in 1..Len(t) /\ i + 1 \in 2..n /\ (i - 1) + 1 = i /\ (i + 1) - 1 = i
  BY <1>1
<2>2. t[i] = s[i + 1] /\ t[i - 1] = s[i] /\ s[i + 1][1] = s[i][2] + 1
  BY <1>1, <1>2, <2>1
<2> QED
  BY <2>2
<1>10. (Len(t) = 0 => hi = Head(s)[2]) /\ (Len(t) > 0 => hi = t[Len(t)][2])
<2>1. CASE Len(t) = 0
  BY <1>1, <1>2, <2>1
<2>2. CASE Len(t) > 0
<3>1. Len(t) \in 1..Len(t) /\ Len(t) + 1 = n
  BY <1>1, <2>2
<3> QED
  BY <1>1, <1>2, <2>2, <3>1
<2>3. Len(t) = 0 \/ Len(t) > 0
  BY <1>1
<2> QED
  BY <2>1, <2>2, <2>3
<1>11. Run(t, Head(s)[2], hi)
  BY <1>1, <1>5, <1>6, <1>7, <1>8, <1>9, <1>10, RunFrom
<1> QED
  BY <1>1, <1>5, <1>11 DEF t

\* qbread puts the rest of a block back in front.
LEMMA RunPush ==
  ASSUME NEW s \in Blocks, NEW b \in Nat \X Nat, NEW lo \in Nat, NEW hi \in Nat,
         Run(s, b[2], hi), b[1] = lo + 1, b[1] <= b[2]
  PROVE  <<b>> \o s \in Blocks /\ Run(<<b>> \o s, lo, hi) /\ lo <= hi
<1> DEFINE t == <<b>> \o s
           n == Len(s)
<1>1. /\ t \in Blocks /\ n \in Nat /\ Len(t) = n + 1 /\ t[1] = b
      /\ \A i \in 1..n : t[i + 1] = s[i]
<2> DEFINE P == Nat \X Nat
<2>1. s \in Seq(P) /\ b \in P
  BY DEF Blocks
<2> HIDE DEF P
<2>2. /\ t \in Seq(P) /\ n \in Nat /\ Len(t) = n + 1 /\ t[1] = b
      /\ \A i \in 1..n : t[i + 1] = s[i]
  BY <2>1, SeqPush
<2> QED
  BY <2>2 DEF Blocks, P
<1>2. b[1] \in Nat /\ b[2] \in Nat
  OBVIOUS
<1>3. /\ \A i \in 1..n : /\ s[i][1] \in Nat /\ s[i][2] \in Nat
                         /\ b[2] < s[i][1] /\ s[i][1] <= s[i][2] /\ s[i][2] <= hi
      /\ \A i, j \in 1..n : i < j => s[i][2] < s[j][1]
      /\ n > 0 => s[1][1] = b[2] + 1
      /\ \A i \in 2..n : s[i][1] = s[i - 1][2] + 1
      /\ b[2] <= hi
      /\ (n = 0 => hi = b[2]) /\ (n > 0 => hi = s[n][2])
  BY <1>2, RunParts
<1> HIDE DEF t, n
<1>4. \A i \in 1..Len(t) : i = 1 \/ (i - 1 \in 1..n /\ t[i] = s[i - 1])
<2> SUFFICES ASSUME NEW i \in 1..Len(t), i # 1 PROVE i - 1 \in 1..n /\ t[i] = s[i - 1]
  OBVIOUS
<2>1. i - 1 \in 1..n /\ (i - 1) + 1 = i
  BY <1>1
<2> QED
  BY <1>1, <2>1
<1>5. \A i \in 1..Len(t) : lo < t[i][1] /\ t[i][1] <= t[i][2] /\ t[i][2] <= hi
<2> SUFFICES ASSUME NEW i \in 1..Len(t)
             PROVE  lo < t[i][1] /\ t[i][1] <= t[i][2] /\ t[i][2] <= hi
  OBVIOUS
<2>1. CASE i = 1
<3>1. lo < b[1] /\ b[2] <= hi
  BY <1>2, <1>3
<3> QED
  BY <1>1, <2>1, <3>1
<2>2. CASE i - 1 \in 1..n /\ t[i] = s[i - 1]
<3> DEFINE c == s[i - 1]
<3>1. c[1] \in Nat /\ c[2] \in Nat /\ b[2] < c[1] /\ c[1] <= c[2] /\ c[2] <= hi
  BY <1>3, <2>2
<3>2. t[i] = c
  BY <2>2
<3> HIDE DEF c
<3>3. lo < c[1]
  BY <1>2, <3>1
<3> QED
  BY <3>1, <3>2, <3>3
<2> QED
  BY <1>4, <2>1, <2>2
<1>6. \A i, j \in 1..Len(t) : i < j => t[i][2] < t[j][1]
<2> SUFFICES ASSUME NEW i \in 1..Len(t), NEW j \in 1..Len(t), i < j PROVE t[i][2] < t[j][1]
  OBVIOUS
<2>1. j # 1 /\ i - 1 < j - 1
  BY <1>1
<2>2. j - 1 \in 1..n /\ t[j] = s[j - 1]
  BY <1>4, <2>1
<2>3. CASE i = 1
  BY <1>1, <1>2, <1>3, <2>2, <2>3
<2>4. CASE i # 1
<3>1. i - 1 \in 1..n /\ t[i] = s[i - 1]
  BY <1>4, <2>4
<3> QED
  BY <1>3, <2>1, <2>2, <3>1
<2> QED
  BY <2>3, <2>4
<1>7. \A i \in 2..Len(t) : t[i][1] = t[i - 1][2] + 1
<2> SUFFICES ASSUME NEW i \in 2..Len(t) PROVE t[i][1] = t[i - 1][2] + 1
  OBVIOUS
<2>1. i \in 1..Len(t) /\ i # 1 /\ i - 1 \in 1..Len(t) /\ i \in Nat
  BY <1>1
<2>2. i - 1 \in 1..n /\ t[i] = s[i - 1]
  BY <1>4, <2>1
<2>3. CASE i = 2
<3>1. n > 0 /\ i - 1 = 1
  BY <1>1, <2>2, <2>3
<3> QED
  BY <1>1, <1>3, <2>2, <3>1
<2>4. CASE i # 2
<3>1. i - 1 # 1 /\ i - 1 \in 2..n
  BY <1>1, <2>1, <2>2, <2>4
<3>2. t[i - 1] = s[(i - 1) - 1]
  BY <1>4, <2>1, <3>1
<3>3. s[i - 1][1] = s[(i - 1) - 1][2] + 1
  BY <1>3, <3>1
<3> QED
  BY <2>2, <3>2, <3>3
<2> QED
  BY <2>3, <2>4
<1>8. Len(t) > 0 /\ hi = t[Len(t)][2]
<2>1. Len(t) \in 1..Len(t) /\ Len(t) - 1 = n
  BY <1>1
<2>2. CASE n = 0
  BY <1>1, <1>3, <2>2
<2>3. CASE n # 0
<3>1. n > 0 /\ Len(t) # 1
  BY <1>1, <2>3
<3> QED
  BY <1>3, <1>4, <2>1, <3>1
<2>4. Len(t) > 0
  BY <1>1
<2> QED
  BY <2>2, <2>3, <2>4
<1>9. lo <= hi
  BY <1>2, <1>3
<1>10. t[1][1] = lo + 1 /\ Len(t) # 0
  BY <1>1
<1>11. Run(t, lo, hi)
  BY <1>1, <1>5, <1>6, <1>7, <1>8, <1>9, <1>10, RunFrom
<1> QED
  BY <1>1, <1>9, <1>11 DEF t

\* A writer links a block of the next n bytes in.
LEMMA RunAppend ==
  ASSUME NEW s \in Blocks, NEW lo \in Nat, NEW hi \in Nat, NEW k \in Nat \ {0}, Run(s, lo, hi)
  PROVE  /\ Append(s, <<hi + 1, hi + k>>) \in Blocks
         /\ Run(Append(s, <<hi + 1, hi + k>>), lo, hi + k)
<1> DEFINE b == <<hi + 1, hi + k>>
           t == Append(s, b)
           n == Len(s)
<1>1. b \in Nat \X Nat /\ b[1] = hi + 1 /\ b[2] = hi + k
  OBVIOUS
<1> HIDE DEF b
<1>2. /\ t \in Blocks /\ n \in Nat /\ Len(t) = n + 1 /\ t[n + 1] = b
      /\ \A i \in 1..n : t[i] = s[i]
  BY <1>1 DEF Blocks
<1>3. /\ \A i \in 1..n : /\ s[i][1] \in Nat /\ s[i][2] \in Nat
                         /\ lo < s[i][1] /\ s[i][1] <= s[i][2] /\ s[i][2] <= hi
      /\ \A i, j \in 1..n : i < j => s[i][2] < s[j][1]
      /\ n > 0 => s[1][1] = lo + 1
      /\ \A i \in 2..n : s[i][1] = s[i - 1][2] + 1
      /\ lo <= hi
      /\ (n = 0 => hi = lo) /\ (n > 0 => hi = s[n][2])
  BY RunParts
<1> HIDE DEF t, n
<1>4. \A i \in 1..Len(t) : i = n + 1 \/ (i \in 1..n /\ t[i] = s[i])
  BY <1>2
<1>5. \A i \in 1..Len(t) : lo < t[i][1] /\ t[i][1] <= t[i][2] /\ t[i][2] <= hi + k
<2> SUFFICES ASSUME NEW i \in 1..Len(t)
             PROVE  lo < t[i][1] /\ t[i][1] <= t[i][2] /\ t[i][2] <= hi + k
  OBVIOUS
<2>1. CASE i = n + 1
<3>1. lo < hi + 1 /\ hi + 1 <= hi + k
  BY <1>3
<3> QED
  BY <1>1, <1>2, <2>1, <3>1
<2>2. CASE i \in 1..n /\ t[i] = s[i]
<3> DEFINE c == s[i]
<3>1. c[1] \in Nat /\ c[2] \in Nat /\ lo < c[1] /\ c[1] <= c[2] /\ c[2] <= hi /\ t[i] = c
  BY <1>3, <2>2
<3> HIDE DEF c
<3>2. c[2] <= hi + k
  BY <3>1
<3> QED
  BY <3>1, <3>2
<2> QED
  BY <1>4, <2>1, <2>2
<1>6. \A i, j \in 1..Len(t) : i < j => t[i][2] < t[j][1]
<2> SUFFICES ASSUME NEW i \in 1..Len(t), NEW j \in 1..Len(t), i < j PROVE t[i][2] < t[j][1]
  OBVIOUS
<2>1. i \in 1..n /\ t[i] = s[i]
  BY <1>2, <1>4
<2>2. CASE j = n + 1
  BY <1>1, <1>2, <1>3, <2>1, <2>2
<2>3. CASE j \in 1..n /\ t[j] = s[j]
  BY <1>3, <2>1, <2>3
<2> QED
  BY <1>4, <2>2, <2>3
<1>7. \A i \in 2..Len(t) : t[i][1] = t[i - 1][2] + 1
<2> SUFFICES ASSUME NEW i \in 2..Len(t) PROVE t[i][1] = t[i - 1][2] + 1
  OBVIOUS
<2>1. i - 1 \in 1..n /\ t[i - 1] = s[i - 1] /\ n > 0
  BY <1>2
<2>2. CASE i = n + 1
<3>1. i - 1 = n
  BY <1>2, <2>2
<3> QED
  BY <1>1, <1>2, <1>3, <2>1, <2>2, <3>1
<2>3. CASE i # n + 1
<3>1. i \in 2..n /\ t[i] = s[i]
  BY <1>2, <2>3
<3> QED
  BY <1>3, <2>1, <3>1
<2> QED
  BY <2>2, <2>3
<1>8. t[1][1] = lo + 1
<2>1. CASE n = 0
  BY <1>1, <1>2, <1>3, <2>1
<2>2. CASE n # 0
<3>1. 1 \in 1..n /\ n > 0
  BY <1>2, <2>2
<3> QED
  BY <1>2, <1>3, <3>1
<2> QED
  BY <2>1, <2>2
<1>9. Len(t) > 0 /\ Len(t) # 0 /\ lo <= hi + k /\ hi + k = t[Len(t)][2]
  BY <1>1, <1>2, <1>3
<1>10. Run(t, lo, hi + k)
  BY <1>2, <1>5, <1>6, <1>7, <1>8, <1>9, RunFrom
<1> QED
  BY <1>2, <1>10 DEF t, b

\* qreopen: the numbering starts again with what is left.
LEMMA RunShift ==
  ASSUME NEW s \in Blocks, NEW lo \in Nat, NEW hi \in Nat, Run(s, lo, hi)
  PROVE  LET t == [i \in 1..Len(s) |-> <<s[i][1] - lo, s[i][2] - lo>>]
         IN  t \in Blocks /\ Run(t, 0, hi - lo) /\ hi - lo \in Nat /\ (t = <<>> <=> s = <<>>)
<1> DEFINE n == Len(s)
           f(i) == <<s[i][1] - lo, s[i][2] - lo>>
           t == [i \in 1..Len(s) |-> f(i)]
<1>1. /\ n \in Nat /\ (s = <<>> <=> n = 0)
      /\ \A i \in 1..n : /\ s[i][1] \in Nat /\ s[i][2] \in Nat
                         /\ lo < s[i][1] /\ s[i][1] <= s[i][2] /\ s[i][2] <= hi
      /\ \A i, j \in 1..n : i < j => s[i][2] < s[j][1]
      /\ n > 0 => s[1][1] = lo + 1
      /\ \A i \in 2..n : s[i][1] = s[i - 1][2] + 1
      /\ lo <= hi
      /\ (n = 0 => hi = lo) /\ (n > 0 => hi = s[n][2])
  BY RunParts
<1>2. \A i \in 1..n : f(i) \in Nat \X Nat /\ f(i)[1] = s[i][1] - lo /\ f(i)[2] = s[i][2] - lo
  BY <1>1, SMTT(20)
<1> HIDE DEF f
<1>3. t \in Blocks /\ Len(t) = n /\ (t = <<>> <=> n = 0)
<2> DEFINE P == Nat \X Nat
<2>1. t \in [1..n -> P]
  BY <1>2
<2> HIDE DEF P, t, n
<2>2. t \in Seq(P) /\ Len(t) = n /\ (t = <<>> <=> n = 0)
  BY <1>1, <2>1, SeqFun, SMTT(20)
<2> QED
  BY <2>2 DEF Blocks, P
<1>4. \A i \in 1..n : t[i][1] = s[i][1] - lo /\ t[i][2] = s[i][2] - lo
  BY <1>2
<1>5. hi - lo \in Nat /\ (t = <<>> <=> s = <<>>)
  BY <1>1, <1>3
<1> HIDE DEF t, n
<1>6. \A i \in 1..Len(t) : 0 < t[i][1] /\ t[i][1] <= t[i][2] /\ t[i][2] <= hi - lo
<2> SUFFICES ASSUME NEW i \in 1..n
             PROVE  0 < t[i][1] /\ t[i][1] <= t[i][2] /\ t[i][2] <= hi - lo
  BY <1>3
<2> DEFINE x == s[i][1]
           y == s[i][2]
<2>1. x \in Nat /\ y \in Nat /\ lo < x /\ x <= y /\ y <= hi
  BY <1>1
<2>2. t[i][1] = x - lo /\ t[i][2] = y - lo
  BY <1>4
<2> HIDE DEF x, y
<2> QED
  BY <2>1, <2>2
<1>7. \A i, j \in 1..Len(t) : i < j => t[i][2] < t[j][1]
<2> SUFFICES ASSUME NEW i \in 1..n, NEW j \in 1..n, i < j PROVE t[i][2] < t[j][1]
  BY <1>3
<2> DEFINE x == s[j][1]
           y == s[i][2]
<2>1. x \in Nat /\ y \in Nat /\ y < x
  BY <1>1
<2>2. t[j][1] = x - lo /\ t[i][2] = y - lo
  BY <1>4
<2> HIDE DEF x, y
<2> QED
  BY <2>1, <2>2
<1>8. Len(t) > 0 => t[1][1] = 0 + 1
<2>1. Len(t) > 0 => 1 \in 1..n
  BY <1>1, <1>3
<2> QED
  BY <1>1, <1>3, <1>4, <2>1
<1>9. \A i \in 2..Len(t) : t[i][1] = t[i - 1][2] + 1
<2> SUFFICES ASSUME NEW i \in 2..Len(t) PROVE t[i][1] = t[i - 1][2] + 1
  OBVIOUS
<2>1. i \in 1..n /\ i - 1 \in 1..n /\ i \in 2..n
  BY <1>1, <1>3
<2> DEFINE x == s[i][1]
           y == s[i - 1][2]
<2>2. x \in Nat /\ y \in Nat /\ x = y + 1
  BY <1>1, <2>1
<2>3. t[i][1] = x - lo /\ t[i - 1][2] = y - lo
  BY <1>4, <2>1
<2> HIDE DEF x, y
<2> QED
  BY <2>2, <2>3
<1>10. (Len(t) = 0 => hi - lo = 0) /\ (Len(t) > 0 => hi - lo = t[Len(t)][2])
<2>1. n > 0 => n \in 1..n
  BY <1>1
<2> QED
  BY <1>1, <1>3, <1>4, <2>1
<1>11. 0 <= hi - lo
  BY <1>5
<1>12. Run(t, 0, hi - lo)
  BY <1>3, <1>6, <1>7, <1>8, <1>9, <1>10, <1>11, RunFrom
<1> QED
  BY <1>3, <1>5, <1>12 DEF t, f

(***************************************************************************)
(* The inductive invariant.                                                *)
(***************************************************************************)

\* A device's queue has no writers that block and is never closed.
Kinds ==
  kind = "device" =>
    /\ wown = NoProc /\ wr = NoProc /\ cpc = "idle" /\ "r" \in open /\ "closed" \notin state
    /\ \A w \in Writer \cup Dev : wpc[w] \in {"idle", "wake"}

\* Between qlock and qunlock a reader is the only one past its lock, and the only one
\* to have split a block or to sleep on q->rr; it asked for a byte at least.
RHold ==
  /\ \A r \in Reader : rown = r <=> rpc[r] \in {"top", "sleep", "asleep", "split", "wake"}
  /\ \A r \in Reader : rr = r <=> rpc[r] = "asleep"
  /\ \A r \in Reader : rpc[r] = "split" <=> part # None /\ rown = r
  /\ part # None => rown # NoProc
  /\ \A r \in Reader : rpc[r] = "wake" => dow = 1
  /\ \A r \in Reader : rpc[r] # "idle" => want[r] \in Want

\* Likewise for a pipe's writers; one that sets Qflow has found the queue open.
WHold ==
  kind = "pipe" =>
    /\ \A w \in Writer :
         wown = w <=> wpc[w] \in {"test", "store", "sleep", "asleep", "put", "wake"}
    /\ \A w \in Writer : wr = w <=> wpc[w] = "asleep"
    /\ \A w \in Writer : wpc[w] # "idle" => size[w] \in Size
    /\ \A w \in Writer : wpc[w] = "store" => "closed" \notin loc

\* Nobody is at an end that is closed.
Ends ==
  /\ "r" \notin open => \A r \in Reader : rpc[r] = "idle"
  /\ kind = "pipe" /\ "w" \notin open => \A w \in Writer : wpc[w] = "idle"
  /\ cpc = "reopen" => open = {}

\* The last byte before the queue: read, or split off.
start == IF part = None THEN nout ELSE part[2]

\* The types of what the stream is made of.
Numbers ==
  /\ blocks \in Blocks /\ qlen \in Nat /\ nin \in Nat /\ nout \in Nat
  /\ part \in (Nat \X Nat) \cup {None}

\* The stream is in order.
Order ==
  /\ Run(blocks, start, nin) /\ qlen = nin - start
  /\ part # None => part[1] = nout + 1 /\ part[1] <= part[2]

\* The stream ends after its last byte, or the closing has been undone.
Eof ==
  \A r \in Reader : rpc[r] = "eof" =>
    (blocks = <<>> /\ part = None /\ "closed" \in state) \/ "closed" \in lost

\* A reader in Sleep has its flag set, if it is not lost, until there is something to
\* read; then somebody is on the way to wake it.
RSleep ==
  "starve" \notin lost =>
    \A r \in Reader :
      /\ rpc[r] \in {"sleep", "asleep"} /\ blocks = <<>> => "starve" \in state
      /\ rpc[r] = "asleep" /\ notempty =>
           cpc = "wakerr" \/ \E w \in Writer \cup Dev : wpc[w] = "wake"

IInv == TypeOK /\ Kinds /\ RHold /\ WHold /\ Ends /\ Order /\ Eof /\ RSleep

(***************************************************************************)
(* What flow control needs besides.                                        *)
(***************************************************************************)

\* A reader is on its way to Wakeup(&q->wr).
Waking == \E r \in Reader : rpc[r] \in {"split", "wake"} /\ dow = 1

\* A writer that goes to sleep has its flag set, or will find the queue not full, even
\* with what is split off put back, or has lost the flag, or is to lose it; once asleep
\* its flag is set until somebody is on the way to wake it.
WSleep ==
  "flow" \notin lost =>
    \A w \in Writer :
      /\ wpc[w] = "sleep" =>
           \/ "flow" \in state \/ "closed" \in state \/ nin - nout < Limit
           \/ part # None /\ dow = 1
      /\ wpc[w] = "asleep" =>
           \/ Waking \/ cpc \in {"wakerr", "wakewr"}
           \/ "flow" \in state /\ "closed" \notin state /\ qlen >= Limit \div 2

-----------------------------------------------------------------------------
\* Only a pipe's queue is closed and has writers.
LEMMA KindsStep == IInv /\ [Next]_vars => Kinds'
<1> SUFFICES ASSUME IInv, [Next]_vars PROVE Kinds'
  OBVIOUS
<1> USE QioAssumption DEF IInv, TypeOK, qvars, rvars, wvars, cvars, None, Kinds
<1>1. CASE UNCHANGED vars
  BY <1>1 DEF vars
<1>2. ASSUME NEW r \in Reader, ReadLock(r), UNCHANGED kind PROVE Kinds'
  BY <1>2 DEF ReadLock, RGoto
<1>3. ASSUME NEW r \in Reader, ReadTake(r), UNCHANGED kind PROVE Kinds'
  BY <1>3 DEF ReadTake, RGoto, RReturn, BLEN, Restart
<1>4. ASSUME NEW r \in Reader, ReadSplit(r), UNCHANGED kind PROVE Kinds'
  BY <1>4 DEF ReadSplit, RGoto, RReturn, BLEN
<1>5. ASSUME NEW r \in Reader, ReadWake(r), UNCHANGED kind PROVE Kinds'
  BY <1>5 DEF ReadWake, RGoto, RReturn, WakeWriter
<1>6. ASSUME NEW r \in Reader, ReadEmpty(r), UNCHANGED kind PROVE Kinds'
  BY <1>6 DEF ReadEmpty, RGoto
<1>7. ASSUME NEW r \in Reader, ReadEof(r), UNCHANGED kind PROVE Kinds'
  BY <1>7 DEF ReadEof, RGoto
<1>8. ASSUME NEW r \in Reader, ReadSleep(r), UNCHANGED kind PROVE Kinds'
  BY <1>8 DEF ReadSleep, RGoto, notempty
<1>9. ASSUME NEW r \in Reader, ReadIntr(r), UNCHANGED kind PROVE Kinds'
  BY <1>9 DEF ReadIntr, RGoto, RReturn
<1>10. ASSUME NEW r \in Reader, NEW n \in Want, qbread(r, n), UNCHANGED kind PROVE Kinds'
  BY <1>10 DEF qbread, RGoto
<1>11. ASSUME NEW w \in Writer, WriteLock(w), kind = "pipe", UNCHANGED kind PROVE Kinds'
  BY <1>11 DEF WriteLock, WGoto
<1>12. ASSUME NEW w \in Writer, WriteTest(w), kind = "pipe", UNCHANGED kind PROVE Kinds'
  BY <1>12 DEF WriteTest, WGoto, qnotfull
<1>13. ASSUME NEW w \in Writer, WriteFlow(w), kind = "pipe", UNCHANGED kind PROVE Kinds'
  BY <1>13 DEF WriteFlow, WGoto
<1>14. ASSUME NEW w \in Writer, WriteSleep(w), kind = "pipe", UNCHANGED kind PROVE Kinds'
  BY <1>14 DEF WriteSleep, WGoto, qnotfull
<1>15. ASSUME NEW w \in Writer, WriteIntr(w), kind = "pipe", UNCHANGED kind PROVE Kinds'
  BY <1>15 DEF WriteIntr, WReturn, WGoto
<1>16. ASSUME NEW w \in Writer, WritePut(w), kind = "pipe", UNCHANGED kind PROVE Kinds'
  BY <1>16 DEF WritePut, WReturn, WGoto, Put, Starved
<1>17. ASSUME NEW w \in Writer, WriteWake(w), kind = "pipe", UNCHANGED kind PROVE Kinds'
  BY <1>17 DEF WriteWake, WakeReader, WReturn, WGoto
<1>18. ASSUME NEW w \in Writer, NEW n \in Size, qbwrite(w, n), kind = "pipe", UNCHANGED kind
       PROVE  Kinds'
  BY <1>18 DEF qbwrite, WGoto
<1>19. ASSUME NEW e \in {"r", "w"}, pipeopen(e), kind = "pipe", UNCHANGED kind PROVE Kinds'
  BY <1>19 DEF pipeopen
<1>20. ASSUME CloseRead, kind = "pipe", UNCHANGED kind PROVE Kinds'
  BY <1>20 DEF CloseRead
<1>21. ASSUME CloseWrite, kind = "pipe", UNCHANGED kind PROVE Kinds'
  BY <1>21 DEF CloseWrite
<1>22. ASSUME CloseWakeReader, kind = "pipe", UNCHANGED kind PROVE Kinds'
  BY <1>22 DEF CloseWakeReader, WakeReader
<1>23. ASSUME CloseWakeWriter, kind = "pipe", UNCHANGED kind PROVE Kinds'
  BY <1>23 DEF CloseWakeWriter, WakeWriter
<1>24. ASSUME qreopen, kind = "pipe", UNCHANGED kind PROVE Kinds'
  BY <1>24 DEF qreopen
<1>25. ASSUME NEW d \in Dev, ProduceWake(d), kind = "device", UNCHANGED kind PROVE Kinds'
  BY <1>25 DEF ProduceWake, WakeReader, WGoto
<1>26. ASSUME NEW d \in Dev, NEW n \in Size, qproduce(d, n), kind = "device", UNCHANGED kind
       PROVE  Kinds'
<2>1. "closed" \notin state'
  BY <1>26 DEF qproduce, Put
<2>2. \A w \in Writer \cup Dev : wpc'[w] \in {"idle", "wake"}
  BY <1>26 DEF qproduce, WGoto
<2> QED
  BY <1>26, <2>1, <2>2 DEF qproduce
<1>27. ASSUME NEW d \in Dev, NEW n \in Size, qiwrite(d, n), kind = "device", UNCHANGED kind
       PROVE  Kinds'
  BY <1>27 DEF qiwrite, Put, Starved, WGoto
<1> QED
  BY <1>1, <1>2, <1>3, <1>4, <1>5, <1>6, <1>7, <1>8, <1>9, <1>10, <1>11, <1>12, <1>13,
     <1>14, <1>15, <1>16, <1>17, <1>18, <1>19, <1>20, <1>21, <1>22, <1>23, <1>24, <1>25,
     <1>26, <1>27
     DEF Next, Readers, Reading, PipeNext, Writing, Closing, DevNext

\* A reader changes rlock, rr and what is split off only while it holds rlock.
LEMMA RHoldStep == IInv /\ [Next]_vars => RHold'
<1> SUFFICES ASSUME IInv, [Next]_vars PROVE RHold'
  OBVIOUS
<1> USE QioAssumption DEF IInv, TypeOK, qvars, rvars, wvars, cvars, None, RHold
<1>1. CASE UNCHANGED vars
  BY <1>1 DEF vars
<1>2. ASSUME NEW r \in Reader, ReadLock(r), UNCHANGED kind PROVE RHold'
  BY <1>2 DEF ReadLock, RGoto
<1>3. ASSUME NEW r \in Reader, ReadTake(r), UNCHANGED kind PROVE RHold'
<2>1. rpc'[r] = "split" <=> part' # None
  BY <1>3 DEF ReadTake, RGoto
<2>2. rpc' = [rpc EXCEPT ![r] = rpc'[r]] /\ rpc'[r] \in {"split", "wake", "idle"}
  BY <1>3 DEF ReadTake, RGoto
<2>3. IF rpc'[r] = "idle" THEN rown' = NoProc /\ want' = [want EXCEPT ![r] = 0] ELSE rown' = rown /\ want' = want
  BY <1>3 DEF ReadTake, RGoto, RReturn
<2>4. rr' = rr /\ rpc[r] = "top" /\ (rpc'[r] = "wake" => dow' = 1)
  BY <1>3 DEF ReadTake, RGoto
<2> QED
  BY <2>1, <2>2, <2>3, <2>4
<1>4. ASSUME NEW r \in Reader, ReadSplit(r), UNCHANGED kind PROVE RHold'
<2>1. part' = None /\ rr' = rr /\ dow' = dow /\ rpc[r] = "split"
  BY <1>4 DEF ReadSplit
<2>2. \/ dow = 1 /\ rpc' = [rpc EXCEPT ![r] = "wake"] /\ rown' = rown /\ want' = want
      \/ rpc' = [rpc EXCEPT ![r] = "idle"] /\ rown' = NoProc /\ want' = [want EXCEPT ![r] = 0]
  BY <1>4 DEF ReadSplit, RGoto, RReturn
<2>3. CASE dow = 1 /\ rpc' = [rpc EXCEPT ![r] = "wake"] /\ rown' = rown /\ want' = want
  BY <2>1, <2>3
<2>4. CASE rpc' = [rpc EXCEPT ![r] = "idle"] /\ rown' = NoProc /\ want' = [want EXCEPT ![r] = 0]
  BY <2>1, <2>4
<2> QED
  BY <2>2, <2>3, <2>4
<1>5. ASSUME NEW r \in Reader, ReadWake(r), UNCHANGED kind PROVE RHold'
  BY <1>5 DEF ReadWake, RGoto, RReturn, WakeWriter
<1>6. ASSUME NEW r \in Reader, ReadEmpty(r), UNCHANGED kind PROVE RHold'
  BY <1>6 DEF ReadEmpty, RGoto
<1>7. ASSUME NEW r \in Reader, ReadEof(r), UNCHANGED kind PROVE RHold'
  BY <1>7 DEF ReadEof, RGoto
<1>8. ASSUME NEW r \in Reader, ReadSleep(r), UNCHANGED kind PROVE RHold'
  BY <1>8 DEF ReadSleep, RGoto, notempty
<1>9. ASSUME NEW r \in Reader, ReadIntr(r), UNCHANGED kind PROVE RHold'
  BY <1>9 DEF ReadIntr, RGoto, RReturn
<1>10. ASSUME NEW r \in Reader, NEW n \in Want, qbread(r, n), UNCHANGED kind PROVE RHold'
  BY <1>10 DEF qbread, RGoto
<1>11. ASSUME NEW w \in Writer, WriteLock(w), kind = "pipe", UNCHANGED kind PROVE RHold'
  BY <1>11 DEF WriteLock, WGoto
<1>12. ASSUME NEW w \in Writer, WriteTest(w), kind = "pipe", UNCHANGED kind PROVE RHold'
  BY <1>12 DEF WriteTest, WGoto, qnotfull
<1>13. ASSUME NEW w \in Writer, WriteFlow(w), kind = "pipe", UNCHANGED kind PROVE RHold'
  BY <1>13 DEF WriteFlow, WGoto
<1>14. ASSUME NEW w \in Writer, WriteSleep(w), kind = "pipe", UNCHANGED kind PROVE RHold'
  BY <1>14 DEF WriteSleep, WGoto, qnotfull
<1>15. ASSUME NEW w \in Writer, WriteIntr(w), kind = "pipe", UNCHANGED kind PROVE RHold'
  BY <1>15 DEF WriteIntr, WReturn, WGoto
<1>16. ASSUME NEW w \in Writer, WritePut(w), kind = "pipe", UNCHANGED kind PROVE RHold'
  BY <1>16 DEF WritePut, WReturn, WGoto, Put, Starved
<1>17. ASSUME NEW w \in Writer, WriteWake(w), kind = "pipe", UNCHANGED kind PROVE RHold'
  BY <1>17 DEF WriteWake, WakeReader, WReturn, WGoto
<1>18. ASSUME NEW w \in Writer, NEW n \in Size, qbwrite(w, n), kind = "pipe", UNCHANGED kind
       PROVE  RHold'
  BY <1>18 DEF qbwrite, WGoto
<1>19. ASSUME NEW e \in {"r", "w"}, pipeopen(e), kind = "pipe", UNCHANGED kind PROVE RHold'
  BY <1>19 DEF pipeopen
<1>20. ASSUME CloseRead, kind = "pipe", UNCHANGED kind PROVE RHold'
  BY <1>20 DEF CloseRead
<1>21. ASSUME CloseWrite, kind = "pipe", UNCHANGED kind PROVE RHold'
  BY <1>21 DEF CloseWrite
<1>22. ASSUME CloseWakeReader, kind = "pipe", UNCHANGED kind PROVE RHold'
  BY <1>22 DEF CloseWakeReader, WakeReader
<1>23. ASSUME CloseWakeWriter, kind = "pipe", UNCHANGED kind PROVE RHold'
  BY <1>23 DEF CloseWakeWriter, WakeWriter
<1>24. ASSUME qreopen, kind = "pipe", UNCHANGED kind PROVE RHold'
  BY <1>24 DEF qreopen
<1>25. ASSUME NEW d \in Dev, ProduceWake(d), kind = "device", UNCHANGED kind PROVE RHold'
  BY <1>25 DEF ProduceWake, WakeReader, WGoto
<1>26. ASSUME NEW d \in Dev, NEW n \in Size, qproduce(d, n), kind = "device", UNCHANGED kind
       PROVE  RHold'
  BY <1>26 DEF qproduce, Put, Starved, WGoto
<1>27. ASSUME NEW d \in Dev, NEW n \in Size, qiwrite(d, n), kind = "device", UNCHANGED kind
       PROVE  RHold'
  BY <1>27 DEF qiwrite, Put, Starved, WGoto
<1> QED
  BY <1>1, <1>2, <1>3, <1>4, <1>5, <1>6, <1>7, <1>8, <1>9, <1>10, <1>11, <1>12, <1>13,
     <1>14, <1>15, <1>16, <1>17, <1>18, <1>19, <1>20, <1>21, <1>22, <1>23, <1>24, <1>25,
     <1>26, <1>27
     DEF Next, Readers, Reading, PipeNext, Writing, Closing, DevNext

\* A writer changes wlock and wr only while it holds wlock.
LEMMA WHoldStep == IInv /\ [Next]_vars => WHold'
<1> SUFFICES ASSUME IInv, [Next]_vars PROVE WHold'
  OBVIOUS
<1> USE QioAssumption DEF IInv, TypeOK, qvars, rvars, wvars, cvars, None, WHold
<1>1. CASE UNCHANGED vars
  BY <1>1 DEF vars
<1>2. ASSUME NEW r \in Reader, ReadLock(r), UNCHANGED kind PROVE WHold'
  BY <1>2 DEF ReadLock, RGoto
<1>3. ASSUME NEW r \in Reader, ReadTake(r), UNCHANGED kind PROVE WHold'
  BY <1>3 DEF ReadTake, RGoto, RReturn, BLEN, Restart
<1>4. ASSUME NEW r \in Reader, ReadSplit(r), UNCHANGED kind PROVE WHold'
  BY <1>4 DEF ReadSplit, RGoto, RReturn, BLEN
<1>5. ASSUME NEW r \in Reader, ReadWake(r), UNCHANGED kind PROVE WHold'
  BY <1>5 DEF ReadWake, RGoto, RReturn, WakeWriter
<1>6. ASSUME NEW r \in Reader, ReadEmpty(r), UNCHANGED kind PROVE WHold'
  BY <1>6 DEF ReadEmpty, RGoto
<1>7. ASSUME NEW r \in Reader, ReadEof(r), UNCHANGED kind PROVE WHold'
  BY <1>7 DEF ReadEof, RGoto
<1>8. ASSUME NEW r \in Reader, ReadSleep(r), UNCHANGED kind PROVE WHold'
  BY <1>8 DEF ReadSleep, RGoto, notempty
<1>9. ASSUME NEW r \in Reader, ReadIntr(r), UNCHANGED kind PROVE WHold'
  BY <1>9 DEF ReadIntr, RGoto, RReturn
<1>10. ASSUME NEW r \in Reader, NEW n \in Want, qbread(r, n), UNCHANGED kind PROVE WHold'
  BY <1>10 DEF qbread, RGoto
<1>11. ASSUME NEW w \in Writer, WriteLock(w), kind = "pipe", UNCHANGED kind PROVE WHold'
  BY <1>11 DEF WriteLock, WGoto
<1>12. ASSUME NEW w \in Writer, WriteTest(w), kind = "pipe", UNCHANGED kind PROVE WHold'
  BY <1>12 DEF WriteTest, WGoto, qnotfull
<1>13. ASSUME NEW w \in Writer, WriteFlow(w), kind = "pipe", UNCHANGED kind PROVE WHold'
  BY <1>13 DEF WriteFlow, WGoto
<1>14. ASSUME NEW w \in Writer, WriteSleep(w), kind = "pipe", UNCHANGED kind PROVE WHold'
  BY <1>14 DEF WriteSleep, WGoto, qnotfull
<1>15. ASSUME NEW w \in Writer, WriteIntr(w), kind = "pipe", UNCHANGED kind PROVE WHold'
  BY <1>15 DEF WriteIntr, WReturn, WGoto
<1>16. ASSUME NEW w \in Writer, WritePut(w), kind = "pipe", UNCHANGED kind PROVE WHold'
<2>1. wr' = wr /\ wpc[w] = "put"
  BY <1>16 DEF WritePut
<2>2. \/ wpc' = [wpc EXCEPT ![w] = "wake"] /\ wown' = wown /\ size' = size
      \/ wpc' = [wpc EXCEPT ![w] = "idle"] /\ wown' = NoProc /\ size' = [size EXCEPT ![w] = 0]
  BY <1>16 DEF WritePut, WReturn, WGoto
<2>3. CASE wpc' = [wpc EXCEPT ![w] = "wake"] /\ wown' = wown /\ size' = size
  BY <1>16, <2>1, <2>3
<2>4. CASE wpc' = [wpc EXCEPT ![w] = "idle"] /\ wown' = NoProc /\ size' = [size EXCEPT ![w] = 0]
  BY <1>16, <2>1, <2>4
<2> QED
  BY <2>2, <2>3, <2>4
<1>17. ASSUME NEW w \in Writer, WriteWake(w), kind = "pipe", UNCHANGED kind PROVE WHold'
  BY <1>17 DEF WriteWake, WakeReader, WReturn, WGoto
<1>18. ASSUME NEW w \in Writer, NEW n \in Size, qbwrite(w, n), kind = "pipe", UNCHANGED kind
       PROVE  WHold'
  BY <1>18 DEF qbwrite, WGoto
<1>19. ASSUME NEW e \in {"r", "w"}, pipeopen(e), kind = "pipe", UNCHANGED kind PROVE WHold'
  BY <1>19 DEF pipeopen
<1>20. ASSUME CloseRead, kind = "pipe", UNCHANGED kind PROVE WHold'
  BY <1>20 DEF CloseRead
<1>21. ASSUME CloseWrite, kind = "pipe", UNCHANGED kind PROVE WHold'
  BY <1>21 DEF CloseWrite
<1>22. ASSUME CloseWakeReader, kind = "pipe", UNCHANGED kind PROVE WHold'
  BY <1>22 DEF CloseWakeReader, WakeReader
<1>23. ASSUME CloseWakeWriter, kind = "pipe", UNCHANGED kind PROVE WHold'
  BY <1>23 DEF CloseWakeWriter, WakeWriter
<1>24. ASSUME qreopen, kind = "pipe", UNCHANGED kind PROVE WHold'
  BY <1>24 DEF qreopen
<1>25. ASSUME NEW d \in Dev, ProduceWake(d), kind = "device", UNCHANGED kind PROVE WHold'
  BY <1>25 DEF ProduceWake, WakeReader, WGoto
<1>26. ASSUME NEW d \in Dev, NEW n \in Size, qproduce(d, n), kind = "device", UNCHANGED kind
       PROVE  WHold'
  BY <1>26 DEF qproduce, Put, Starved, WGoto
<1>27. ASSUME NEW d \in Dev, NEW n \in Size, qiwrite(d, n), kind = "device", UNCHANGED kind
       PROVE  WHold'
  BY <1>27 DEF qiwrite, Put, Starved, WGoto
<1> QED
  BY <1>1, <1>2, <1>3, <1>4, <1>5, <1>6, <1>7, <1>8, <1>9, <1>10, <1>11, <1>12, <1>13,
     <1>14, <1>15, <1>16, <1>17, <1>18, <1>19, <1>20, <1>21, <1>22, <1>23, <1>24, <1>25,
     <1>26, <1>27
     DEF Next, Readers, Reading, PipeNext, Writing, Closing, DevNext

\* Reads and writes begin at open ends, and an end with a call in it is not closed.
LEMMA EndsStep == IInv /\ [Next]_vars => Ends'
<1> SUFFICES ASSUME IInv, [Next]_vars PROVE Ends'
  OBVIOUS
<1> USE QioAssumption DEF IInv, TypeOK, qvars, rvars, wvars, cvars, None, Kinds, Ends,
           RHold, WHold
<1>1. CASE UNCHANGED vars
  BY <1>1 DEF vars
<1>2. ASSUME NEW r \in Reader, ReadLock(r), UNCHANGED kind PROVE Ends'
  BY <1>2 DEF ReadLock, RGoto
<1>3. ASSUME NEW r \in Reader, ReadTake(r), UNCHANGED kind PROVE Ends'
  BY <1>3 DEF ReadTake, RGoto, RReturn, BLEN, Restart
<1>4. ASSUME NEW r \in Reader, ReadSplit(r), UNCHANGED kind PROVE Ends'
  BY <1>4 DEF ReadSplit, RGoto, RReturn, BLEN
<1>5. ASSUME NEW r \in Reader, ReadWake(r), UNCHANGED kind PROVE Ends'
  BY <1>5 DEF ReadWake, RGoto, RReturn, WakeWriter
<1>6. ASSUME NEW r \in Reader, ReadEmpty(r), UNCHANGED kind PROVE Ends'
  BY <1>6 DEF ReadEmpty, RGoto
<1>7. ASSUME NEW r \in Reader, ReadEof(r), UNCHANGED kind PROVE Ends'
  BY <1>7 DEF ReadEof, RGoto
<1>8. ASSUME NEW r \in Reader, ReadSleep(r), UNCHANGED kind PROVE Ends'
  BY <1>8 DEF ReadSleep, RGoto, notempty
<1>9. ASSUME NEW r \in Reader, ReadIntr(r), UNCHANGED kind PROVE Ends'
  BY <1>9 DEF ReadIntr, RGoto, RReturn
<1>10. ASSUME NEW r \in Reader, NEW n \in Want, qbread(r, n), UNCHANGED kind PROVE Ends'
  BY <1>10 DEF qbread, RGoto
<1>11. ASSUME NEW w \in Writer, WriteLock(w), kind = "pipe", UNCHANGED kind PROVE Ends'
  BY <1>11 DEF WriteLock, WGoto
<1>12. ASSUME NEW w \in Writer, WriteTest(w), kind = "pipe", UNCHANGED kind PROVE Ends'
  BY <1>12 DEF WriteTest, WGoto, qnotfull
<1>13. ASSUME NEW w \in Writer, WriteFlow(w), kind = "pipe", UNCHANGED kind PROVE Ends'
  BY <1>13 DEF WriteFlow, WGoto
<1>14. ASSUME NEW w \in Writer, WriteSleep(w), kind = "pipe", UNCHANGED kind PROVE Ends'
  BY <1>14 DEF WriteSleep, WGoto, qnotfull
<1>15. ASSUME NEW w \in Writer, WriteIntr(w), kind = "pipe", UNCHANGED kind PROVE Ends'
  BY <1>15 DEF WriteIntr, WReturn, WGoto
<1>16. ASSUME NEW w \in Writer, WritePut(w), kind = "pipe", UNCHANGED kind PROVE Ends'
  BY <1>16 DEF WritePut, WReturn, WGoto, Put, Starved
<1>17. ASSUME NEW w \in Writer, WriteWake(w), kind = "pipe", UNCHANGED kind PROVE Ends'
  BY <1>17 DEF WriteWake, WakeReader, WReturn, WGoto
<1>18. ASSUME NEW w \in Writer, NEW n \in Size, qbwrite(w, n), kind = "pipe", UNCHANGED kind
       PROVE  Ends'
  BY <1>18 DEF qbwrite, WGoto
<1>19. ASSUME NEW e \in {"r", "w"}, pipeopen(e), kind = "pipe", UNCHANGED kind PROVE Ends'
  BY <1>19 DEF pipeopen
<1>20. ASSUME CloseRead, kind = "pipe", UNCHANGED kind PROVE Ends'
  BY <1>20 DEF CloseRead
<1>21. ASSUME CloseWrite, kind = "pipe", UNCHANGED kind PROVE Ends'
  BY <1>21 DEF CloseWrite
<1>22. ASSUME CloseWakeReader, kind = "pipe", UNCHANGED kind PROVE Ends'
  BY <1>22 DEF CloseWakeReader, WakeReader
<1>23. ASSUME CloseWakeWriter, kind = "pipe", UNCHANGED kind PROVE Ends'
  BY <1>23 DEF CloseWakeWriter, WakeWriter
<1>24. ASSUME qreopen, kind = "pipe", UNCHANGED kind PROVE Ends'
  BY <1>24 DEF qreopen
<1>25. ASSUME NEW d \in Dev, ProduceWake(d), kind = "device", UNCHANGED kind PROVE Ends'
  BY <1>25 DEF ProduceWake, WakeReader, WGoto
<1>26. ASSUME NEW d \in Dev, NEW n \in Size, qproduce(d, n), kind = "device", UNCHANGED kind
       PROVE  Ends'
  BY <1>26 DEF qproduce, Put, Starved, WGoto
<1>27. ASSUME NEW d \in Dev, NEW n \in Size, qiwrite(d, n), kind = "device", UNCHANGED kind
       PROVE  Ends'
  BY <1>27 DEF qiwrite, Put, Starved, WGoto
<1> QED
  BY <1>1, <1>2, <1>3, <1>4, <1>5, <1>6, <1>7, <1>8, <1>9, <1>10, <1>11, <1>12, <1>13,
     <1>14, <1>15, <1>16, <1>17, <1>18, <1>19, <1>20, <1>21, <1>22, <1>23, <1>24, <1>25,
     <1>26, <1>27
     DEF Next, Readers, Reading, PipeNext, Writing, Closing, DevNext

\* Without a reader in a call nothing is split off.
LEMMA IdlePart == ASSUME IInv, \A r \in Reader : rpc[r] = "idle" PROVE part = None /\ start = nout
<1>1. part # None => rown \in Reader /\ rpc[rown] = "split"
  BY DEF IInv, TypeOK, RHold
<1> QED
  BY <1>1 DEF start

\* A block that is linked in goes on where the queue ends.
LEMMA PutOrder ==
  ASSUME IInv, NEW n \in Size, Put(n), nout' = nout, part' = part
  PROVE  Numbers' /\ Order'
<1>1. n \in Nat \ {0}
  BY QioAssumption
<1>2. /\ blocks \in Blocks /\ start \in Nat /\ nin \in Nat /\ nout \in Nat
      /\ part \in (Nat \X Nat) \cup {None}
  BY DEF IInv, TypeOK, Blocks, start, None
<1>3. /\ Append(blocks, <<nin + 1, nin + n>>) \in Blocks
      /\ Run(Append(blocks, <<nin + 1, nin + n>>), start, nin + n)
  BY <1>1, <1>2, RunAppend DEF IInv, Order
<1>4. start' = start
  BY DEF start
<1>5. Run(blocks', start', nin') /\ blocks' \in Blocks
  BY <1>3, <1>4 DEF Put
<1>6. qlen \in Nat /\ qlen = nin - start
  BY DEF IInv, TypeOK, Order
<1>7. nin' \in Nat /\ qlen' \in Nat /\ qlen' = nin' - start'
  BY <1>1, <1>2, <1>4, <1>6 DEF Put
<1>8. part' # None => part'[1] = nout' + 1 /\ part'[1] <= part'[2]
  BY DEF IInv, Order
<1> QED
  BY <1>2, <1>5, <1>7, <1>8 DEF Numbers, Order

\* qbread takes the first block off and splits off what is too much.
LEMMA TakeOrder ==
  ASSUME IInv, NEW r \in Reader, ReadTake(r) PROVE Numbers' /\ Order' /\ nout <= nout'
<1> DEFINE b == Head(blocks)
           m == want[r]
<1>1. part = None
  BY DEF IInv, RHold, ReadTake
<1>2. start = nout
  BY <1>1 DEF start
<1>3. blocks \in Blocks /\ nin \in Nat /\ nout \in Nat /\ blocks # <<>> /\ Run(blocks, nout, nin)
  BY <1>2 DEF IInv, TypeOK, Blocks, Order, ReadTake
<1>4. /\ b \in Nat \X Nat /\ Tail(blocks) \in Blocks /\ b[1] = nout + 1 /\ b[1] <= b[2] /\ b[2] <= nin
      /\ Run(Tail(blocks), b[2], nin)
  BY <1>3, RunTail
<1>5. m \in Nat /\ m > 0
<2>1. rpc[r] = "top"
  BY DEF ReadTake
<2>2. m \in Want
  BY <2>1 DEF IInv, RHold
<2>3. \A k \in Want : k \in Nat /\ k > 0
  BY QioAssumption
<2> QED
  BY <2>2, <2>3
<1>6. qlen = nin - nout
  BY <1>2 DEF IInv, Order
<1>7. /\ blocks' = Tail(blocks) /\ qlen' = qlen - BLEN(b) /\ nin' = nin
      /\ nout' = IF BLEN(b) > m THEN b[1] + m - 1 ELSE b[2]
      /\ part' = IF BLEN(b) > m THEN <<nout' + 1, b[2]>> ELSE None
  BY DEF ReadTake
<1> HIDE DEF b, m
<1>8. b[1] \in Nat /\ b[2] \in Nat /\ BLEN(b) = b[2] - nout
  BY <1>3, <1>4 DEF BLEN
<1>9. blocks' \in Blocks /\ qlen' \in Nat /\ nin' \in Nat /\ qlen' = nin - b[2]
  BY <1>3, <1>4, <1>6, <1>7, <1>8
<1>10. CASE BLEN(b) > m
<2>1. nout' = nout + m /\ nout' \in Nat /\ nout' + 1 <= b[2] /\ nout' + 1 \in Nat
  BY <1>3, <1>4, <1>5, <1>7, <1>8, <1>10
<2>2. part' = <<nout' + 1, b[2]>>
  BY <1>7, <1>10
<2>3. part' \in Nat \X Nat /\ part' # None /\ part'[1] = nout' + 1 /\ part'[2] = b[2]
  BY <1>8, <2>1, <2>2 DEF None
<2>4. start' = b[2]
  BY <2>3 DEF start
<2>5. nout <= nout'
  BY <1>3, <1>5, <2>1
<2> QED
  BY <1>4, <1>7, <1>9, <2>1, <2>3, <2>4, <2>5 DEF Numbers, Order
<1>11. CASE ~ (BLEN(b) > m)
<2>1. nout' = b[2] /\ nout' \in Nat /\ part' = None /\ start' = b[2]
  BY <1>7, <1>8, <1>11 DEF start
<2>2. nout <= nout'
  BY <1>3, <1>4, <1>8, <2>1
<2> QED
  BY <1>4, <1>7, <1>9, <2>1, <2>2 DEF Numbers, Order
<1> QED
  BY <1>10, <1>11

\* ... and puts it back in front.
LEMMA SplitOrder == ASSUME IInv, NEW r \in Reader, ReadSplit(r) PROVE Numbers' /\ Order'
<1>1. part # None /\ part \in Nat \X Nat /\ start = part[2]
  BY DEF IInv, RHold, ReadSplit, TypeOK, start
<1>2. part[1] \in Nat /\ part[2] \in Nat
  BY <1>1
<1>3. /\ blocks \in Blocks /\ nin \in Nat /\ nout \in Nat /\ Run(blocks, part[2], nin)
      /\ part[1] = nout + 1 /\ part[1] <= part[2] /\ qlen = nin - part[2]
  BY <1>1 DEF IInv, TypeOK, Blocks, Order
<1>4. <<part>> \o blocks \in Blocks /\ Run(<<part>> \o blocks, nout, nin) /\ nout <= nin
  BY <1>1, <1>3, RunPush
<1>5. /\ blocks' = <<part>> \o blocks /\ qlen' = qlen + BLEN(part) /\ part' = None
      /\ nin' = nin /\ nout' = nout
  BY DEF ReadSplit
<1>6. start' = nout
  BY <1>5 DEF start
<1>7. qlen' = nin - nout /\ qlen' \in Nat
  BY <1>2, <1>3, <1>4, <1>5, SMTT(20) DEF BLEN
<1> QED
  BY <1>3, <1>4, <1>5, <1>6, <1>7 DEF Numbers, Order

\* qclose: the queue is empty, and all is counted as read.
LEMMA CloseOrder == ASSUME IInv, CloseRead PROVE Numbers' /\ Order'
<1>1. part = None
  BY IdlePart DEF CloseRead
<1>2. nin \in Nat /\ nin' = nin /\ nout' = nin /\ part' = None /\ blocks' = <<>> /\ qlen' = 0
  BY <1>1 DEF IInv, TypeOK, CloseRead, rvars
<1>3. start' = nin
  BY <1>2 DEF start
<1>4. Run(<<>>, nin, nin) /\ <<>> \in Blocks
  BY <1>2, RunEmpty
<1>5. nin - nin = 0
  BY <1>2
<1> QED
  BY <1>2, <1>3, <1>4, <1>5 DEF Numbers, Order

\* qreopen: what nobody has read stays.
LEMMA ReopenOrder == ASSUME IInv, qreopen PROVE Numbers' /\ Order'
<1>1. part = None /\ start = nout
<2>1. \A r \in Reader : rpc[r] = "idle"
  BY DEF IInv, Ends, qreopen
<2> QED
  BY <2>1, IdlePart
<1>2. blocks \in Blocks /\ nin \in Nat /\ nout \in Nat /\ Run(blocks, nout, nin) /\ qlen = nin - nout
  BY <1>1 DEF IInv, TypeOK, Blocks, Order
<1> DEFINE t == [i \in 1..Len(blocks) |-> <<blocks[i][1] - nout, blocks[i][2] - nout>>]
<1>3. t \in Blocks /\ Run(t, 0, nin - nout) /\ nin - nout \in Nat
  BY <1>2, RunShift
<1>4. blocks' = t /\ nin' = nin - nout /\ nout' = 0 /\ qlen' = qlen /\ part' = None
  BY <1>1 DEF qreopen, rvars
<1> HIDE DEF t
<1>5. start' = 0 /\ qlen' = nin' - 0 /\ qlen' \in Nat /\ 0 \in Nat
  BY <1>2, <1>3, <1>4 DEF start
<1> QED
  BY <1>3, <1>4, <1>5 DEF Numbers, Order

LEMMA KeepOrder ==
  ASSUME IInv, UNCHANGED <<blocks, qlen, nin, nout, part>> PROVE Numbers' /\ Order'
<1>1. Numbers' <=> Numbers
  BY DEF Numbers
<1>2. start' = start
  BY DEF start
<1>3. Order' <=> Order
  BY <1>2 DEF Order
<1>4. Numbers /\ Order
  BY DEF IInv, TypeOK, Numbers, Order, Blocks
<1> QED
  BY <1>1, <1>3, <1>4

\* Every step keeps the stream in order and q->len the number of bytes in the queue.
LEMMA OrderStep == IInv /\ [Next]_vars => Numbers' /\ Order'
<1> SUFFICES ASSUME IInv, [Next]_vars PROVE Numbers' /\ Order'
  OBVIOUS
<1> USE DEF qvars, rvars, wvars, cvars
<1>1. CASE UNCHANGED vars
  BY <1>1, KeepOrder DEF vars
<1>2. ASSUME NEW r \in Reader, ReadLock(r), UNCHANGED kind PROVE Numbers' /\ Order'
  BY <1>2, KeepOrder DEF ReadLock
<1>3. ASSUME NEW r \in Reader, ReadTake(r), UNCHANGED kind PROVE Numbers' /\ Order'
  BY <1>3, TakeOrder
<1>4. ASSUME NEW r \in Reader, ReadSplit(r), UNCHANGED kind PROVE Numbers' /\ Order'
  BY <1>4, SplitOrder
<1>5. ASSUME NEW r \in Reader, ReadWake(r), UNCHANGED kind PROVE Numbers' /\ Order'
  BY <1>5, KeepOrder DEF ReadWake
<1>6. ASSUME NEW r \in Reader, ReadEmpty(r), UNCHANGED kind PROVE Numbers' /\ Order'
  BY <1>6, KeepOrder DEF ReadEmpty
<1>7. ASSUME NEW r \in Reader, ReadEof(r), UNCHANGED kind PROVE Numbers' /\ Order'
  BY <1>7, KeepOrder DEF ReadEof
<1>8. ASSUME NEW r \in Reader, ReadSleep(r), UNCHANGED kind PROVE Numbers' /\ Order'
  BY <1>8, KeepOrder DEF ReadSleep
<1>9. ASSUME NEW r \in Reader, ReadIntr(r), UNCHANGED kind PROVE Numbers' /\ Order'
  BY <1>9, KeepOrder DEF ReadIntr
<1>10. ASSUME NEW r \in Reader, NEW n \in Want, qbread(r, n), UNCHANGED kind
       PROVE  Numbers' /\ Order'
  BY <1>10, KeepOrder DEF qbread
<1>11. ASSUME NEW w \in Writer, WriteLock(w), kind = "pipe", UNCHANGED kind
       PROVE  Numbers' /\ Order'
  BY <1>11, KeepOrder DEF WriteLock
<1>12. ASSUME NEW w \in Writer, WriteTest(w), kind = "pipe", UNCHANGED kind
       PROVE  Numbers' /\ Order'
  BY <1>12, KeepOrder DEF WriteTest
<1>13. ASSUME NEW w \in Writer, WriteFlow(w), kind = "pipe", UNCHANGED kind
       PROVE  Numbers' /\ Order'
  BY <1>13, KeepOrder DEF WriteFlow
<1>14. ASSUME NEW w \in Writer, WriteSleep(w), kind = "pipe", UNCHANGED kind
       PROVE  Numbers' /\ Order'
  BY <1>14, KeepOrder DEF WriteSleep
<1>15. ASSUME NEW w \in Writer, WriteIntr(w), kind = "pipe", UNCHANGED kind
       PROVE  Numbers' /\ Order'
  BY <1>15, KeepOrder DEF WriteIntr
<1>16. ASSUME NEW w \in Writer, WritePut(w), kind = "pipe", UNCHANGED kind
       PROVE  Numbers' /\ Order'
<2>1. CASE "closed" \in state
  BY <1>16, <2>1, KeepOrder DEF WritePut
<2>2. CASE "closed" \notin state
<3>1. size[w] \in Size
  BY <1>16 DEF IInv, WHold, WritePut
<3> QED
  BY <1>16, <2>2, <3>1, PutOrder DEF WritePut
<2> QED
  BY <2>1, <2>2
<1>17. ASSUME NEW w \in Writer, WriteWake(w), kind = "pipe", UNCHANGED kind
       PROVE  Numbers' /\ Order'
  BY <1>17, KeepOrder DEF WriteWake
<1>18. ASSUME NEW w \in Writer, NEW n \in Size, qbwrite(w, n), kind = "pipe", UNCHANGED kind
       PROVE  Numbers' /\ Order'
  BY <1>18, KeepOrder DEF qbwrite
<1>19. ASSUME NEW e \in {"r", "w"}, pipeopen(e), kind = "pipe", UNCHANGED kind
       PROVE  Numbers' /\ Order'
  BY <1>19, KeepOrder DEF pipeopen
<1>20. ASSUME CloseRead, kind = "pipe", UNCHANGED kind PROVE Numbers' /\ Order'
  BY <1>20, CloseOrder
<1>21. ASSUME CloseWrite, kind = "pipe", UNCHANGED kind PROVE Numbers' /\ Order'
  BY <1>21, KeepOrder DEF CloseWrite
<1>22. ASSUME CloseWakeReader, kind = "pipe", UNCHANGED kind PROVE Numbers' /\ Order'
  BY <1>22, KeepOrder DEF CloseWakeReader
<1>23. ASSUME CloseWakeWriter, kind = "pipe", UNCHANGED kind PROVE Numbers' /\ Order'
  BY <1>23, KeepOrder DEF CloseWakeWriter
<1>24. ASSUME qreopen, kind = "pipe", UNCHANGED kind PROVE Numbers' /\ Order'
  BY <1>24, ReopenOrder
<1>25. ASSUME NEW d \in Dev, ProduceWake(d), kind = "device", UNCHANGED kind
       PROVE  Numbers' /\ Order'
  BY <1>25, KeepOrder DEF ProduceWake
<1>26. ASSUME NEW d \in Dev, NEW n \in Size, qproduce(d, n), kind = "device", UNCHANGED kind
       PROVE  Numbers' /\ Order'
<2>1. CASE qlen >= Limit /\ UNCHANGED <<blocks, qlen, nin>>
  BY <1>26, <2>1, KeepOrder DEF qproduce
<2>2. CASE Put(n)
  BY <1>26, <2>2, PutOrder DEF qproduce
<2> QED
  BY <1>26, <2>1, <2>2 DEF qproduce
<1>27. ASSUME NEW d \in Dev, NEW n \in Size, qiwrite(d, n), kind = "device", UNCHANGED kind
       PROVE  Numbers' /\ Order'
  BY <1>27, PutOrder DEF qiwrite
<1> QED
  BY <1>1, <1>2, <1>3, <1>4, <1>5, <1>6, <1>7, <1>8, <1>9, <1>10, <1>11, <1>12, <1>13,
     <1>14, <1>15, <1>16, <1>17, <1>18, <1>19, <1>20, <1>21, <1>22, <1>23, <1>24, <1>25,
     <1>26, <1>27
     DEF Next, Readers, Reading, PipeNext, Writing, Closing, DevNext

\* Every step keeps the types.
LEMMA TypeStep == IInv /\ [Next]_vars => TypeOK'
<1> SUFFICES ASSUME IInv, [Next]_vars PROVE TypeOK'
  OBVIOUS
<1> USE QioAssumption DEF IInv, TypeOK, qvars, rvars, wvars, cvars, Bit, Numbers, Blocks
<1>0. Numbers'
  BY OrderStep
<1>1. CASE UNCHANGED vars
  BY <1>1 DEF vars
<1>2. ASSUME NEW r \in Reader, ReadLock(r), UNCHANGED kind PROVE TypeOK'
  BY <1>2, <1>0 DEF ReadLock, RGoto
<1>3. ASSUME NEW r \in Reader, ReadTake(r), UNCHANGED kind PROVE TypeOK'
<2>1. rpc' \in [Reader -> {"idle", "rlock", "top", "sleep", "asleep", "split", "wake", "eof"}]
<3>1. RGoto(r, "split") \/ RGoto(r, "wake") \/ RGoto(r, "idle")
  BY <1>3 DEF ReadTake
<3> QED
  BY <3>1 DEF RGoto
<2>2. rown' \in Reader \cup {NoProc} /\ want' \in [Reader -> Want \cup {0}]
  BY <1>3, ZenonT(60) DEF ReadTake, RReturn
<2>3. state' \in SUBSET Bit /\ dow' \in {0, 1}
  BY <1>3 DEF ReadTake
<2>4. UNCHANGED <<eof, wown, rr, wr, wpc, size, loc, open, cpc, lost>>
  BY <1>3 DEF ReadTake
<2> QED
  BY <1>3, <1>0, <2>1, <2>2, <2>3, <2>4
<1>4. ASSUME NEW r \in Reader, ReadSplit(r), UNCHANGED kind PROVE TypeOK'
<2>1. rpc' \in [Reader -> {"idle", "rlock", "top", "sleep", "asleep", "split", "wake", "eof"}]
<3>1. RGoto(r, "wake") \/ RGoto(r, "idle")
  BY <1>4 DEF ReadSplit
<3> QED
  BY <3>1 DEF RGoto
<2>2. rown' \in Reader \cup {NoProc} /\ want' \in [Reader -> Want \cup {0}]
  BY <1>4 DEF ReadSplit, RReturn
<2>3. UNCHANGED <<state, dow, eof, wown, rr, wr, wpc, size, loc, open, cpc>>
  BY <1>4 DEF ReadSplit
<2>4. lost' \in SUBSET Bit
  BY <1>4 DEF ReadSplit
<2> QED
  BY <1>4, <1>0, <2>1, <2>2, <2>3, <2>4
<1>5. ASSUME NEW r \in Reader, ReadWake(r), UNCHANGED kind PROVE TypeOK'
  BY <1>5, <1>0 DEF ReadWake, RGoto, RReturn, WakeWriter
<1>6. ASSUME NEW r \in Reader, ReadEmpty(r), UNCHANGED kind PROVE TypeOK'
  BY <1>6, <1>0, ZenonT(60) DEF ReadEmpty, RGoto
<1>7. ASSUME NEW r \in Reader, ReadEof(r), UNCHANGED kind PROVE TypeOK'
  BY <1>7, <1>0 DEF ReadEof, RGoto
<1>8. ASSUME NEW r \in Reader, ReadSleep(r), UNCHANGED kind PROVE TypeOK'
  BY <1>8, <1>0, ZenonT(60) DEF ReadSleep, RGoto, notempty
<1>9. ASSUME NEW r \in Reader, ReadIntr(r), UNCHANGED kind PROVE TypeOK'
  BY <1>9, <1>0 DEF ReadIntr, RGoto, RReturn
<1>10. ASSUME NEW r \in Reader, NEW n \in Want, qbread(r, n), UNCHANGED kind PROVE TypeOK'
  BY <1>10, <1>0 DEF qbread, RGoto
<1>11. ASSUME NEW w \in Writer, WriteLock(w), kind = "pipe", UNCHANGED kind PROVE TypeOK'
  BY <1>11, <1>0 DEF WriteLock, WGoto
<1>12. ASSUME NEW w \in Writer, WriteTest(w), kind = "pipe", UNCHANGED kind PROVE TypeOK'
  BY <1>12, <1>0, ZenonT(60) DEF WriteTest, WGoto, qnotfull
<1>13. ASSUME NEW w \in Writer, WriteFlow(w), kind = "pipe", UNCHANGED kind PROVE TypeOK'
  BY <1>13, <1>0 DEF WriteFlow, WGoto
<1>14. ASSUME NEW w \in Writer, WriteSleep(w), kind = "pipe", UNCHANGED kind PROVE TypeOK'
  BY <1>14, <1>0, SMTT(20) DEF WriteSleep, WGoto, qnotfull
<1>15. ASSUME NEW w \in Writer, WriteIntr(w), kind = "pipe", UNCHANGED kind PROVE TypeOK'
  BY <1>15, <1>0 DEF WriteIntr, WReturn, WGoto
<1>16. ASSUME NEW w \in Writer, WritePut(w), kind = "pipe", UNCHANGED kind PROVE TypeOK'
<2>1. /\ wpc' \in [Writer \cup Dev ->
                 {"idle", "wlock", "test", "store", "sleep", "asleep", "put", "wake"}]
      /\ wown' \in Writer \cup {NoProc} /\ size' \in [Writer \cup Dev -> Size \cup {0}]
<3>1. \/ WReturn(w)
      \/ WGoto(w, "wake") /\ UNCHANGED <<wown, size>>
  BY <1>16 DEF WritePut
<3> QED
  BY <3>1 DEF WReturn, WGoto
<2>2. state' \in SUBSET Bit /\ eof' = eof
  BY <1>16 DEF WritePut, Put
<2>3. UNCHANGED <<rown, rr, wr, rpc, want, dow, loc, open, cpc, lost>>
  BY <1>16 DEF WritePut
<2> QED
  BY <1>16, <1>0, <2>1, <2>2, <2>3
<1>17. ASSUME NEW w \in Writer, WriteWake(w), kind = "pipe", UNCHANGED kind PROVE TypeOK'
  BY <1>17, <1>0 DEF WriteWake, WakeReader, WReturn, WGoto
<1>18. ASSUME NEW w \in Writer, NEW n \in Size, qbwrite(w, n), kind = "pipe", UNCHANGED kind
       PROVE  TypeOK'
  BY <1>18, <1>0 DEF qbwrite, WGoto
<1>19. ASSUME NEW e \in {"r", "w"}, pipeopen(e), kind = "pipe", UNCHANGED kind PROVE TypeOK'
  BY <1>19, <1>0 DEF pipeopen
<1>20. ASSUME CloseRead, kind = "pipe", UNCHANGED kind PROVE TypeOK'
  BY <1>20, <1>0 DEF CloseRead
<1>21. ASSUME CloseWrite, kind = "pipe", UNCHANGED kind PROVE TypeOK'
  BY <1>21, <1>0 DEF CloseWrite
<1>22. ASSUME CloseWakeReader, kind = "pipe", UNCHANGED kind PROVE TypeOK'
  BY <1>22, <1>0 DEF CloseWakeReader, WakeReader
<1>23. ASSUME CloseWakeWriter, kind = "pipe", UNCHANGED kind PROVE TypeOK'
  BY <1>23, <1>0 DEF CloseWakeWriter, WakeWriter
<1>24. ASSUME qreopen, kind = "pipe", UNCHANGED kind PROVE TypeOK'
  BY <1>24, <1>0 DEF qreopen
<1>25. ASSUME NEW d \in Dev, ProduceWake(d), kind = "device", UNCHANGED kind PROVE TypeOK'
  BY <1>25, <1>0 DEF ProduceWake, WakeReader, WGoto
<1>26. ASSUME NEW d \in Dev, NEW n \in Size, qproduce(d, n), kind = "device", UNCHANGED kind
       PROVE  TypeOK'
<2>1. wpc' \in [Writer \cup Dev ->
              {"idle", "wlock", "test", "store", "sleep", "asleep", "put", "wake"}]
<3>1. wpc' = wpc \/ WGoto(d, "wake") \/ WGoto(d, "idle")
  BY <1>26 DEF qproduce
<3> QED
  BY <3>1 DEF WGoto
<2>2. state' \in SUBSET Bit
  BY <1>26 DEF qproduce, Put
<2>3. UNCHANGED <<eof, rown, wown, rr, wr, rpc, want, dow, size, loc, open, cpc, lost>>
  BY <1>26 DEF qproduce
<2> QED
  BY <1>26, <1>0, <2>1, <2>2, <2>3
<1>27. ASSUME NEW d \in Dev, NEW n \in Size, qiwrite(d, n), kind = "device", UNCHANGED kind
       PROVE  TypeOK'
  BY <1>27, <1>0 DEF qiwrite, Put, Starved, WGoto
<1> QED
  BY <1>1, <1>2, <1>3, <1>4, <1>5, <1>6, <1>7, <1>8, <1>9, <1>10, <1>11, <1>12, <1>13,
     <1>14, <1>15, <1>16, <1>17, <1>18, <1>19, <1>20, <1>21, <1>22, <1>23, <1>24, <1>25,
     <1>26, <1>27
     DEF Next, Readers, Reading, PipeNext, Writing, Closing, DevNext

\* After a closed queue has been seen empty nothing is put in.
LEMMA EofStep == IInv /\ [Next]_vars => Eof'
<1> SUFFICES ASSUME IInv, [Next]_vars PROVE Eof'
  OBVIOUS
<1> USE QioAssumption DEF IInv, TypeOK, qvars, rvars, wvars, cvars, None, Eof, RHold, Ends,
           Kinds
<1>1. CASE UNCHANGED vars
  BY <1>1 DEF vars
<1>2. ASSUME NEW r \in Reader, ReadLock(r), UNCHANGED kind PROVE Eof'
  BY <1>2 DEF ReadLock, RGoto
<1>3. ASSUME NEW r \in Reader, ReadTake(r), UNCHANGED kind PROVE Eof'
  BY <1>3 DEF ReadTake, RGoto, RReturn, BLEN, Restart
<1>4. ASSUME NEW r \in Reader, ReadSplit(r), UNCHANGED kind PROVE Eof'
  BY <1>4 DEF ReadSplit, RGoto, RReturn, BLEN
<1>5. ASSUME NEW r \in Reader, ReadWake(r), UNCHANGED kind PROVE Eof'
  BY <1>5 DEF ReadWake, RGoto, RReturn, WakeWriter
<1>6. ASSUME NEW r \in Reader, ReadEmpty(r), UNCHANGED kind PROVE Eof'
  BY <1>6 DEF ReadEmpty, RGoto
<1>7. ASSUME NEW r \in Reader, ReadEof(r), UNCHANGED kind PROVE Eof'
  BY <1>7 DEF ReadEof, RGoto
<1>8. ASSUME NEW r \in Reader, ReadSleep(r), UNCHANGED kind PROVE Eof'
  BY <1>8 DEF ReadSleep, RGoto, notempty
<1>9. ASSUME NEW r \in Reader, ReadIntr(r), UNCHANGED kind PROVE Eof'
  BY <1>9 DEF ReadIntr, RGoto, RReturn
<1>10. ASSUME NEW r \in Reader, NEW n \in Want, qbread(r, n), UNCHANGED kind PROVE Eof'
  BY <1>10 DEF qbread, RGoto
<1>11. ASSUME NEW w \in Writer, WriteLock(w), kind = "pipe", UNCHANGED kind PROVE Eof'
  BY <1>11 DEF WriteLock, WGoto
<1>12. ASSUME NEW w \in Writer, WriteTest(w), kind = "pipe", UNCHANGED kind PROVE Eof'
  BY <1>12 DEF WriteTest, WGoto, qnotfull
<1>13. ASSUME NEW w \in Writer, WriteFlow(w), kind = "pipe", UNCHANGED kind PROVE Eof'
  BY <1>13 DEF WriteFlow, WGoto
<1>14. ASSUME NEW w \in Writer, WriteSleep(w), kind = "pipe", UNCHANGED kind PROVE Eof'
  BY <1>14 DEF WriteSleep, WGoto, qnotfull
<1>15. ASSUME NEW w \in Writer, WriteIntr(w), kind = "pipe", UNCHANGED kind PROVE Eof'
  BY <1>15 DEF WriteIntr, WReturn, WGoto
<1>16. ASSUME NEW w \in Writer, WritePut(w), kind = "pipe", UNCHANGED kind PROVE Eof'
  BY <1>16 DEF WritePut, WReturn, WGoto, Put, Starved
<1>17. ASSUME NEW w \in Writer, WriteWake(w), kind = "pipe", UNCHANGED kind PROVE Eof'
  BY <1>17 DEF WriteWake, WakeReader, WReturn, WGoto
<1>18. ASSUME NEW w \in Writer, NEW n \in Size, qbwrite(w, n), kind = "pipe", UNCHANGED kind
       PROVE  Eof'
  BY <1>18 DEF qbwrite, WGoto
<1>19. ASSUME NEW e \in {"r", "w"}, pipeopen(e), kind = "pipe", UNCHANGED kind PROVE Eof'
  BY <1>19 DEF pipeopen
<1>20. ASSUME CloseRead, kind = "pipe", UNCHANGED kind PROVE Eof'
  BY <1>20 DEF CloseRead
<1>21. ASSUME CloseWrite, kind = "pipe", UNCHANGED kind PROVE Eof'
  BY <1>21 DEF CloseWrite
<1>22. ASSUME CloseWakeReader, kind = "pipe", UNCHANGED kind PROVE Eof'
  BY <1>22 DEF CloseWakeReader, WakeReader
<1>23. ASSUME CloseWakeWriter, kind = "pipe", UNCHANGED kind PROVE Eof'
  BY <1>23 DEF CloseWakeWriter, WakeWriter
<1>24. ASSUME qreopen, kind = "pipe", UNCHANGED kind PROVE Eof'
  BY <1>24 DEF qreopen
<1>25. ASSUME NEW d \in Dev, ProduceWake(d), kind = "device", UNCHANGED kind PROVE Eof'
  BY <1>25 DEF ProduceWake, WakeReader, WGoto
<1>26. ASSUME NEW d \in Dev, NEW n \in Size, qproduce(d, n), kind = "device", UNCHANGED kind
       PROVE  Eof'
  BY <1>26 DEF qproduce, Put, Starved, WGoto
<1>27. ASSUME NEW d \in Dev, NEW n \in Size, qiwrite(d, n), kind = "device", UNCHANGED kind
       PROVE  Eof'
  BY <1>27 DEF qiwrite, Put, Starved, WGoto
<1> QED
  BY <1>1, <1>2, <1>3, <1>4, <1>5, <1>6, <1>7, <1>8, <1>9, <1>10, <1>11, <1>12, <1>13,
     <1>14, <1>15, <1>16, <1>17, <1>18, <1>19, <1>20, <1>21, <1>22, <1>23, <1>24, <1>25,
     <1>26, <1>27
     DEF Next, Readers, Reading, PipeNext, Writing, Closing, DevNext

\* Who puts a block into an empty queue, or closes it, wakes the reader.
LEMMA RSleepStep == IInv /\ [Next]_vars => RSleep'
<1> SUFFICES ASSUME IInv, [Next]_vars PROVE RSleep'
  OBVIOUS
<1> USE QioAssumption DEF IInv, TypeOK, qvars, rvars, wvars, cvars, None, RSleep, RHold,
           Ends, Kinds, notempty
<1>1. CASE UNCHANGED vars
  BY <1>1 DEF vars
<1>2. ASSUME NEW r \in Reader, ReadLock(r), UNCHANGED kind PROVE RSleep'
  BY <1>2 DEF ReadLock, RGoto
<1>3. ASSUME NEW r \in Reader, ReadTake(r), UNCHANGED kind PROVE RSleep'
<2>1. \A p \in Reader : rpc'[p] \in {"sleep", "asleep"} => FALSE
<3>1. RGoto(r, "split") \/ RGoto(r, "wake") \/ RGoto(r, "idle")
  BY <1>3 DEF ReadTake
<3>2. \A p \in Reader : rpc[p] \in {"sleep", "asleep"} => FALSE
  BY <1>3 DEF ReadTake
<3> QED
  BY <3>1, <3>2 DEF RGoto
<2> QED
  BY <2>1
<1>4. ASSUME NEW r \in Reader, ReadSplit(r), UNCHANGED kind PROVE RSleep'
  BY <1>4 DEF ReadSplit, RGoto, RReturn, BLEN
<1>5. ASSUME NEW r \in Reader, ReadWake(r), UNCHANGED kind PROVE RSleep'
  BY <1>5 DEF ReadWake, RGoto, RReturn, WakeWriter
<1>6. ASSUME NEW r \in Reader, ReadEmpty(r), UNCHANGED kind PROVE RSleep'
  BY <1>6 DEF ReadEmpty, RGoto
<1>7. ASSUME NEW r \in Reader, ReadEof(r), UNCHANGED kind PROVE RSleep'
  BY <1>7 DEF ReadEof, RGoto
<1>8. ASSUME NEW r \in Reader, ReadSleep(r), UNCHANGED kind PROVE RSleep'
  BY <1>8 DEF ReadSleep, RGoto, notempty
<1>9. ASSUME NEW r \in Reader, ReadIntr(r), UNCHANGED kind PROVE RSleep'
  BY <1>9 DEF ReadIntr, RGoto, RReturn
<1>10. ASSUME NEW r \in Reader, NEW n \in Want, qbread(r, n), UNCHANGED kind PROVE RSleep'
  BY <1>10 DEF qbread, RGoto
<1>11. ASSUME NEW w \in Writer, WriteLock(w), kind = "pipe", UNCHANGED kind PROVE RSleep'
  BY <1>11 DEF WriteLock, WGoto
<1>12. ASSUME NEW w \in Writer, WriteTest(w), kind = "pipe", UNCHANGED kind PROVE RSleep'
  BY <1>12 DEF WriteTest, WGoto, qnotfull
<1>13. ASSUME NEW w \in Writer, WriteFlow(w), kind = "pipe", UNCHANGED kind PROVE RSleep'
<2>1. /\ UNCHANGED <<blocks, rpc, cpc>> /\ state' = loc \cup {"flow"}
      /\ "starve" \notin lost' => "starve" \notin lost /\ ("starve" \in state => "starve" \in loc)
  BY <1>13 DEF WriteFlow
<2>2. "closed" \notin loc
  BY <1>13 DEF WriteFlow, WHold
<2>3. \A p \in Writer \cup Dev : wpc[p] = "wake" => wpc'[p] = "wake"
  BY <1>13 DEF WriteFlow, WGoto
<2> QED
  BY <2>1, <2>2, <2>3
<1>14. ASSUME NEW w \in Writer, WriteSleep(w), kind = "pipe", UNCHANGED kind PROVE RSleep'
  BY <1>14, ZenonT(60) DEF WriteSleep, WGoto, qnotfull
<1>15. ASSUME NEW w \in Writer, WriteIntr(w), kind = "pipe", UNCHANGED kind PROVE RSleep'
  BY <1>15 DEF WriteIntr, WReturn, WGoto
<1>16. ASSUME NEW w \in Writer, WritePut(w), kind = "pipe", UNCHANGED kind PROVE RSleep'
  BY <1>16 DEF WritePut, WReturn, WGoto, Put, Starved
<1>17. ASSUME NEW w \in Writer, WriteWake(w), kind = "pipe", UNCHANGED kind PROVE RSleep'
  BY <1>17 DEF WriteWake, WakeReader, WReturn, WGoto
<1>18. ASSUME NEW w \in Writer, NEW n \in Size, qbwrite(w, n), kind = "pipe", UNCHANGED kind
       PROVE  RSleep'
  BY <1>18 DEF qbwrite, WGoto
<1>19. ASSUME NEW e \in {"r", "w"}, pipeopen(e), kind = "pipe", UNCHANGED kind PROVE RSleep'
  BY <1>19 DEF pipeopen
<1>20. ASSUME CloseRead, kind = "pipe", UNCHANGED kind PROVE RSleep'
  BY <1>20 DEF CloseRead
<1>21. ASSUME CloseWrite, kind = "pipe", UNCHANGED kind PROVE RSleep'
  BY <1>21 DEF CloseWrite
<1>22. ASSUME CloseWakeReader, kind = "pipe", UNCHANGED kind PROVE RSleep'
  BY <1>22 DEF CloseWakeReader, WakeReader
<1>23. ASSUME CloseWakeWriter, kind = "pipe", UNCHANGED kind PROVE RSleep'
<2>1. UNCHANGED <<blocks, state, rpc, lost>> /\ cpc = "wakewr"
  BY <1>23 DEF CloseWakeWriter
<2>2. \A w \in Writer \cup Dev : wpc[w] = "wake" => wpc'[w] = "wake"
  BY <1>23 DEF CloseWakeWriter, WakeWriter, WHold
<2> QED
  BY <2>1, <2>2
<1>24. ASSUME qreopen, kind = "pipe", UNCHANGED kind PROVE RSleep'
  BY <1>24 DEF qreopen
<1>25. ASSUME NEW d \in Dev, ProduceWake(d), kind = "device", UNCHANGED kind PROVE RSleep'
  BY <1>25 DEF ProduceWake, WakeReader, WGoto
<1>26. ASSUME NEW d \in Dev, NEW n \in Size, qproduce(d, n), kind = "device", UNCHANGED kind
       PROVE  RSleep'
  BY <1>26 DEF qproduce, Put, Starved, WGoto
<1>27. ASSUME NEW d \in Dev, NEW n \in Size, qiwrite(d, n), kind = "device", UNCHANGED kind
       PROVE  RSleep'
  BY <1>27, SMTT(20) DEF qiwrite, Put, Starved, WGoto
<1> QED
  BY <1>1, <1>2, <1>3, <1>4, <1>5, <1>6, <1>7, <1>8, <1>9, <1>10, <1>11, <1>12, <1>13,
     <1>14, <1>15, <1>16, <1>17, <1>18, <1>19, <1>20, <1>21, <1>22, <1>23, <1>24, <1>25,
     <1>26, <1>27
     DEF Next, Readers, Reading, PipeNext, Writing, Closing, DevNext

LEMMA InvInit == Init => IInv
<1> SUFFICES ASSUME Init PROVE IInv
  OBVIOUS
<1> USE QioAssumption DEF Init, qopen
<1>1. /\ blocks = <<>> /\ nin = 0 /\ nout = 0 /\ qlen = 0 /\ part = None /\ start = 0
      /\ 0 - 0 = 0 /\ 0 \in Nat
  BY DEF start
<1>2. Order
  BY <1>1, RunEmpty DEF Order
<1>3. TypeOK
<2>1. blocks \in Seq(Nat \X Nat)
  BY <1>1
<2> QED
  BY <2>1 DEF TypeOK, Bit
<1>4. Kinds /\ Ends /\ Eof /\ RSleep
  BY DEF Kinds, Ends, Eof, RSleep
<1>5. RHold
  BY DEF RHold
<1>6. WHold
  BY DEF WHold
<1> QED
  BY <1>2, <1>3, <1>4, <1>5, <1>6 DEF IInv

LEMMA InvStep == IInv /\ [Next]_vars => IInv'
<1> SUFFICES ASSUME IInv, [Next]_vars PROVE IInv'
  OBVIOUS
<1>1. Kinds' /\ RHold' /\ WHold' /\ Ends'
  BY KindsStep, RHoldStep, WHoldStep, EndsStep
<1>2. TypeOK' /\ Order' /\ Eof' /\ RSleep'
  BY TypeStep, OrderStep, EofStep, RSleepStep
<1> QED
  BY <1>1, <1>2 DEF IInv

\* What was split off and the blocks are one run of blocks.
LEMMA InvOrder == IInv => InOrder
<1> SUFFICES ASSUME IInv PROVE InOrder
  OBVIOUS
<1> DEFINE all == (IF part = None THEN <<>> ELSE <<part>>) \o blocks
<1>1. blocks \in Blocks /\ nin \in Nat /\ nout \in Nat /\ part \in (Nat \X Nat) \cup {None}
  BY DEF IInv, TypeOK, Blocks
<1>2. Run(all, nout, nin) /\ qlen = nin - nout - (IF part = None THEN 0 ELSE BLEN(part))
<2>1. CASE part = None
<3>1. all = blocks /\ start = nout
  BY <1>1, <2>1 DEF Blocks, start
<3>2. qlen = nin - nout - 0
  BY <1>1, <3>1 DEF IInv, Order
<3> QED
  BY <2>1, <3>1, <3>2 DEF IInv, Order
<2>2. CASE part # None
<3>1. all = <<part>> \o blocks /\ part \in Nat \X Nat /\ start = part[2]
  BY <1>1, <2>2 DEF start
<3>2. /\ Run(blocks, part[2], nin) /\ qlen = nin - part[2]
      /\ part[1] = nout + 1 /\ part[1] <= part[2]
  BY <2>2, <3>1 DEF IInv, Order
<3>3. Run(<<part>> \o blocks, nout, nin)
  BY <1>1, <3>1, <3>2, RunPush
<3>4. part[1] \in Nat /\ part[2] \in Nat
  BY <3>1
<3>5. qlen = nin - nout - BLEN(part)
  BY <1>1, <3>2, <3>4 DEF BLEN
<3> QED
  BY <2>2, <3>1, <3>3, <3>5
<2> QED
  BY <2>1, <2>2
<1>3. (\E r \in Reader : rpc[r] = "eof") => nin = nout \/ "closed" \in lost
<2> SUFFICES ASSUME NEW r \in Reader, rpc[r] = "eof", "closed" \notin lost PROVE nin = nout
  OBVIOUS
<2>1. blocks = <<>> /\ part = None
  BY DEF IInv, Eof
<2>2. all = <<>>
  BY <2>1
<2> QED
  BY <1>2, <2>2 DEF Run
<1> QED
  BY <1>2, <1>3 DEF InOrder, Run

\* The types hold of every queue: in particular q->len, from which qbread takes the
\* length of a block, is never negative.
THEOREM TypeCorrect == Spec => []TypeOK
<1>1. IInv => TypeOK
  BY DEF IInv
<1>2. IInv /\ [Next]_vars => IInv'
  BY InvStep
<1> QED
  BY <1>1, <1>2, InvInit, PTL DEF Spec

\* However readers share the queue, and though qbread gives q->l up while it copies the
\* rest of a block: every byte is read once and in order, q->len is exact, and the end
\* of the stream comes after the last byte, unless the closing has been undone.
THEOREM StreamInOrder == Spec => []InOrder
<1>1. IInv /\ [Next]_vars => IInv'
  BY InvStep
<1> QED
  BY <1>1, InvInit, InvOrder, PTL DEF Spec

\* A reader that sleeps on q->rr while there are bytes, or the queue is closed, is about
\* to be woken by who put them there or closed it, unless the unlocked q->state |= Qflow
\* of a writer has wiped its Qstarve.
THEOREM ReadersAreWoken == Spec => []ReaderWoken
<1>1. IInv => ReaderWoken
<2> SUFFICES ASSUME IInv, "starve" \notin lost, rr # NoProc, notempty
             PROVE  cpc = "wakerr" \/ \E w \in Writer \cup Dev : wpc[w] = "wake"
  BY DEF ReaderWoken, StarvedWoken
<2>1. rr \in Reader /\ rpc[rr] = "asleep"
  BY DEF IInv, TypeOK, RHold
<2> QED
  BY <2>1 DEF IInv, RSleep
<1>2. IInv /\ [Next]_vars => IInv'
  BY InvStep
<1> QED
  BY <1>1, <1>2, InvInit, PTL DEF Spec

-----------------------------------------------------------------------------
(* Flow control.                                                           *)

LEMMA HalfLimit == Limit \in Nat /\ Limit \div 2 \in Nat /\ Limit \div 2 <= Limit
  BY QioAssumption

\* q->len does not count what is split off.
LEMMA LenBound == IInv => qlen <= nin - nout
<1> SUFFICES ASSUME IInv PROVE qlen <= nin - nout
  OBVIOUS
<1>1. nin \in Nat /\ nout \in Nat /\ qlen = nin - start
  BY DEF IInv, TypeOK, Order
<1>2. CASE part = None
  BY <1>1, <1>2 DEF start
<1>3. CASE part # None
<2>1. part \in Nat \X Nat /\ part[1] = nout + 1 /\ part[1] <= part[2] /\ start = part[2]
  BY <1>3 DEF IInv, TypeOK, Order, start
<2>2. part[2] \in Nat
  BY <2>1
<2> QED
  BY <1>1, <2>1, <2>2
<1> QED
  BY <1>2, <1>3

LEMMA LessLeft ==
  ASSUME NEW a \in Nat, NEW b \in Nat, NEW c \in Nat, NEW m \in Nat, b <= c, a - b < m
  PROVE  a - c < m
  OBVIOUS

LEMMA UnderHalf ==
  ASSUME NEW a \in Nat, NEW b \in Nat, NEW m \in Nat, a = b, b < m \div 2
  PROVE  a < m
  OBVIOUS

\* Who takes the flag of a writer wakes it, and the queue stays short enough for one that
\* is not asleep yet.
LEMMA WSleepStep == IInv /\ WSleep /\ [Next]_vars => WSleep'
<1> SUFFICES ASSUME IInv, WSleep, [Next]_vars PROVE WSleep'
  OBVIOUS
<1> USE QioAssumption, HalfLimit DEF IInv, TypeOK, WSleep, Waking, qvars, rvars,
           wvars, cvars, Kinds, RHold, WHold, Ends
<1>1. CASE UNCHANGED vars
  BY <1>1 DEF vars
<1>2. ASSUME NEW r \in Reader, ReadLock(r), UNCHANGED kind PROVE WSleep'
  BY <1>2 DEF ReadLock, RGoto
<1>3. ASSUME NEW r \in Reader, ReadTake(r), UNCHANGED kind PROVE WSleep'
<2> DEFINE b == Head(blocks)
           l == qlen - BLEN(b)
<2>1. UNCHANGED <<nin, cpc, wpc>> /\ rpc[r] = "top" /\ qlen' = l
  BY <1>3 DEF ReadTake
<2>2. Numbers' /\ Order' /\ nout <= nout'
  BY <1>3, TakeOrder
<2>4. nout' \in Nat /\ nin' \in Nat /\ qlen' \in Nat
  BY <2>2 DEF Numbers
<2>3. /\ nin - nout < Limit => nin' - nout' < Limit
      /\ part' = None => nin' - nout' = qlen'
<3>1. part' = None => nin' - nout' = qlen'
  BY <2>2 DEF Order, start
<3>2. nin \in Nat /\ nout \in Nat /\ Limit \in Nat /\ nin' = nin /\ nout <= nout' /\ nout' \in Nat
  BY <2>1, <2>2, <2>4
<3>3. nin - nout < Limit => nin' - nout' < Limit
  BY <3>2, LessLeft
<3> QED
  BY <3>1, <3>3
<2>9. part = None /\ lost' = lost
  BY <1>3, <2>1 DEF ReadTake
<2>5. ~ Waking
  BY <2>1
<2>6. /\ Restart(l) => state' = state \ {"flow"} /\ dow' = 1
      /\ ~ Restart(l) => state' = state
      /\ Restart(l) => rpc'[r] \in {"split", "wake"}
  BY <1>3 DEF ReadTake, RGoto
<2>7. CASE Restart(l)
<3>1. Waking'
  BY <2>6, <2>7
<3>2. qlen' < Limit \div 2
  BY <2>1, <2>7 DEF Restart
<3>3. nin' - nout' < Limit \/ (part' # None /\ dow' = 1)
<4>1. CASE part' = None
<5>1. nin' - nout' = qlen' /\ nin' - nout' \in Nat
  BY <2>3, <2>4, <4>1, ZenonT(60)
<5>2. Limit \in Nat
  OBVIOUS
<5> QED
  BY <2>4, <3>2, <5>1, <5>2, UnderHalf
<4>2. CASE part' # None
  BY <2>6, <2>7, <4>2
<4> QED
  BY <4>1, <4>2
<3> HIDE DEF Waking
<3> QED
  BY <3>1, <3>3
<2>8. CASE ~ Restart(l)
<3>1. state' = state /\ ("flow" \in state => qlen' >= Limit \div 2)
  BY <2>1, <2>4, <2>6, <2>8, HalfLimit DEF Restart
<3>2. ASSUME NEW w \in Writer, wpc'[w] = "sleep", "flow" \notin lost'
      PROVE  "flow" \in state' \/ "closed" \in state' \/ nin' - nout' < Limit
<4>1. "flow" \in state \/ "closed" \in state \/ nin - nout < Limit
  BY <2>1, <2>9, <3>2
<4> QED
  BY <2>3, <3>1, <4>1
<3>3. ASSUME NEW w \in Writer, wpc'[w] = "asleep", "flow" \notin lost'
      PROVE  \/ cpc' \in {"wakerr", "wakewr"}
             \/ "flow" \in state' /\ "closed" \notin state' /\ qlen' >= Limit \div 2
  BY <2>1, <2>5, <2>9, <3>1, <3>3
<3> QED
  BY <3>2, <3>3
<2> QED
  BY <2>7, <2>8
<1>4. ASSUME NEW r \in Reader, ReadSplit(r), UNCHANGED kind PROVE WSleep'
<2>1. UNCHANGED <<state, nin, nout, cpc, wpc, dow>> /\ rpc[r] = "split"
  BY <1>4 DEF ReadSplit
<2>2. qlen' >= qlen /\ qlen' \in Nat
<3>1. part \in Nat \X Nat /\ part[1] <= part[2]
  BY <1>4 DEF ReadSplit, Order
<3>2. part[1] \in Nat /\ part[2] \in Nat
  BY <3>1
<3>3. qlen' = qlen + (part[2] - part[1] + 1)
  BY <1>4 DEF ReadSplit, BLEN
<3> QED
  BY <3>1, <3>2, <3>3
<2>3. Waking => Waking'
<3>1. dow = 1 => rpc' = [rpc EXCEPT ![r] = "wake"]
  BY <1>4 DEF ReadSplit, RGoto
<3>2. dow = 1 => rpc'[r] = "wake"
  BY <3>1
<3> QED
  BY <2>1, <3>2
<2>4. Order' /\ part' = None /\ nin' \in Nat /\ nout' \in Nat /\ part # None
  BY <1>4, SplitOrder DEF Numbers, ReadSplit
<2>5. qlen' = nin' - nout'
  BY <2>4 DEF Order, start
<2>6. "flow" \notin lost' =>
         /\ "flow" \notin lost
         /\ (dow = 1 /\ "flow" \notin state) => qlen' < Limit
  BY <1>4, <2>2 DEF ReadSplit
<2>10. ASSUME NEW w \in Writer, "flow" \notin lost
       PROVE  /\ wpc[w] = "sleep" =>
                   \/ "flow" \in state \/ "closed" \in state
                   \/ nin - nout < Limit \/ dow = 1
              /\ wpc[w] = "asleep" =>
                   \/ Waking \/ cpc \in {"wakerr", "wakewr"}
                   \/ "flow" \in state /\ "closed" \notin state /\ qlen >= Limit \div 2
  BY <2>10
<2> SUFFICES ASSUME NEW w \in Writer, "flow" \notin lost'
             PROVE  /\ wpc[w] = "sleep" =>
                         \/ "flow" \in state \/ "closed" \in state \/ nin' - nout' < Limit
                    /\ wpc[w] = "asleep" =>
                         \/ Waking' \/ cpc \in {"wakerr", "wakewr"}
                         \/ "flow" \in state /\ "closed" \notin state /\ qlen' >= Limit \div 2
  BY <2>1
<2> HIDE DEF Waking, IInv, TypeOK, WSleep, RHold, WHold, Ends, Kinds
<2>9. "flow" \notin lost /\ ((dow = 1 /\ "flow" \notin state) => qlen' < Limit)
  BY <2>6
<2>7. ASSUME wpc[w] = "sleep"
      PROVE  \/ "flow" \in state \/ "closed" \in state \/ nin' - nout' < Limit
<3>1. \/ "flow" \in state \/ "closed" \in state \/ nin - nout < Limit \/ dow = 1
  BY <2>7, <2>9, <2>10
<3>2. nin' = nin /\ nout' = nout /\ qlen' = nin' - nout'
  BY <2>1, <2>5
<3> QED
  BY <2>9, <3>1, <3>2
<2>8. qlen >= Limit \div 2 => qlen' >= Limit \div 2
<3>1. qlen \in Nat /\ qlen' \in Nat /\ qlen <= qlen' /\ Limit \div 2 \in Nat
  BY <2>2 DEF IInv, TypeOK
<3> QED
  BY <3>1
<2> QED
  BY <2>3, <2>7, <2>8, <2>9, <2>10
<1>5. ASSUME NEW r \in Reader, ReadWake(r), UNCHANGED kind PROVE WSleep'
  BY <1>5 DEF ReadWake, RGoto, RReturn, WakeWriter
<1>6. ASSUME NEW r \in Reader, ReadEmpty(r), UNCHANGED kind PROVE WSleep'
  BY <1>6 DEF ReadEmpty, RGoto
<1>7. ASSUME NEW r \in Reader, ReadEof(r), UNCHANGED kind PROVE WSleep'
  BY <1>7 DEF ReadEof, RGoto
<1>8. ASSUME NEW r \in Reader, ReadSleep(r), UNCHANGED kind PROVE WSleep'
  BY <1>8 DEF ReadSleep, RGoto, notempty
<1>9. ASSUME NEW r \in Reader, ReadIntr(r), UNCHANGED kind PROVE WSleep'
  BY <1>9 DEF ReadIntr, RGoto, RReturn
<1>10. ASSUME NEW r \in Reader, NEW n \in Want, qbread(r, n), UNCHANGED kind PROVE WSleep'
  BY <1>10 DEF qbread, RGoto
<1>11. ASSUME NEW w \in Writer, WriteLock(w), kind = "pipe", UNCHANGED kind PROVE WSleep'
  BY <1>11 DEF WriteLock, WGoto
<1>12. ASSUME NEW w \in Writer, WriteTest(w), kind = "pipe", UNCHANGED kind PROVE WSleep'
  BY <1>12 DEF WriteTest, WGoto, qnotfull
<1>13. ASSUME NEW w \in Writer, WriteFlow(w), kind = "pipe", UNCHANGED kind PROVE WSleep'
  BY <1>13 DEF WriteFlow, WGoto
<1>14. ASSUME NEW w \in Writer, WriteSleep(w), kind = "pipe", UNCHANGED kind PROVE WSleep'
<2>1. qlen < Limit => qnotfull
  BY DEF qnotfull
<2>2. qnotfull => wpc' = [wpc EXCEPT ![w] = "test"]
  BY <1>14 DEF WriteSleep, WGoto
<2>3. ASSUME ~ qnotfull, "flow" \notin lost
      PROVE  /\ wpc' = [wpc EXCEPT ![w] = "asleep"]
             /\ \/ Waking
                \/ "flow" \in state /\ "closed" \notin state /\ qlen >= Limit \div 2
<3>1. qlen >= Limit /\ "closed" \notin state /\ qlen >= Limit \div 2
  BY <2>3, HalfLimit DEF qnotfull
<3>2. ~ (nin - nout < Limit)
  BY <3>1, LenBound
<3>3. "flow" \in state \/ (part # None /\ dow = 1)
  BY <1>14, <2>3, <3>1, <3>2 DEF WriteSleep
<3>4. part # None => \E r \in Reader : rpc[r] = "split"
  OBVIOUS
<3>5. wpc' = [wpc EXCEPT ![w] = "asleep"]
  BY <1>14, <2>3 DEF WriteSleep, WGoto
<3> QED
  BY <3>1, <3>3, <3>4, <3>5
<2>4. UNCHANGED <<state, nin, nout, qlen, cpc, rpc, dow, part, lost>>
  BY <1>14 DEF WriteSleep
<2>5. CASE wpc' = [wpc EXCEPT ![w] = "test"]
  BY <2>4, <2>5
<2>6. CASE ~ qnotfull
  BY <2>3, <2>4, <2>6
<2> QED
  BY <2>2, <2>5, <2>6
<1>15. ASSUME NEW w \in Writer, WriteIntr(w), kind = "pipe", UNCHANGED kind PROVE WSleep'
  BY <1>15 DEF WriteIntr, WReturn, WGoto
<1>16. ASSUME NEW w \in Writer, WritePut(w), kind = "pipe", UNCHANGED kind PROVE WSleep'
  BY <1>16 DEF WritePut, WReturn, WGoto, Put, Starved
<1>17. ASSUME NEW w \in Writer, WriteWake(w), kind = "pipe", UNCHANGED kind PROVE WSleep'
  BY <1>17 DEF WriteWake, WakeReader, WReturn, WGoto
<1>18. ASSUME NEW w \in Writer, NEW n \in Size, qbwrite(w, n), kind = "pipe", UNCHANGED kind
       PROVE  WSleep'
  BY <1>18 DEF qbwrite, WGoto
<1>19. ASSUME NEW e \in {"r", "w"}, pipeopen(e), kind = "pipe", UNCHANGED kind PROVE WSleep'
  BY <1>19 DEF pipeopen
<1>20. ASSUME CloseRead, kind = "pipe", UNCHANGED kind PROVE WSleep'
  BY <1>20 DEF CloseRead
<1>21. ASSUME CloseWrite, kind = "pipe", UNCHANGED kind PROVE WSleep'
  BY <1>21 DEF CloseWrite
<1>22. ASSUME CloseWakeReader, kind = "pipe", UNCHANGED kind PROVE WSleep'
  BY <1>22 DEF CloseWakeReader, WakeReader
<1>23. ASSUME CloseWakeWriter, kind = "pipe", UNCHANGED kind PROVE WSleep'
  BY <1>23 DEF CloseWakeWriter, WakeWriter
<1>24. ASSUME qreopen, kind = "pipe", UNCHANGED kind PROVE WSleep'
  BY <1>24 DEF qreopen
<1>25. ASSUME NEW d \in Dev, ProduceWake(d), kind = "device", UNCHANGED kind PROVE WSleep'
  BY <1>25 DEF ProduceWake, WakeReader, WGoto
<1>26. ASSUME NEW d \in Dev, NEW n \in Size, qproduce(d, n), kind = "device", UNCHANGED kind
       PROVE  WSleep'
  BY <1>26 DEF qproduce, Put, Starved, WGoto
<1>27. ASSUME NEW d \in Dev, NEW n \in Size, qiwrite(d, n), kind = "device", UNCHANGED kind
       PROVE  WSleep'
  BY <1>27 DEF qiwrite, Put, Starved, WGoto
<1> QED
  BY <1>1, <1>2, <1>3, <1>4, <1>5, <1>6, <1>7, <1>8, <1>9, <1>10, <1>11, <1>12, <1>13,
     <1>14, <1>15, <1>16, <1>17, <1>18, <1>19, <1>20, <1>21, <1>22, <1>23, <1>24, <1>25,
     <1>26, <1>27
     DEF Next, Readers, Reading, PipeNext, Writing, Closing, DevNext

LEMMA FlowInit == Init => WSleep
  BY DEF Init, qopen, WSleep, None

\* A writer asleep in qbwrite on a queue that is less than half full, or closed, is about
\* to be woken, whatever the sizes of the blocks and the reads, unless the rest of a
\* block has filled the queue again after qbread took its flag.
THEOREM WritersAreWoken == Spec => []WriterWoken
<1>1. IInv /\ WSleep => WriterWoken
<2> SUFFICES ASSUME IInv, WSleep, "flow" \notin lost, wr # NoProc,
                    "closed" \in state \/ qlen < Limit \div 2
             PROVE  cpc \in {"wakerr", "wakewr"} \/ Waking
  BY DEF WriterWoken, FlowRestarts, Waking
<2>1. kind = "pipe" /\ wr \in Writer /\ wpc[wr] = "asleep"
  BY DEF IInv, TypeOK, Kinds, WHold
<2>2. qlen \in Nat
  BY DEF IInv, TypeOK
<2> QED
  BY <2>1, <2>2, HalfLimit DEF WSleep
<1>2. IInv /\ WSleep /\ [Next]_vars => IInv' /\ WSleep'
  BY InvStep, WSleepStep
<1> QED
  BY <1>1, <1>2, InvInit, FlowInit, PTL DEF Spec

=============================================================================
