-------------------------- MODULE VMSched_proofs --------------------------
(***************************************************************************)
(* Proofs that the VM has one owner, that no process is forgotten and that *)
(* no wake-up is lost, for any number of processes and progs.              *)
(***************************************************************************)
EXTENDS VMSched, Naturals, Sequences, TLAPS

\* Lists: what is on one, and that nothing is twice.
In(s, x) == \E i \in 1..Len(s) : s[i] = x
NoDup(s) == \A i, j \in 1..Len(s) : s[i] = s[j] => i = j

\* The list operations stay within sequences of processes.
LEMMA QueueOps ==
  ASSUME NEW S, NEW s \in Seq(S), NEW e \in S
  PROVE  /\ Append(s, e) \in Seq(S)
         /\ <<e>> \o s \in Seq(S)
         /\ s # <<>> => Head(s) \in S /\ Tail(s) \in Seq(S)
         /\ s # <<>> => Append(Tail(s), e) \in Seq(S)
  OBVIOUS

\* Linking a process in at the tail (startup, iyield).
LEMMA InAppend ==
  ASSUME NEW S, NEW s \in Seq(S), NEW e \in S, NoDup(s), ~ In(s, e)
  PROVE  NoDup(Append(s, e)) /\ \A x \in S : In(Append(s, e), x) <=> In(s, x) \/ x = e
  BY DEF In, NoDup

\* Linking a process in at the head (acquire).
LEMMA InPush ==
  ASSUME NEW S, NEW s \in Seq(S), NEW e \in S, NoDup(s), ~ In(s, e)
  PROVE  NoDup(<<e>> \o s) /\ \A x \in S : In(<<e>> \o s, x) <=> In(s, x) \/ x = e
<1> DEFINE t == <<e>> \o s
<1>1. t \in Seq(S) /\ Len(t) = Len(s) + 1 /\ t[1] = e /\ \A i \in 1..Len(s) : t[i + 1] = s[i]
  OBVIOUS
<1>2. \A i \in 2..Len(t) : i - 1 \in 1..Len(s) /\ t[i] = s[i - 1]
  BY <1>1
<1> HIDE DEF t
<1>3. NoDup(t)
<2>1. SUFFICES ASSUME NEW i \in 1..Len(t), NEW j \in 1..Len(t), t[i] = t[j] PROVE i = j
  BY DEF NoDup
<2>2. \A k \in 2..Len(t) : t[k] # e
  BY <1>2 DEF In
<2>3. CASE i = 1 \/ j = 1
  BY <1>1, <2>1, <2>2, <2>3
<2>4. CASE i \in 2..Len(t) /\ j \in 2..Len(t)
<3>1. i - 1 \in 1..Len(s) /\ j - 1 \in 1..Len(s) /\ s[i - 1] = s[j - 1]
  BY <1>2, <2>1, <2>4
<3> QED
  BY <3>1 DEF NoDup
<2> QED
  BY <1>1, <2>3, <2>4
<1>4. ASSUME NEW x \in S PROVE In(t, x) <=> In(s, x) \/ x = e
<2>1. ASSUME In(t, x), x # e PROVE In(s, x)
  BY <1>1, <1>2, <2>1 DEF In
<2>2. ASSUME NEW i \in 1..Len(s), s[i] = x PROVE i + 1 \in 1..Len(t) /\ t[i + 1] = x
  BY <1>1, <2>2
<2>3. In(s, x) => In(t, x)
  BY <2>2 DEF In
<2>4. 1 \in 1..Len(t)
  BY <1>1
<2> QED
  BY <1>1, <2>1, <2>3, <2>4 DEF In
<1> QED
  BY <1>3, <1>4 DEF t

\* Unlinking the head (release, iyield).
LEMMA InTail ==
  ASSUME NEW S, NEW s \in Seq(S), s # <<>>, NoDup(s)
  PROVE  /\ Tail(s) \in Seq(S) /\ Head(s) \in S /\ NoDup(Tail(s))
         /\ In(s, Head(s)) /\ ~ In(Tail(s), Head(s))
         /\ \A x \in S : In(s, x) <=> In(Tail(s), x) \/ x = Head(s)
<1> DEFINE t == Tail(s)
<1>1. t \in Seq(S) /\ Len(t) = Len(s) - 1 /\ Len(s) \in Nat \ {0} /\ Head(s) = s[1]
      /\ \A i \in 1..Len(t) : t[i] = s[i + 1]
  OBVIOUS
<1>2. \A i \in 2..Len(s) : i - 1 \in 1..Len(t) /\ s[i] = t[i - 1]
  BY <1>1
<1>3. Head(s) \in S
  BY <1>1
<1> HIDE DEF t
<1>4. NoDup(t)
  BY <1>1 DEF NoDup
<1>5. In(s, Head(s)) /\ ~ In(t, Head(s))
  BY <1>1 DEF In, NoDup
<1>6. \A x \in S : In(s, x) <=> In(t, x) \/ x = Head(s)
  BY <1>1, <1>2 DEF In
<1> QED
  BY <1>1, <1>3, <1>4, <1>5, <1>6 DEF t

\* The places a process can be at are what the labels say; used to expand PC.
LEMMA TypeInit == Init => TypeOK
  BY ProcAssumption, NProgAssumption DEF Init, TypeOK, Proc, PC, Owner, Parked

\* Every operation of dis.c keeps the scheduler's variables well typed.
LEMMA TypeStep == TypeOK /\ [Next]_vars => TypeOK'
<1> SUFFICES ASSUME TypeOK, [Next]_vars PROVE TypeOK'
  OBVIOUS
<1> USE DEF TypeOK, PC, Owner, Parked, Goto
<1>1. CASE UNCHANGED vars
  BY <1>1 DEF vars
<1>2. ASSUME NEW p \in Proc, startup(p) PROVE TypeOK'
<2>1. vmq' \in Seq(Proc)
  BY <1>2, QueueOps DEF startup
<2> QED
  BY <1>2, <2>1 DEF startup
<1>3. ASSUME NEW p \in Proc, acquire(p) PROVE TypeOK'
<2>1. <<p>> \o vmq \in Seq(Proc)
  BY QueueOps
<2>2. vmq' \in Seq(Proc)
  BY <1>3, <2>1 DEF acquire
<2>3. pc' \in [Proc -> PC]
  BY <1>3 DEF acquire
<2>4. yield' \in Nat /\ nrun' \in Nat /\ idle' \in {0, 1}
  BY <1>3 DEF acquire
<2> QED
  BY <1>3, <2>2, <2>3, <2>4 DEF acquire
<1>4. ASSUME NEW p \in Proc, Wakeup(p) PROVE TypeOK'
  BY <1>4 DEF Wakeup
<1>5. ASSUME NEW p \in Proc, release(p) PROVE TypeOK'
  BY <1>5 DEF release, Proc
<1>6. ASSUME NEW p \in Proc, iyield(p) PROVE TypeOK'
<2>1. vmq # <<>> => Append(Tail(vmq), p) \in Seq(Proc) /\ Head(vmq) \in Proc
  BY QueueOps
<2>2. vmq' \in Seq(Proc)
  BY <1>6, <2>1 DEF iyield
<2>3. pc' \in [Proc -> PC]
  BY <1>6 DEF iyield
<2>4. yield' \in Nat
  BY <1>6 DEF iyield
<2>5. hand' \in [Proc -> Proc \cup {NoProc}]
  BY <1>6, <2>1 DEF iyield
<2> QED
  BY <1>6, <2>2, <2>3, <2>4, <2>5 DEF iyield
<1>7. ASSUME NEW p \in Proc, Handoff(p) PROVE TypeOK'
  BY <1>7 DEF Handoff, Resume
<1>8. ASSUME NEW p \in Proc, Loop(p) \/ NoYield(p) \/ Syscall(p) \/ Return(p) PROVE TypeOK'
  BY <1>8 DEF Loop, NoYield, Syscall, Return
<1>9. ASSUME NEW p \in Proc, Sleep(p) PROVE TypeOK'
  BY <1>9 DEF Sleep
<1>10. ASSUME NEW p \in Proc, xec(p) \/ Ready(p) PROVE TypeOK'
  BY <1>10 DEF xec, Ready
<1> QED
  BY <1>1, <1>2, <1>3, <1>4, <1>5, <1>6, <1>7, <1>8, <1>9, <1>10 DEF Next, Step

\* The scheduler's variables always have their types.
THEOREM TypeCorrect == Spec => []TypeOK
  BY TypeInit, TypeStep, PTL DEF Spec

-----------------------------------------------------------------------------
(* One owner and no lost wake-up support each other: Wakeup makes an owner *)
(* only of a process that already was one, asleep; and a second sleeper    *)
(* would be a second owner.                                                *)

OwnerInv == TypeOK /\ OneOwner /\ NoLostWakeup

LEMMA OwnerInit == Init => OwnerInv
<1> SUFFICES ASSUME Init PROVE OwnerInv
  OBVIOUS
<1>1. TypeOK
  BY TypeInit
<1>2. OneOwner
  BY DEF Init, OneOwner, Owns, Owner, Proc
<1>3. NoLostWakeup
  BY ProcAssumption DEF Init, NoLostWakeup, Proc
<1> QED
  BY <1>1, <1>2, <1>3 DEF OwnerInv

LEMMA OneOwnerStep == OwnerInv /\ [Next]_vars => OneOwner'
<1> SUFFICES ASSUME OwnerInv, [Next]_vars PROVE OneOwner'
  OBVIOUS
<1> USE DEF OneOwner, Owns, Owner, Goto
<1>0. TypeOK /\ OneOwner /\ NoLostWakeup /\ pc \in [Proc -> PC] /\ idle \in {0, 1}
  BY DEF OwnerInv, TypeOK
<1>1. CASE UNCHANGED vars
  BY <1>0, <1>1 DEF vars
<1>2. ASSUME NEW p \in Proc, startup(p) PROVE OneOwner'
  BY <1>0, <1>2 DEF startup
<1>3. ASSUME NEW p \in Proc, acquire(p) PROVE OneOwner'
  BY <1>0, <1>3 DEF acquire
<1>4. ASSUME NEW p \in Proc, Wakeup(p) PROVE OneOwner'
  BY <1>0, <1>4 DEF Wakeup, NoLostWakeup
<1>5. ASSUME NEW p \in Proc, release(p) PROVE OneOwner'
  BY <1>0, <1>5 DEF release, Proc
<1>6. ASSUME NEW p \in Proc, iyield(p) PROVE OneOwner'
  BY <1>0, <1>6 DEF iyield
<1>7. ASSUME NEW p \in Proc, Handoff(p) PROVE OneOwner'
  BY <1>0, <1>7 DEF Handoff, Parked, TypeOK
<1>8. ASSUME NEW p \in Proc, Loop(p) \/ NoYield(p) \/ Syscall(p) \/ Return(p) PROVE OneOwner'
  BY <1>0, <1>8 DEF Loop, NoYield, Syscall, Return
<1>9. ASSUME NEW p \in Proc, Sleep(p) \/ xec(p) \/ Ready(p) PROVE OneOwner'
  BY <1>0, <1>9 DEF Sleep, xec, Ready
<1> QED
  BY <1>1, <1>2, <1>3, <1>4, <1>5, <1>6, <1>7, <1>8, <1>9 DEF Next, Step

LEMMA NoLostWakeupStep == OwnerInv /\ [Next]_vars => NoLostWakeup'
<1> SUFFICES ASSUME OwnerInv, [Next]_vars PROVE NoLostWakeup'
  OBVIOUS
<1> USE DEF NoLostWakeup, Goto
<1>0. OneOwner /\ NoLostWakeup /\ pc \in [Proc -> PC] /\ NoProc \notin Proc /\ yield \in Nat
      /\ irend \in Proc \cup {NoProc}
  BY ProcAssumption DEF OwnerInv, TypeOK
<1>1. CASE UNCHANGED vars
  BY <1>0, <1>1 DEF vars
<1>2. ASSUME NEW p \in Proc, startup(p) PROVE NoLostWakeup'
  BY <1>0, <1>2 DEF startup
<1>3. ASSUME NEW p \in Proc, acquire(p) PROVE NoLostWakeup'
  BY <1>0, <1>3 DEF acquire
<1>4. ASSUME NEW p \in Proc, Wakeup(p) PROVE NoLostWakeup'
  BY <1>0, <1>4 DEF Wakeup, OneOwner, Owns, Owner
<1>5. ASSUME NEW p \in Proc, release(p) PROVE NoLostWakeup'
  BY <1>0, <1>5 DEF release, Proc
<1>6. ASSUME NEW p \in Proc, iyield(p) PROVE NoLostWakeup'
  BY <1>0, <1>6 DEF iyield
<1>7. ASSUME NEW p \in Proc, Handoff(p) PROVE NoLostWakeup'
  BY <1>0, <1>7 DEF Handoff, Parked, Resume
<1>8. ASSUME NEW p \in Proc, Loop(p) \/ NoYield(p) \/ Syscall(p) \/ Return(p) PROVE NoLostWakeup'
  BY <1>0, <1>8 DEF Loop, NoYield, Syscall, Return, OneOwner, Owns, Owner
<1>9. ASSUME NEW p \in Proc, Sleep(p) PROVE NoLostWakeup'
  BY <1>0, <1>9 DEF Sleep, tready, OneOwner, Owns, Owner
<1>10. ASSUME NEW p \in Proc, xec(p) \/ Ready(p) PROVE NoLostWakeup'
  BY <1>0, <1>10 DEF xec, Ready
<1> QED
  BY <1>1, <1>2, <1>3, <1>4, <1>5, <1>6, <1>7, <1>8, <1>9, <1>10 DEF Next, Step

LEMMA OwnerInvariant == Spec => []OwnerInv
<1>1. OwnerInv /\ [Next]_vars => OwnerInv'
  BY TypeStep, OneOwnerStep, NoLostWakeupStep DEF OwnerInv
<1> QED
  BY <1>1, OwnerInit, PTL DEF Spec

\* At most one process is in the VM at any time, whatever processes acquire,
\* release, yield and start up, and none while it is marked idle.
THEOREM MutualExclusion == Spec => []OneOwner
  BY OwnerInvariant, PTL DEF OwnerInv

\* The wake-up of a sleeping owner is never lost, and Sleep never panics on a
\* Rendez that has a sleeper already.
THEOREM WakeupsReachTheOwner == Spec => []NoLostWakeup
  BY OwnerInvariant, PTL DEF OwnerInv

-----------------------------------------------------------------------------
\* NobodyForgotten in the terms of In and NoDup.
LEMMA Restate ==
  NobodyForgotten <=>
  /\ NoDup(vmq)
  /\ \A p \in Proc :
       /\ In(vmq, p) => pc[p] \in Parked \cup {"wake", "handyield"}
       /\ pc[p] \in Parked \cup {"wake"} => (In(vmq, p) <=> \A q \in Proc : hand[q] # p)
       /\ pc[p] = "handyield" => In(vmq, p)
  /\ \A p \in Proc :
       IF pc[p] \in {"handrel", "handyield"}
       THEN hand[p] \in Proc \ {p} /\ pc[hand[p]] \in Parked \cup {"wake"}
       ELSE hand[p] = NoProc
  BY DEF NobodyForgotten, NoDup, In, InQ

LEMMA NobodyForgottenStep == OwnerInv /\ NobodyForgotten /\ [Next]_vars => NobodyForgotten'
<1> SUFFICES ASSUME OwnerInv, NobodyForgotten, [Next]_vars PROVE NobodyForgotten'
  OBVIOUS
<1> DEFINE Q ==
  /\ NoDup(vmq)
  /\ \A p \in Proc :
       /\ In(vmq, p) => pc[p] \in Parked \cup {"wake", "handyield"}
       /\ pc[p] \in Parked \cup {"wake"} => (In(vmq, p) <=> \A q \in Proc : hand[q] # p)
       /\ pc[p] = "handyield" => In(vmq, p)
  /\ \A p \in Proc :
       IF pc[p] \in {"handrel", "handyield"}
       THEN hand[p] \in Proc \ {p} /\ pc[hand[p]] \in Parked \cup {"wake"}
       ELSE hand[p] = NoProc
<1>q. Q /\ (Q' => NobodyForgotten')
  BY Restate DEF NobodyForgotten, NoDup, In, InQ
<1>0. /\ pc \in [Proc -> PC] /\ hand \in [Proc -> Proc \cup {NoProc}] /\ vmq \in Seq(Proc)
      /\ NoProc \notin Proc
      /\ \A p, q \in Proc : pc[p] \in Owner /\ pc[q] \in Owner => p = q
      /\ \A p \in Proc : irend = p <=> pc[p] = "asleep"
  BY ProcAssumption DEF OwnerInv, TypeOK, OneOwner, Owns, NoLostWakeup
<1> USE DEF Goto, Parked, Owner
<1>1. CASE UNCHANGED vars
  BY <1>q, <1>1 DEF vars
<1>2. ASSUME NEW p \in Proc, startup(p) PROVE Q'
<2>1. ~ In(vmq, p)
  BY <1>q, <1>2 DEF startup
<2>2. NoDup(Append(vmq, p)) /\ \A x \in Proc : In(Append(vmq, p), x) <=> In(vmq, x) \/ x = p
  BY <1>0, <1>q, <2>1, InAppend
<2>3. CASE idle = 1
<3>1. vmq' = vmq /\ hand' = hand /\ pc' = [pc EXCEPT ![p] = "loop"] /\ pc[p] = "start"
  BY <1>0, <1>2, <2>3 DEF startup
<3> QED
  BY <1>0, <1>q, <3>1
<2>4. CASE idle = 0
<3>1. /\ hand' = hand /\ pc' = [pc EXCEPT ![p] = "parkstart"] /\ pc[p] = "start"
      /\ vmq' = Append(vmq, p)
  BY <1>2, <2>4 DEF startup
<3>2. NoDup(vmq') /\ \A x \in Proc : In(vmq', x) <=> In(vmq, x) \/ x = p
  BY <2>2, <3>1, Zenon
<3> QED
  BY <1>0, <1>q, <2>1, <3>1, <3>2
<2> QED
  BY <1>2, <2>3, <2>4 DEF startup
<1>3. ASSUME NEW p \in Proc, acquire(p) PROVE Q'
<2>1. ~ In(vmq, p)
  BY <1>q, <1>3 DEF acquire
<2>2. NoDup(<<p>> \o vmq) /\ \A x \in Proc : In(<<p>> \o vmq, x) <=> In(vmq, x) \/ x = p
  BY <1>0, <1>q, <2>1, InPush
<2>3. CASE idle = 1
<3>1. vmq' = vmq /\ hand' = hand /\ pc' = [pc EXCEPT ![p] = "acqd"] /\ pc[p] = "out"
  BY <1>0, <1>3, <2>3 DEF acquire
<3> QED
  BY <1>0, <1>q, <3>1
<2>4. CASE idle = 0
<3>1. /\ hand' = hand /\ pc[p] = "out"
      /\ pc' = [pc EXCEPT ![p] = IF yield = 0 THEN "wake" ELSE "parkacq"]
      /\ vmq' = <<p>> \o vmq
  BY <1>3, <2>4 DEF acquire
<3>2. NoDup(vmq') /\ \A x \in Proc : In(vmq', x) <=> In(vmq, x) \/ x = p
  BY <2>2, <3>1, Zenon
<3> QED
  BY <1>0, <1>q, <2>1, <3>1, <3>2
<2> QED
  BY <1>3, <2>3, <2>4 DEF acquire
<1>4. ASSUME NEW p \in Proc, Wakeup(p) PROVE Q'
  BY <1>0, <1>q, <1>4 DEF Wakeup
<1>5. ASSUME NEW p \in Proc, release(p) PROVE Q'
<2>1. CASE vmq = <<>>
  BY <1>0, <1>q, <1>5, <2>1 DEF release, Proc
<2>2. CASE vmq # <<>>
<3>1. /\ Tail(vmq) \in Seq(Proc) /\ Head(vmq) \in Proc /\ NoDup(Tail(vmq))
      /\ In(vmq, Head(vmq)) /\ ~ In(Tail(vmq), Head(vmq))
      /\ \A x \in Proc : In(vmq, x) <=> In(Tail(vmq), x) \/ x = Head(vmq)
  BY <1>0, <1>q, <2>2, InTail
<3>2. /\ pc[p] \in {"sys", "acqd"} /\ vmq' = Tail(vmq)
      /\ pc' = [pc EXCEPT ![p] = "handrel"] /\ hand' = [hand EXCEPT ![p] = Head(vmq)]
  BY <1>5, <2>2 DEF release
<3>3. NoDup(vmq') /\ \A x \in Proc : In(vmq', x) <=> In(vmq, x) /\ x # Head(vmq)
  BY <3>1, <3>2
<3>4. Head(vmq) # p /\ pc[Head(vmq)] \in Parked \cup {"wake"}
  BY <1>0, <1>q, <3>1, <3>2
<3> QED
  BY <1>0, <1>q, <3>1, <3>2, <3>3, <3>4
<2> QED
  BY <2>1, <2>2
<1>6. ASSUME NEW p \in Proc, iyield(p) PROVE Q'
<2>1. CASE vmq = <<>>
  BY <1>0, <1>q, <1>6, <2>1 DEF iyield
<2>2. CASE vmq # <<>>
<3>1. /\ Tail(vmq) \in Seq(Proc) /\ Head(vmq) \in Proc /\ NoDup(Tail(vmq))
      /\ In(vmq, Head(vmq)) /\ ~ In(Tail(vmq), Head(vmq))
      /\ \A x \in Proc : In(vmq, x) <=> In(Tail(vmq), x) \/ x = Head(vmq)
  BY <1>0, <1>q, <2>2, InTail
<3>2. ~ In(vmq, p)
  BY <1>q, <1>6 DEF iyield
<3>3. /\ NoDup(Append(Tail(vmq), p))
      /\ \A x \in Proc : In(Append(Tail(vmq), p), x) <=> In(Tail(vmq), x) \/ x = p
  BY <3>1, <3>2, InAppend
<3>4. /\ pc[p] = "awake" /\ vmq' = Append(Tail(vmq), p)
      /\ pc' = [pc EXCEPT ![p] = "handyield"] /\ hand' = [hand EXCEPT ![p] = Head(vmq)]
  BY <1>6, <2>2 DEF iyield
<3>5. NoDup(vmq') /\ \A x \in Proc : In(vmq', x) <=> (In(vmq, x) /\ x # Head(vmq)) \/ x = p
  BY <3>1, <3>3, <3>4
<3>6. Head(vmq) # p /\ pc[Head(vmq)] \in Parked \cup {"wake"}
  BY <1>0, <1>q, <3>1, <3>4
<3> QED
  BY <1>0, <1>q, <3>1, <3>2, <3>4, <3>5, <3>6
<2> QED
  BY <2>1, <2>2
<1>7. ASSUME NEW p \in Proc, Handoff(p) PROVE Q'
  BY <1>0, <1>q, <1>7 DEF Handoff, Resume
<1>8. ASSUME NEW p \in Proc, Loop(p) \/ NoYield(p) \/ Syscall(p) \/ Return(p) PROVE Q'
  BY <1>0, <1>q, <1>8 DEF Loop, NoYield, Syscall, Return
<1>9. ASSUME NEW p \in Proc, Sleep(p) \/ xec(p) \/ Ready(p) PROVE Q'
  BY <1>0, <1>q, <1>9 DEF Sleep, xec, Ready
<1> QED
  BY <1>q, <1>1, <1>2, <1>3, <1>4, <1>5, <1>6, <1>7, <1>8, <1>9 DEF Next, Step

\* A process that waits for the VM is queued or is just being woken, exactly one
\* of the two, until it gets the VM; each hand-over meets the process it is for.
THEOREM NoProcessForgotten == Spec => []NobodyForgotten
<1>1. Init => NobodyForgotten
  BY ProcAssumption DEF Init, NobodyForgotten, InQ, Parked, Proc
<1> QED
  BY <1>1, OwnerInvariant, NobodyForgottenStep, PTL DEF Spec

=============================================================================
