--------------------------- MODULE ExportFs_proofs ---------------------------
(***************************************************************************)
(* Proofs about ExportFs, for any number of requests, slaves and fid       *)
(* numbers: each request is answered once, reference counts are right, the *)
(* client and the server agree on the fids, and no request on the list is  *)
(* left to sleeping slaves.                                                *)
(***************************************************************************)
EXTENDS ExportFs, FiniteSetTheorems, TLAPS

(***************************************************************************)
(* The inductive invariant.                                                *)
(***************************************************************************)
\* Where exportproc and a slave can be.
EPlace == {"read", "spawn", "wake", "intr", "shut", "shutintr", "gone"}
Place == {"unborn", "qlock", "qwait", "sleep", "asleep", "take", "link",
          "fcall", "mk", "dev", "put", "putnew", "done", "write"}
\* A slave has a request; it is in the request's call; it has made no Fid yet.
Busy == {"link", "fcall", "mk", "dev", "put", "putnew", "done", "write"}
InCall == {"fcall", "mk", "dev", "put", "putnew", "done"}
Early == {"link", "fcall", "mk"}
\* exportproc is in exshutdown or past it.
Over == {"shut", "shutintr", "gone"}

In(s, x) == \E i \in 1..Len(s) : s[i] = x
NoDup(s) == \A i, j \in 1..Len(s) : s[i] = s[j] => i = j

\* TypeOK, but for the size of the two counts, which RefsExact bounds.
TypeProc == ep \in EPlace /\ fl \in Exq \cup {nil}
TypeReq == nreq \in 0..MaxReq /\ rpc \in [Exq -> Fcall]
TypeList ==
  head \in Exq \cup {nil} /\ tail \in Exq \cup {nil} /\ next \in [Exq -> Exq \cup {nil}]
TypeExq ==
  /\ slave \in [Exq -> Slave \cup {nil}] /\ shut \subseteq Exq
  /\ work \subseteq Exq /\ gone \subseteq Exq
TypeCount == nreply \in [Exq -> 0..2] /\ fsref \in Nat
TypePool == qown \in Slave \cup {nil} /\ qwait \in Seq(Slave)
TypeSlave ==
  sp \in [Slave -> Place] /\ sq \in [Slave -> Exq \cup {nil}] /\ ok \in [Slave -> BOOLEAN]
TypeHold == sf \in [Slave -> Fid \cup {nil}] /\ sn \in [Slave -> Fid \cup {nil}]
TypeTable == tbl \subseteq Fid /\ fno \in [Fid -> Fno]
TypeFid ==
  ref \in [Fid -> Nat] /\ att \in [Fid -> BOOLEAN] /\ ch \in [Fid -> {"nil", "open"}]
TypeClient == client \in [Fno -> {"free", "busy", "ok"}]
PlainType ==
  /\ TypeProc /\ TypeReq /\ TypeList /\ TypeExq /\ TypeCount /\ TypePool /\ TypeSlave
  /\ TypeHold /\ TypeTable /\ TypeFid /\ TypeClient

\* A request that has been read and is not freed; one that no slave has, either.
Live(q) == q \in 1..nreq /\ q \notin gone
Fresh(q) == Live(q) /\ \A s \in Slave : sq[s] # q

\* The list: whatever is linked has no slave and is not freed, is later than what it is
\* linked to, and is linked once.  (tail and its next may be those of a flushed request.)
Lists ==
  /\ head # nil => Fresh(head)
  /\ \A x \in Exq : next[x] # nil => Fresh(next[x]) /\ next[x] > x /\ next[x] # head
  /\ \A x, y \in Exq : next[x] = next[y] /\ next[x] # nil => x = y
  /\ tail # nil => tail <= nreq

\* A request has one slave, which Exq.slave names, from when it is taken until it is freed,
\* and is in work during the call.
Owners ==
  /\ \A s \in Slave : sq[s] # nil <=> sp[s] \in Busy
  /\ \A s \in Slave : sq[s] # nil => Live(sq[s]) /\ slave[sq[s]] = s
  /\ gone \subseteq 1..nreq
Working ==
  \A q \in work : slave[q] \in Slave /\ sq[slave[q]] = q /\ sp[slave[q]] \in InCall

Replies ==
  \A q \in Exq : /\ q \notin gone => nreply[q] = 0
                 /\ nreply[q] <= 1
                 /\ q \in gone /\ ep \notin Over => nreply[q] = 1

\* Which fid numbers a request has.
Asks ==
  \A q \in Exq : Live(q) => /\ rpc[q].new # 0 <=> rpc[q].op \in {"attach", "clone"}
                            /\ rpc[q].fid # 0 <=> rpc[q].op # "attach"

\* Which Fids a slave has, from where it is in its call.
Makes(s) == rpc[sq[s]].op \in {"attach", "clone"}
Places ==
  \A s \in Slave :
     /\ sf[s] # nil => sp[s] \in {"mk", "dev", "put"}
     /\ sp[s] = "mk" => rpc[sq[s]].op = "clone"
     /\ sn[s] # nil => /\ sp[s] \in {"dev", "put", "putnew"} /\ Makes(s)
                       /\ sn[s] = sq[s] /\ sf[s] # sq[s]
     /\ sp[s] = "putnew" => sn[s] # nil
     /\ sp[s] = "dev" /\ Makes(s) => sn[s] # nil

\* The Fid that a request is to make is untouched until it is made.
Unused ==
  \A q \in Exq : q \notin gone /\ (\A s \in Slave : sq[s] = q => sp[s] \in Early)
                   => q \notin tbl /\ ~att[q] /\ ch[q] = "nil" /\ Holders(q) = {}

\* A live request has to itself the numbers that it is to make or to clunk.
Claims(q, n) == n = rpc[q].new \/ (n = rpc[q].fid /\ rpc[q].op \in {"clunk", "remove"})
Claimed ==
  \A q \in Exq, n \in Fno : Live(q) /\ Claims(q, n) =>
     client[n] = "busy" /\ \A x \in Exq : Live(x) /\ Claims(x, n) => x = q

\* The numbers of Fids: those of the table are distinct, those a slave has are what its
\* request says, one that was made without error is as the client will take it to be.
Ready(o, n) == o \in tbl /\ fno[o] = n /\ att[o] /\ ch[o] = "open"
Distinct == \A o, x \in tbl : fno[o] = fno[x] => o = x
Named ==
  \A s \in Slave :
     /\ sf[s] # nil => fno[sf[s]] = rpc[sq[s]].fid
     /\ sn[s] # nil => fno[sn[s]] = rpc[sq[s]].new /\ att[sn[s]]
Made ==
  \A s \in Slave : sp[s] \in {"put", "putnew", "done", "write"} /\ Makes(s) /\ ok[s]
                     => Ready(sq[s], rpc[sq[s]].new)
Agreed == ep # "gone" => \A n \in Fno : client[n] = "ok" => \E o \in Fid : Ready(o, n)

\* exq.qwait: its holder sleeps or takes, the others wait in it once.
Locks ==
  /\ \A s \in Slave : sp[s] \in {"sleep", "asleep", "take", "link"} <=> qown = s
  /\ \A s \in Slave : sp[s] = "qwait" <=> In(qwait, s)
  /\ NoDup(qwait)
  /\ qown = nil => qwait = <<>>

\* Who sleeps while something is listed is about to be woken, and there are slaves.
Wakes ==
  /\ head # nil /\ (\E s \in Slave : sp[s] = "asleep") => ep \in {"spawn", "wake"}
  /\ nreq > 0 /\ ep # "spawn" => \E s \in Slave : sp[s] # "unborn"
  /\ ep \in Over => head = nil

IInv ==
  /\ PlainType /\ Lists /\ Owners /\ Working /\ Replies /\ Asks /\ Places /\ Unused
  /\ RefsExact /\ Claimed /\ Distinct /\ Named /\ Made /\ Agreed /\ Locks /\ Wakes

-----------------------------------------------------------------------------
\* The numbers of requests and Fids are natural numbers, nil is none.
LEMMA Numbers ==
  /\ MaxReq \in Nat /\ NFid \in Nat /\ 1 \in Fno /\ nil \notin Slave
  /\ Exq \subseteq Nat /\ Exq \subseteq Fid /\ Fno \subseteq Nat /\ Fid \subseteq Nat
  /\ nil \notin Exq /\ nil \notin Fid /\ 0 \notin Exq /\ 0 \notin Fno /\ 0 \in Fid
  /\ \A n \in 0..MaxReq : 1..n \subseteq Exq
BY ExportAssumption DEF Exq, Fid, Fno

\* What is listed has been read, is not freed, and has no slave.
LEMMA ListedFresh ==
  ASSUME PlainType, Lists
  PROVE  Listed \subseteq Exq /\ \A q \in Listed : Fresh(q)
<1> DEFINE S == {x \in Exq : Fresh(x)}
<1>1. S \in SUBSET Exq
  OBVIOUS
<1>2. head \in S \cup {nil}
  BY DEF PlainType, TypeList, Lists
<1>3. \A x \in S : next[x] \in S \cup {nil}
  BY DEF PlainType, TypeList, Lists
<1> QED
  BY <1>1, <1>2, <1>3 DEF Listed

\* What is linked is linked once, to something earlier, and is for a slave to take: a
\* request is linked behind tail, which is earlier, and Take and Unlink undo the only link.
LEMMA ListsStep == IInv /\ [Next]_vars => Lists'
<1> SUFFICES ASSUME IInv, [Next]_vars PROVE Lists'
  OBVIOUS
<1> USE Numbers DEF IInv, PlainType, TypeList, TypeReq, TypeSlave, TypeExq, Lists, Owners,
   Fresh, Live
<1>0. Listed \subseteq Exq /\ \A q \in Listed : Fresh(q)
  BY ListedFresh
<1>1. ASSUME NEW q \in 1..nreq, FlushQueued(q) PROVE Lists'
  BY <1>1, <1>0 DEF FlushQueued, Unlink, Answered, proc, pool, loc, fids
<1>2. ASSUME exshutdown PROVE Lists'
  BY <1>2, <1>0 DEF exshutdown, EGoto, pool, loc, fids
<1>3. ASSUME NEW c \in Calls, Request(c) PROVE Lists'
  BY <1>3 DEF Request, EGoto, exqs, pool, loc
<1>4. ASSUME NEW s \in Slave, Take(s) PROVE Lists'
  BY <1>4 DEF Take, SGoto, proc, pool
<1>5. ASSUME NEW s \in Slave, Reply(s) PROVE Lists'
  BY <1>5 DEF Reply, SGoto, proc, list, pool
<1>6. ASSUME Spawn \/ WakeSlave \/ FlushIntr \/ ShutIntr \/ ShutDone PROVE Lists'
  BY <1>6 DEF Spawn, EGoto, SGoto, list, exqs, pool, loc, WakeSlave, FlushIntr, Interrupt,
     ShutIntr, ShutDone
<1>7. ASSUME NEW q \in 1..nreq, FlushServed(q) PROVE Lists'
  BY <1>7 DEF FlushServed, EGoto, list, exqs, pool, loc
<1>8. ASSUME NEW q \in Exq, ShutNext(q) PROVE Lists'
  BY <1>8 DEF ShutNext, EGoto, list, pool, loc
<1>9. ASSUME NEW s \in Slave, QLock(s) \/ SleepWork(s) \/ TakeNone(s) \/ LinkWork(s)
             \/ GetFid(s) \/ NoFid(s) \/ Exattach(s) \/ Exclone(s) \/ DevDone(s)
             \/ DevFails(s) \/ PutFid(s) \/ PutNew(s) \/ Unwork(s) PROVE Lists'
  BY <1>9 DEF QLock, SGoto, proc, list, exqs, loc, SleepWork, exwork, pool, TakeNone,
     qunlock, LinkWork, GetFid, Numbered, Exgetfid, NoFid, Exattach, Exmkfid, Exclone,
     DevDone, DevFails, PutFid, Exputfid, PutNew, Unwork
<1>10. CASE UNCHANGED vars
  BY <1>10 DEF vars, proc, list, exqs, pool, loc, fids
<1> QED
  BY <1>1, <1>2, <1>3, <1>4, <1>5, <1>6, <1>7, <1>8, <1>9, <1>10 DEF Next, Exportproc,
     Exslave, FlushMissed

\* qunlock hands the lock to the first who waits, if one does.
HandedOver(s, to) ==
  /\ sp' \in [Slave -> Place] /\ qown' \in Slave \cup {nil} /\ qwait' \in Seq(Slave)
  /\ qown' # s /\ sp'[s] = to
  /\ qown' # nil => sp[qown'] = "qwait" /\ sp'[qown'] = "sleep"
  /\ \A t \in Slave : t # s /\ t # qown' => sp'[t] = sp[t]
  /\ \A t \in Slave : In(qwait', t) <=> In(qwait, t) /\ t # qown'
  /\ NoDup(qwait') /\ (qown' = nil => qwait' = <<>>)
\* That is what qunlock does.
LEMMA HandOver ==
  ASSUME PlainType, Locks, NEW s \in Slave, qown = s, NEW to \in Place, qunlock(s, to)
  PROVE  HandedOver(s, to)
<1> USE DEF PlainType, TypePool, TypeSlave, HandedOver
<1>1. CASE qwait = <<>>
  BY <1>1, Numbers DEF qunlock, Locks, NoDup, In
<1>2. CASE qwait # <<>>
  <2> DEFINE h == Head(qwait)
  <2>1. h \in Slave /\ h = qwait[1] /\ Len(qwait) \in Nat /\ Len(qwait) >= 1
    BY <1>2
  <2>2. In(qwait, h)
    BY <2>1 DEF In
  <2>3. sp[h] = "qwait" /\ sp[s] # "qwait"
    BY <2>1, <2>2 DEF Locks
  <2>4. qown' = h /\ qwait' = Tail(qwait) /\ sp' = [sp EXCEPT ![s] = to, ![h] = "sleep"]
    BY <1>2 DEF qunlock
  <2>5. /\ Tail(qwait) \in Seq(Slave) /\ Len(Tail(qwait)) = Len(qwait) - 1
        /\ \A i \in 1..Len(Tail(qwait)) : Tail(qwait)[i] = qwait[i + 1]
    BY <1>2
  <2>6. NoDup(qwait')
    BY <2>1, <2>4, <2>5 DEF NoDup, Locks
  <2>7. \A t \in Slave : In(qwait', t) => In(qwait, t) /\ t # h
    BY <2>1, <2>4, <2>5 DEF In, NoDup, Locks
  <2>8. ASSUME NEW t \in Slave, In(qwait, t), t # h PROVE In(qwait', t)
    <3>1. PICK i \in 1..Len(qwait) : qwait[i] = t
      BY <2>8 DEF In
    <3>2. i - 1 \in 1..Len(Tail(qwait)) /\ Tail(qwait)[i - 1] = t
      BY <2>1, <2>5, <2>8, <3>1
    <3> QED
      BY <2>4, <3>2 DEF In
  <2>9. h # nil /\ s # h
    BY <2>1, <2>3, Numbers
  <2> HIDE DEF h
  <2>10. sp' \in [Slave -> Place] /\ sp'[s] = to /\ sp'[h] = "sleep"
         /\ \A t \in Slave : t # s /\ t # h => sp'[t] = sp[t]
    BY <2>1, <2>4, <2>9 DEF Place
  <2> QED
    BY <2>1, <2>3, <2>4, <2>5, <2>6, <2>7, <2>8, <2>9, <2>10
<1> QED
  BY <1>1, <1>2

\* An interrupt makes the call of a slave fail, whose ever it is, or does nothing.
Struck ==
  /\ sp' \in [Slave -> Place] /\ ok' \in [Slave -> BOOLEAN]
  /\ \A t \in Slave : \/ sp'[t] = sp[t] /\ ok'[t] = ok[t]
                      \/ sp[t] = "dev" /\ sp'[t] = "put" /\ ok'[t] = FALSE
  /\ ep' \in {"read", "shut"} /\ fl' = nil
  /\ \/ ep = "intr" /\ ep' = "read"
     \/ ep = "shutintr" /\ ep' = "shut"
  /\ UNCHANGED <<nreq, rpc, head, tail, next, slave, shut, work, gone, nreply, fsref, qown,
                 qwait, sq, sf, sn, tbl, fno, ref, att, ch, client>>
\* That is what FlushIntr and ShutIntr do.
LEMMA Interrupted ==
  ASSUME PlainType, FlushIntr \/ ShutIntr
  PROVE  Struck
<1>1. /\ UNCHANGED <<nreq, rpc, list, exqs, fsref, pool, sq, sf, sn, fids, client>>
      /\ fl' = nil
      /\ \/ ep = "intr" /\ ep' = "read"
         \/ ep = "shutintr" /\ ep' = "shut"
  BY DEF FlushIntr, ShutIntr, Interrupt
<1>2. CASE UNCHANGED <<sp, ok>>
  BY <1>1, <1>2 DEF Struck, PlainType, TypeSlave, list, exqs, pool, fids
<1>3. ASSUME NEW s \in Slave, SGoto(s, "dev", "put"), ok' = [ok EXCEPT ![s] = FALSE]
      PROVE  Struck
  <2>1. sp' \in [Slave -> Place] /\ ok' \in [Slave -> BOOLEAN]
    BY <1>3 DEF SGoto, PlainType, TypeSlave, Place
  <2>2. \A t \in Slave : \/ sp'[t] = sp[t] /\ ok'[t] = ok[t]
                         \/ sp[t] = "dev" /\ sp'[t] = "put" /\ ok'[t] = FALSE
    BY <1>3 DEF SGoto, PlainType, TypeSlave
  <2> QED
    BY <1>1, <2>1, <2>2 DEF Struck, list, exqs, pool, fids
<1> QED
  BY <1>2, <1>3 DEF FlushIntr, ShutIntr, Interrupt

\* A slave has its request to itself until it frees it.
LEMMA OwnersStep == IInv /\ [Next]_vars => Owners'
<1> SUFFICES ASSUME IInv, [Next]_vars PROVE Owners'
  OBVIOUS
<1> USE Numbers DEF IInv, PlainType, TypeSlave, TypeExq, Owners, Live, Busy
<1>0. Listed \subseteq Exq /\ \A q \in Listed : Fresh(q)
  BY ListedFresh
<1>1. ASSUME NEW q \in 1..nreq, FlushQueued(q) PROVE Owners'
  BY <1>1, <1>0 DEF FlushQueued, Unlink, Answered, proc, pool, loc, fids, Fresh
<1>2. ASSUME exshutdown PROVE Owners'
  BY <1>2, <1>0 DEF exshutdown, EGoto, pool, loc, fids, Fresh
<1>3. ASSUME NEW s \in Slave, Take(s) PROVE Owners'
  BY <1>3 DEF Take, SGoto, proc, pool, fids, TypeList, Lists, Fresh
<1>4. ASSUME FlushIntr \/ ShutIntr PROVE Owners'
  <2>1. Struck
    BY <1>4, Interrupted
  <2> QED
    BY <2>1 DEF Struck
<1>5. ASSUME NEW c \in Calls, Request(c) PROVE Owners'
  BY <1>5 DEF Request, EGoto, Asked, exqs, pool, loc, fids, TypeReq
<1>6. ASSUME NEW s \in Slave, TakeNone(s) PROVE Owners'
  <2>1. qown = s /\ qunlock(s, "qlock") /\ "qlock" \in Place /\ sp[s] = "take"
    BY <1>6 DEF TakeNone, Locks, Place
  <2>2. HandedOver(s, "qlock")
    BY <2>1, HandOver
  <2>3. /\ UNCHANGED <<fl, ep, nreq, rpc, list, slave, shut, gone, nreply, fsref, loc, fids,
                       client>>
        /\ work' = work
    BY <1>6 DEF TakeNone, LinkWork, proc, exqs
  <2>4. \A t \in Slave : sp'[t] \in Busy <=> sp[t] \in Busy
    BY <2>1, <2>2 DEF HandedOver
  <2>5. UNCHANGED <<sq, gone, nreq, slave>>
    BY <2>3 DEF loc
  <2> QED
    BY <2>4, <2>5
<1>7. ASSUME NEW s \in Slave, LinkWork(s) PROVE Owners'
  <2>1. qown = s /\ qunlock(s, "fcall") /\ "fcall" \in Place /\ sp[s] = "link"
    BY <1>7 DEF LinkWork, Locks, Place
  <2>2. HandedOver(s, "fcall")
    BY <2>1, HandOver
  <2>3. /\ UNCHANGED <<fl, ep, nreq, rpc, list, slave, shut, gone, nreply, fsref, loc, fids,
                       client>>
        /\ work' = work \cup {sq[s]}
    BY <1>7 DEF TakeNone, LinkWork, proc, exqs
  <2>4. \A t \in Slave : sp'[t] \in Busy <=> sp[t] \in Busy
    BY <2>1, <2>2 DEF HandedOver
  <2>5. UNCHANGED <<sq, gone, nreq, slave>>
    BY <2>3 DEF loc
  <2> QED
    BY <2>4, <2>5
<1>8. ASSUME Spawn PROVE Owners'
  BY <1>8 DEF Spawn, EGoto, SGoto, list, exqs, pool, loc
<1>9. ASSUME WakeSlave PROVE Owners'
  BY <1>9 DEF WakeSlave, EGoto, list, exqs, pool, loc
<1>10. ASSUME NEW s \in Slave, QLock(s) PROVE Owners'
  BY <1>10 DEF QLock, SGoto, proc, list, exqs, loc
<1>11. ASSUME NEW s \in Slave, SleepWork(s) PROVE Owners'
  BY <1>11 DEF SleepWork, SGoto, exwork, proc, list, exqs, pool, loc
<1>12. ASSUME NEW s \in Slave, GetFid(s) PROVE Owners'
  BY <1>12 DEF GetFid, Numbered, Exgetfid, SGoto, proc, list, exqs, pool
<1>13. ASSUME NEW s \in Slave, NoFid(s) PROVE Owners'
  BY <1>13 DEF NoFid, SGoto, Numbered, proc, list, exqs, pool
<1>14. ASSUME NEW s \in Slave, Exattach(s) PROVE Owners'
  BY <1>14 DEF Exattach, Exmkfid, Numbered, SGoto, proc, list, exqs, pool
<1>15. ASSUME NEW s \in Slave, Exclone(s) PROVE Owners'
  BY <1>15 DEF Exclone, Exmkfid, Numbered, SGoto, proc, list, exqs, pool
<1>16. ASSUME NEW s \in Slave, DevDone(s) PROVE Owners'
  BY <1>16 DEF DevDone, SGoto, proc, list, exqs, pool, loc
<1>17. ASSUME NEW s \in Slave, DevFails(s) PROVE Owners'
  BY <1>17 DEF DevFails, SGoto, proc, list, exqs, pool
<1>18. ASSUME NEW s \in Slave, PutFid(s) PROVE Owners'
  BY <1>18 DEF PutFid, SGoto, Exputfid, proc, list, exqs, pool
<1>19. ASSUME NEW s \in Slave, PutNew(s) PROVE Owners'
  BY <1>19 DEF PutNew, SGoto, Exputfid, proc, list, exqs, pool
<1>20. ASSUME NEW s \in Slave, Unwork(s) PROVE Owners'
  BY <1>20 DEF Unwork, SGoto, proc, list, pool, loc
<1>21. ASSUME NEW s \in Slave, Reply(s) PROVE Owners'
  <2>1. sp[s] = "write" /\ sp' = [sp EXCEPT ![s] = "qlock"] /\ sq' = [sq EXCEPT ![s] = nil]
    BY <1>21 DEF Reply, SGoto
  <2>2. sq[s] \in Exq /\ Live(sq[s]) /\ slave[sq[s]] = s
    BY <2>1
  <2>3. gone' = gone \cup {sq[s]} /\ nreq' = nreq
        /\ \A q \in Exq : q # sq[s] => slave'[q] = slave[q]
    BY <1>21, <2>2 DEF Reply
  <2>4. ASSUME NEW t \in Slave, t # s
        PROVE  sp'[t] = sp[t] /\ sq'[t] = sq[t] /\ (sq[t] # nil => sq[t] # sq[s])
    BY <2>1, <2>2, <2>4
  <2>5. sq'[s] = nil /\ sp'[s] = "qlock"
    BY <2>1
  <2>6. ASSUME NEW t \in Slave, sq'[t] # nil PROVE Live(sq[t])' /\ slave'[sq'[t]] = t
    BY <2>3, <2>4, <2>5, <2>6
  <2>7. \A t \in Slave : sq'[t] # nil <=> sp'[t] \in Busy
    BY <2>4, <2>5
  <2>8. gone' \subseteq 1..nreq'
    BY <2>2, <2>3
  <2> HIDE DEF IInv, PlainType, Live, Busy
  <2> QED
    BY <2>6, <2>7, <2>8 DEF Owners
<1>22. ASSUME ShutDone PROVE Owners'
  BY <1>22 DEF ShutDone, EGoto, list, exqs, pool, loc
<1>23. ASSUME NEW q \in 1..nreq, FlushServed(q) PROVE Owners'
  BY <1>23 DEF FlushServed, EGoto, list, exqs, pool, loc
<1>24. ASSUME NEW q \in Exq, ShutNext(q) PROVE Owners'
  BY <1>24 DEF ShutNext, EGoto, list, pool, loc
<1>25. CASE UNCHANGED vars
  BY <1>25 DEF vars, proc, list, exqs, pool, loc, fids
<1> QED
  BY <1>1, <1>2, <1>3, <1>4, <1>5, <1>6, <1>7, <1>8, <1>9, <1>10, <1>11, <1>12, <1>13, <1>14,
     <1>15, <1>16, <1>17, <1>18, <1>19, <1>20, <1>21, <1>22, <1>23, <1>24, <1>25 DEF Next,
     Exportproc, Exslave, FlushMissed

\* What is in work is in a call of its slave; and exportproc interrupts a slave.
LEMMA WorkingStep == IInv /\ [Next]_vars => Working'
<1> SUFFICES ASSUME IInv, [Next]_vars PROVE Working'
  OBVIOUS
<1> USE Numbers DEF IInv, PlainType, TypeSlave, TypeExq, Owners, Working, Live, Busy, InCall
<1>1. ASSUME NEW s \in Slave, TakeNone(s) PROVE Working'
  <2>1. qown = s /\ qunlock(s, "qlock") /\ "qlock" \in Place /\ sp[s] = "take"
    BY <1>1 DEF TakeNone, Locks, Place
  <2>2. HandedOver(s, "qlock")
    BY <2>1, HandOver
  <2>3. /\ UNCHANGED <<fl, ep, nreq, rpc, list, slave, shut, gone, nreply, fsref, loc, fids,
                       client>>
        /\ work' = work
    BY <1>1 DEF TakeNone, LinkWork, proc, exqs
  <2> QED
    BY <2>1, <2>2, <2>3 DEF HandedOver, list, loc, fids
<1>2. ASSUME NEW s \in Slave, LinkWork(s) PROVE Working'
  <2>1. qown = s /\ qunlock(s, "fcall") /\ "fcall" \in Place /\ sp[s] = "link"
    BY <1>2 DEF LinkWork, Locks, Place
  <2>2. HandedOver(s, "fcall")
    BY <2>1, HandOver
  <2>3. /\ UNCHANGED <<fl, ep, nreq, rpc, list, slave, shut, gone, nreply, fsref, loc, fids,
                       client>>
        /\ work' = work \cup {sq[s]}
    BY <1>2 DEF TakeNone, LinkWork, proc, exqs
  <2> QED
    BY <2>1, <2>2, <2>3 DEF HandedOver, list, loc, fids
<1>3. ASSUME NEW s \in Slave, Take(s) PROVE Working'
  BY <1>3 DEF Take, SGoto, proc, pool, fids, TypeList, Lists, Fresh
<1>4. ASSUME NEW c \in Calls, Request(c) PROVE Working'
  BY <1>4 DEF Request, EGoto, exqs, pool, loc
<1>5. ASSUME Spawn PROVE Working'
  BY <1>5 DEF Spawn, EGoto, SGoto, list, exqs, pool, loc
<1>6. ASSUME WakeSlave PROVE Working'
  BY <1>6 DEF WakeSlave, EGoto, list, exqs, pool, loc
<1>7. ASSUME NEW q \in 1..nreq, FlushServed(q) PROVE Working'
  BY <1>7 DEF FlushServed, EGoto, list, exqs, pool, loc
<1>8. ASSUME FlushIntr PROVE Working'
  <2>1. Struck
    BY <1>8, Interrupted
  <2>2. \A t \in Slave : sp[t] \in InCall => sp'[t] \in InCall
    BY <2>1 DEF Struck
  <2>3. work' = work /\ slave' = slave /\ sq' = sq
    BY <2>1 DEF Struck
  <2> QED
    BY <2>2, <2>3
<1>9. ASSUME exshutdown PROVE Working'
  BY <1>9 DEF exshutdown, EGoto, pool, loc
<1>10. ASSUME NEW q \in Exq, ShutNext(q) PROVE Working'
  BY <1>10 DEF ShutNext, EGoto, list, pool, loc
<1>11. ASSUME ShutIntr PROVE Working'
  <2>1. Struck
    BY <1>11, Interrupted
  <2>2. \A t \in Slave : sp[t] \in InCall => sp'[t] \in InCall
    BY <2>1 DEF Struck
  <2>3. work' = work /\ slave' = slave /\ sq' = sq
    BY <2>1 DEF Struck
  <2> QED
    BY <2>2, <2>3
<1>12. ASSUME ShutDone PROVE Working'
  BY <1>12 DEF ShutDone, EGoto, list, exqs, pool, loc
<1>13. ASSUME NEW s \in Slave, QLock(s) PROVE Working'
  BY <1>13 DEF QLock, SGoto, proc, list, exqs, loc
<1>14. ASSUME NEW s \in Slave, SleepWork(s) PROVE Working'
  BY <1>14 DEF SleepWork, SGoto, exwork, proc, list, exqs, pool, loc
<1>15. ASSUME NEW s \in Slave, GetFid(s) PROVE Working'
  BY <1>15 DEF GetFid, Numbered, Exgetfid, SGoto, proc, list, exqs, pool
<1>16. ASSUME NEW s \in Slave, NoFid(s) PROVE Working'
  BY <1>16 DEF NoFid, SGoto, Numbered, proc, list, exqs, pool
<1>17. ASSUME NEW s \in Slave, Exattach(s) PROVE Working'
  BY <1>17 DEF Exattach, Exmkfid, Numbered, SGoto, proc, list, exqs, pool
<1>18. ASSUME NEW s \in Slave, Exclone(s) PROVE Working'
  BY <1>18 DEF Exclone, Exmkfid, Numbered, SGoto, proc, list, exqs, pool
<1>19. ASSUME NEW s \in Slave, DevDone(s) PROVE Working'
  BY <1>19 DEF DevDone, SGoto, proc, list, exqs, pool, loc
<1>20. ASSUME NEW s \in Slave, DevFails(s) PROVE Working'
  BY <1>20 DEF DevFails, SGoto, proc, list, exqs, pool
<1>21. ASSUME NEW s \in Slave, PutFid(s) PROVE Working'
  BY <1>21 DEF PutFid, SGoto, Exputfid, proc, list, exqs, pool
<1>22. ASSUME NEW s \in Slave, PutNew(s) PROVE Working'
  BY <1>22 DEF PutNew, SGoto, Exputfid, proc, list, exqs, pool
<1>23. ASSUME NEW s \in Slave, Unwork(s) PROVE Working'
  BY <1>23 DEF Unwork, SGoto, proc, list, pool, loc
<1>24. ASSUME NEW s \in Slave, Reply(s) PROVE Working'
  BY <1>24 DEF Reply, SGoto, proc, list, pool
<1>25. ASSUME NEW q \in 1..nreq, FlushQueued(q) PROVE Working'
  BY <1>25 DEF FlushQueued, Unlink, proc, pool, loc
<1>26. CASE UNCHANGED vars
  BY <1>26 DEF vars, proc, list, exqs, pool, loc, fids
<1> QED
  BY <1>1, <1>2, <1>3, <1>4, <1>5, <1>6, <1>7, <1>8, <1>9, <1>10, <1>11, <1>12, <1>13, <1>14,
     <1>15, <1>16, <1>17, <1>18, <1>19, <1>20, <1>21, <1>22, <1>23, <1>24, <1>25, <1>26 DEF
     Next, Exportproc, Exslave, FlushMissed

\* A request is answered by whoever frees it.
LEMMA RepliesStep == IInv /\ [Next]_vars => Replies'
<1> SUFFICES ASSUME IInv, [Next]_vars PROVE Replies'
  OBVIOUS
<1> USE Numbers DEF IInv, PlainType, TypeSlave, TypeExq, TypeCount, Owners, Replies, Fresh,
   Live, Busy, Over
<1>0. Listed \subseteq Exq /\ \A q \in Listed : Fresh(q)
  BY ListedFresh
<1>1. ASSUME NEW q \in 1..nreq, FlushQueued(q) PROVE Replies'
  BY <1>1, <1>0 DEF FlushQueued, Unlink, Answered, proc, pool, loc, fids
<1>2. ASSUME exshutdown PROVE Replies'
  BY <1>2, <1>0 DEF exshutdown, EGoto, pool, loc, fids
<1>3. ASSUME NEW c \in Calls, Request(c) PROVE Replies'
  BY <1>3 DEF Request, EGoto, exqs, pool, loc
<1>4. ASSUME Spawn PROVE Replies'
  BY <1>4 DEF Spawn, EGoto, SGoto, list, exqs, pool, loc
<1>5. ASSUME WakeSlave PROVE Replies'
  BY <1>5 DEF WakeSlave, EGoto, list, exqs, pool, loc
<1>6. ASSUME NEW q \in 1..nreq, FlushServed(q) PROVE Replies'
  BY <1>6 DEF FlushServed, EGoto, list, exqs, pool, loc
<1>7. ASSUME FlushIntr PROVE Replies'
  BY <1>7 DEF FlushIntr, Interrupt, SGoto, list, exqs, pool
<1>8. ASSUME NEW q \in Exq, ShutNext(q) PROVE Replies'
  BY <1>8 DEF ShutNext, EGoto, list, pool, loc
<1>9. ASSUME ShutIntr PROVE Replies'
  BY <1>9 DEF ShutIntr, Interrupt, SGoto, list, exqs, pool
<1>10. ASSUME ShutDone PROVE Replies'
  BY <1>10 DEF ShutDone, EGoto, list, exqs, pool, loc
<1>11. ASSUME NEW s \in Slave, Reply(s) PROVE Replies'
  BY <1>11 DEF Reply, SGoto, proc, list, pool
<1>12. ASSUME NEW s \in Slave, QLock(s) \/ SleepWork(s) \/ Take(s) \/ TakeNone(s)
             \/ LinkWork(s) \/ GetFid(s) \/ NoFid(s) \/ Exattach(s) \/ Exclone(s)
             \/ DevDone(s) \/ DevFails(s) \/ PutFid(s) \/ PutNew(s) \/ Unwork(s)
             PROVE Replies'
  BY <1>12 DEF QLock, SGoto, proc, list, exqs, loc, SleepWork, exwork, pool, Take, TakeNone,
     qunlock, LinkWork, GetFid, Numbered, Exgetfid, NoFid, Exattach, Exmkfid, Exclone,
     DevDone, DevFails, PutFid, Exputfid, PutNew, Unwork
<1>13. CASE UNCHANGED vars
  BY <1>13 DEF vars, proc, list, exqs, pool, loc, fids
<1> QED
  BY <1>1, <1>2, <1>3, <1>4, <1>5, <1>6, <1>7, <1>8, <1>9, <1>10, <1>11, <1>12, <1>13 DEF
     Next, Exportproc, Exslave, FlushMissed
-----------------------------------------------------------------------------
(***************************************************************************)
(* exq.qwait, and that what is listed is taken.                            *)
(***************************************************************************)
\* Who waits is put at the end of the queue.
LEMMA Waiting ==
  ASSUME NEW w \in Seq(Slave), NEW s \in Slave, NoDup(w), ~ In(w, s)
  PROVE  /\ Append(w, s) \in Seq(Slave) /\ NoDup(Append(w, s))
         /\ \A t \in Slave : In(Append(w, s), t) <=> In(w, t) \/ t = s
<1>1. /\ Append(w, s) \in Seq(Slave) /\ Len(Append(w, s)) = Len(w) + 1 /\ Len(w) \in Nat
      /\ \A i \in 1..Len(w) : Append(w, s)[i] = w[i]
      /\ Append(w, s)[Len(w) + 1] = s
  OBVIOUS
<1>2. NoDup(Append(w, s))
  BY <1>1 DEF NoDup, In
<1>3. ASSUME NEW t \in Slave, In(Append(w, s), t) PROVE In(w, t) \/ t = s
  BY <1>1, <1>3 DEF In
<1>4. ASSUME NEW t \in Slave, In(w, t) PROVE In(Append(w, s), t)
  BY <1>1, <1>4 DEF In
<1>5. In(Append(w, s), s)
  BY <1>1 DEF In
<1> QED
  BY <1>1, <1>2, <1>3, <1>4, <1>5

\* The lock has one holder, and it is not free while somebody waits.
LEMMA LocksStep == IInv /\ [Next]_vars => Locks'
<1> SUFFICES ASSUME IInv, [Next]_vars PROVE Locks'
  OBVIOUS
<1> USE Numbers DEF IInv, PlainType, TypeSlave, TypePool, Locks
<1>1. ASSUME FlushIntr \/ ShutIntr PROVE Locks'
  <2>1. Struck
    BY <1>1, Interrupted
  <2> QED
    BY <2>1 DEF Struck
<1>2. ASSUME NEW s \in Slave, QLock(s) PROVE Locks'
  <2>1. CASE qown = nil
    BY <1>2, <2>1 DEF QLock, SGoto
  <2>2. CASE qown # nil
    <3>1. sp[s] = "qlock" /\ sp' = [sp EXCEPT ![s] = "qwait"] /\ qwait' = Append(qwait, s)
          /\ qown' = qown
      BY <1>2, <2>2 DEF QLock, SGoto
    <3>2. ~ In(qwait, s)
      BY <3>1
    <3>3. NoDup(qwait') /\ \A t \in Slave : In(qwait', t) <=> In(qwait, t) \/ t = s
      BY <3>1, <3>2, Waiting
    <3> QED
      BY <2>2, <3>1, <3>3
  <2> QED
    BY <2>1, <2>2
<1>3. ASSUME NEW s \in Slave, TakeNone(s) PROVE Locks'
  <2>1. qown = s /\ qunlock(s, "qlock") /\ "qlock" \in Place /\ sp[s] = "take"
    BY <1>3 DEF TakeNone, Locks, Place
  <2>2. HandedOver(s, "qlock")
    BY <2>1, HandOver
  <2>3. /\ UNCHANGED <<fl, ep, nreq, rpc, list, slave, shut, gone, nreply, fsref, loc, fids,
                       client>>
        /\ work' = work
    BY <1>3 DEF TakeNone, LinkWork, proc, exqs
  <2> QED
    BY <2>1, <2>2, <2>3 DEF HandedOver, list, loc, fids
<1>4. ASSUME NEW s \in Slave, LinkWork(s) PROVE Locks'
  <2>1. qown = s /\ qunlock(s, "fcall") /\ "fcall" \in Place /\ sp[s] = "link"
    BY <1>4 DEF LinkWork, Locks, Place
  <2>2. HandedOver(s, "fcall")
    BY <2>1, HandOver
  <2>3. /\ UNCHANGED <<fl, ep, nreq, rpc, list, slave, shut, gone, nreply, fsref, loc, fids,
                       client>>
        /\ work' = work \cup {sq[s]}
    BY <1>4 DEF TakeNone, LinkWork, proc, exqs
  <2> QED
    BY <2>1, <2>2, <2>3 DEF HandedOver, list, loc, fids
<1>5. ASSUME Spawn PROVE Locks'
  BY <1>5 DEF Spawn, EGoto, SGoto, list, exqs, pool, loc
<1>6. ASSUME WakeSlave PROVE Locks'
  BY <1>6 DEF WakeSlave, EGoto, list, exqs, pool, loc
<1>7. ASSUME NEW s \in Slave, SleepWork(s) PROVE Locks'
  BY <1>7 DEF SleepWork, SGoto, exwork, proc, list, exqs, pool, loc
<1>8. ASSUME NEW s \in Slave, Take(s) PROVE Locks'
  BY <1>8 DEF Take, SGoto, proc, pool
<1>9. ASSUME NEW s \in Slave, GetFid(s) PROVE Locks'
  BY <1>9 DEF GetFid, Numbered, Exgetfid, SGoto, proc, list, exqs, pool
<1>10. ASSUME NEW s \in Slave, NoFid(s) PROVE Locks'
  BY <1>10 DEF NoFid, SGoto, Numbered, proc, list, exqs, pool
<1>11. ASSUME NEW s \in Slave, Exattach(s) PROVE Locks'
  BY <1>11 DEF Exattach, Exmkfid, Numbered, SGoto, proc, list, exqs, pool
<1>12. ASSUME NEW s \in Slave, Exclone(s) PROVE Locks'
  BY <1>12 DEF Exclone, Exmkfid, Numbered, SGoto, proc, list, exqs, pool
<1>13. ASSUME NEW s \in Slave, DevDone(s) PROVE Locks'
  BY <1>13 DEF DevDone, SGoto, proc, list, exqs, pool, loc
<1>14. ASSUME NEW s \in Slave, DevFails(s) PROVE Locks'
  BY <1>14 DEF DevFails, SGoto, proc, list, exqs, pool
<1>15. ASSUME NEW s \in Slave, PutFid(s) PROVE Locks'
  BY <1>15 DEF PutFid, SGoto, Exputfid, proc, list, exqs, pool
<1>16. ASSUME NEW s \in Slave, PutNew(s) PROVE Locks'
  BY <1>16 DEF PutNew, SGoto, Exputfid, proc, list, exqs, pool
<1>17. ASSUME NEW s \in Slave, Unwork(s) PROVE Locks'
  BY <1>17 DEF Unwork, SGoto, proc, list, pool, loc
<1>18. ASSUME NEW s \in Slave, Reply(s) PROVE Locks'
  BY <1>18 DEF Reply, SGoto, proc, list, pool
<1>19. ASSUME exshutdown \/ ShutDone PROVE Locks'
  BY <1>19 DEF exshutdown, EGoto, pool, loc, ShutDone, list, exqs
<1>20. ASSUME NEW q \in 1..nreq, FlushQueued(q) PROVE Locks'
  BY <1>20 DEF FlushQueued, Unlink, proc, pool, loc
<1>21. ASSUME NEW q \in 1..nreq, FlushServed(q) PROVE Locks'
  BY <1>21 DEF FlushServed, EGoto, list, exqs, pool, loc
<1>22. ASSUME NEW q \in Exq, ShutNext(q) PROVE Locks'
  BY <1>22 DEF ShutNext, EGoto, list, pool, loc
<1>23. ASSUME NEW c \in Calls, Request(c) PROVE Locks'
  BY <1>23 DEF Request, EGoto, exqs, pool, loc
<1>24. CASE UNCHANGED vars
  BY <1>24 DEF vars, proc, list, exqs, pool, loc, fids
<1> QED
  BY <1>1, <1>2, <1>3, <1>4, <1>5, <1>6, <1>7, <1>8, <1>9, <1>10, <1>11, <1>12, <1>13, <1>14,
     <1>15, <1>16, <1>17, <1>18, <1>19, <1>20, <1>21, <1>22, <1>23, <1>24 DEF Next,
     Exportproc, Exslave, FlushMissed

\* A slave goes to sleep only when nothing is listed, and whoever lists something is on its
\* way to wake it.
LEMMA WakesStep == IInv /\ [Next]_vars => Wakes'
<1> SUFFICES ASSUME IInv, [Next]_vars PROVE Wakes'
  OBVIOUS
<1> USE Numbers DEF IInv, PlainType, TypeSlave, TypePool, TypeReq, TypeList, TypeProc, Wakes,
   Over
<1>1. ASSUME FlushIntr \/ ShutIntr PROVE Wakes'
  <2>1. Struck
    BY <1>1, Interrupted
  <2> QED
    BY <2>1 DEF Struck
<1>2. ASSUME NEW q \in 1..nreq, FlushQueued(q) PROVE Wakes'
  <2>1. q \in Exq
    OBVIOUS
  <2>2. (head' # nil => head # nil) /\ ep = "read"
    BY <1>2, <2>1 DEF FlushQueued, Unlink
  <2>3. UNCHANGED <<ep, nreq, sp>>
    BY <1>2 DEF FlushQueued, proc
  <2> QED
    BY <2>2, <2>3
<1>3. ASSUME Spawn PROVE Wakes'
  <2>1. nreq' = nreq /\ head' = head /\ ep = "spawn" /\ ep' = "wake"
    BY <1>3 DEF Spawn, EGoto, list
  <2>2. CASE qwait = <<>>
    BY <1>3, <2>1, <2>2 DEF Spawn, SGoto
  <2>3. CASE qwait # <<>>
    <3>1. Len(qwait) \in Nat /\ Len(qwait) >= 1
      BY <2>3
    <3>2. qwait[1] \in Slave /\ In(qwait, qwait[1])
      BY <3>1 DEF In
    <3> QED
      BY <1>3, <2>1, <2>3, <3>2 DEF Spawn, Locks
  <2> QED
    BY <2>2, <2>3
<1>4. ASSUME NEW s \in Slave, TakeNone(s) PROVE Wakes'
  <2>1. qown = s /\ qunlock(s, "qlock") /\ "qlock" \in Place /\ sp[s] = "take"
    BY <1>4 DEF TakeNone, Locks, Place
  <2>2. HandedOver(s, "qlock")
    BY <2>1, HandOver
  <2>3. /\ UNCHANGED <<fl, ep, nreq, rpc, list, slave, shut, gone, nreply, fsref, loc, fids,
                       client>>
        /\ work' = work
    BY <1>4 DEF TakeNone, LinkWork, proc, exqs
  <2>4. \A t \in Slave : /\ sp'[t] = "asleep" => sp[t] = "asleep"
                         /\ sp'[t] = "unborn" => sp[t] = "unborn"
    BY <2>1, <2>2 DEF HandedOver
  <2>5. UNCHANGED <<ep, head, nreq>>
    BY <2>3 DEF list
  <2> QED
    BY <2>4, <2>5
<1>5. ASSUME NEW s \in Slave, LinkWork(s) PROVE Wakes'
  <2>1. qown = s /\ qunlock(s, "fcall") /\ "fcall" \in Place /\ sp[s] = "link"
    BY <1>5 DEF LinkWork, Locks, Place
  <2>2. HandedOver(s, "fcall")
    BY <2>1, HandOver
  <2>3. /\ UNCHANGED <<fl, ep, nreq, rpc, list, slave, shut, gone, nreply, fsref, loc, fids,
                       client>>
        /\ work' = work \cup {sq[s]}
    BY <1>5 DEF TakeNone, LinkWork, proc, exqs
  <2>4. \A t \in Slave : /\ sp'[t] = "asleep" => sp[t] = "asleep"
                         /\ sp'[t] = "unborn" => sp[t] = "unborn"
    BY <2>1, <2>2 DEF HandedOver
  <2>5. UNCHANGED <<ep, head, nreq>>
    BY <2>3 DEF list
  <2> QED
    BY <2>4, <2>5
<1>6. ASSUME NEW c \in Calls, Request(c) PROVE Wakes'
  BY <1>6 DEF Request, EGoto, exqs, pool, loc, Locks, Lists, Fresh, Live
<1>7. ASSUME WakeSlave PROVE Wakes'
  BY <1>7 DEF WakeSlave, EGoto, list, exqs, pool, loc, Locks, Lists, Fresh, Live
<1>8. ASSUME NEW q \in 1..nreq, FlushServed(q) PROVE Wakes'
  BY <1>8 DEF FlushServed, EGoto, list, exqs, pool, loc, Locks, Lists, Fresh, Live
<1>9. ASSUME exshutdown PROVE Wakes'
  BY <1>9 DEF exshutdown, EGoto, pool, loc, Locks, Lists, Fresh, Live
<1>10. ASSUME NEW q \in Exq, ShutNext(q) PROVE Wakes'
  BY <1>10 DEF ShutNext, EGoto, list, pool, loc, Locks, Lists, Fresh, Live
<1>11. ASSUME ShutDone PROVE Wakes'
  BY <1>11 DEF ShutDone, EGoto, list, exqs, pool, loc, Locks, Lists, Fresh, Live
<1>12. ASSUME NEW s \in Slave, QLock(s) PROVE Wakes'
  BY <1>12 DEF QLock, SGoto, proc, list, exqs, loc, Locks, Lists, Fresh, Live
<1>13. ASSUME NEW s \in Slave, SleepWork(s) PROVE Wakes'
  BY <1>13 DEF SleepWork, SGoto, exwork, proc, list, exqs, pool, loc, Locks, Lists, Fresh, Live
<1>14. ASSUME NEW s \in Slave, Take(s) PROVE Wakes'
  BY <1>14 DEF Take, SGoto, proc, pool, Locks, Lists, Fresh, Live
<1>15. ASSUME NEW s \in Slave, GetFid(s) PROVE Wakes'
  BY <1>15 DEF GetFid, Numbered, Exgetfid, SGoto, proc, list, exqs, pool, Locks, Lists,
     Fresh, Live
<1>16. ASSUME NEW s \in Slave, NoFid(s) PROVE Wakes'
  BY <1>16 DEF NoFid, SGoto, Numbered, proc, list, exqs, pool, Locks, Lists, Fresh, Live
<1>17. ASSUME NEW s \in Slave, Exattach(s) PROVE Wakes'
  BY <1>17 DEF Exattach, Exmkfid, Numbered, SGoto, proc, list, exqs, pool, Locks, Lists,
     Fresh, Live
<1>18. ASSUME NEW s \in Slave, Exclone(s) PROVE Wakes'
  BY <1>18 DEF Exclone, Exmkfid, Numbered, SGoto, proc, list, exqs, pool, Locks, Lists,
     Fresh, Live
<1>19. ASSUME NEW s \in Slave, DevDone(s) PROVE Wakes'
  BY <1>19 DEF DevDone, SGoto, proc, list, exqs, pool, loc, Locks, Lists, Fresh, Live
<1>20. ASSUME NEW s \in Slave, DevFails(s) PROVE Wakes'
  BY <1>20 DEF DevFails, SGoto, proc, list, exqs, pool, Locks, Lists, Fresh, Live
<1>21. ASSUME NEW s \in Slave, PutFid(s) PROVE Wakes'
  BY <1>21 DEF PutFid, SGoto, Exputfid, proc, list, exqs, pool, Locks, Lists, Fresh, Live
<1>22. ASSUME NEW s \in Slave, PutNew(s) PROVE Wakes'
  BY <1>22 DEF PutNew, SGoto, Exputfid, proc, list, exqs, pool, Locks, Lists, Fresh, Live
<1>23. ASSUME NEW s \in Slave, Unwork(s) PROVE Wakes'
  BY <1>23 DEF Unwork, SGoto, proc, list, pool, loc, Locks, Lists, Fresh, Live
<1>24. ASSUME NEW s \in Slave, Reply(s) PROVE Wakes'
  BY <1>24 DEF Reply, SGoto, proc, list, pool, Locks, Lists, Fresh, Live
<1>25. CASE UNCHANGED vars
  BY <1>25 DEF vars, proc, list, exqs, pool, loc, fids
<1> QED
  BY <1>1, <1>2, <1>3, <1>4, <1>5, <1>6, <1>7, <1>8, <1>9, <1>10, <1>11, <1>12, <1>13, <1>14,
     <1>15, <1>16, <1>17, <1>18, <1>19, <1>20, <1>21, <1>22, <1>23, <1>24, <1>25 DEF Next,
     Exportproc, Exslave, FlushMissed
-----------------------------------------------------------------------------
(***************************************************************************)
(* What requests ask, and which Fids their slaves have.                    *)
(***************************************************************************)

\* A request has the fid numbers that its kind needs.
LEMMA AsksStep == IInv /\ [Next]_vars => Asks'
<1> SUFFICES ASSUME IInv, [Next]_vars PROVE Asks'
  OBVIOUS
<1> USE Numbers DEF IInv, PlainType, TypeReq, TypeExq, Owners, Asks, Live
<1>0. Listed \subseteq Exq /\ \A q \in Listed : Fresh(q)
  BY ListedFresh
<1>1. ASSUME NEW q \in 1..nreq, FlushQueued(q) PROVE Asks'
  BY <1>1, <1>0 DEF FlushQueued, Unlink, Answered, proc, pool, loc, fids, Fresh
<1>2. ASSUME exshutdown PROVE Asks'
  BY <1>2, <1>0 DEF exshutdown, EGoto, pool, loc, fids, Fresh
<1>3. ASSUME NEW c \in Calls, Request(c) PROVE Asks'
  BY <1>3 DEF Request, EGoto, Asked, exqs, pool, loc, fids, Calls, Fcall
<1>4. ASSUME NEW s \in Slave, Reply(s) PROVE Asks'
  BY <1>4 DEF Reply, SGoto, proc, list, pool
<1>5. ASSUME Spawn \/ WakeSlave \/ FlushIntr \/ ShutIntr \/ ShutDone PROVE Asks'
  BY <1>5 DEF Spawn, EGoto, SGoto, list, exqs, pool, loc, WakeSlave, FlushIntr, Interrupt,
     ShutIntr, ShutDone
<1>6. ASSUME NEW q \in 1..nreq, FlushServed(q) PROVE Asks'
  BY <1>6 DEF FlushServed, EGoto, list, exqs, pool, loc
<1>7. ASSUME NEW q \in Exq, ShutNext(q) PROVE Asks'
  BY <1>7 DEF ShutNext, EGoto, list, pool, loc
<1>8. ASSUME NEW s \in Slave, QLock(s) \/ SleepWork(s) \/ Take(s) \/ TakeNone(s)
             \/ LinkWork(s) \/ GetFid(s) \/ NoFid(s) \/ Exattach(s) \/ Exclone(s)
             \/ DevDone(s) \/ DevFails(s) \/ PutFid(s) \/ PutNew(s) \/ Unwork(s) PROVE Asks'
  BY <1>8 DEF QLock, SGoto, proc, list, exqs, loc, SleepWork, exwork, pool, Take, TakeNone,
     qunlock, LinkWork, GetFid, Numbered, Exgetfid, NoFid, Exattach, Exmkfid, Exclone,
     DevDone, DevFails, PutFid, Exputfid, PutNew, Unwork
<1>9. CASE UNCHANGED vars
  BY <1>9 DEF vars, proc, list, exqs, pool, loc, fids
<1> QED
  BY <1>1, <1>2, <1>3, <1>4, <1>5, <1>6, <1>7, <1>8, <1>9 DEF Next, Exportproc, Exslave,
     FlushMissed

\* A slave has a Fid that it uses from Exgetfid to Exputfid, and one that it makes from
\* Exmkfid to Exputfid.
LEMMA PlacesStep == IInv /\ [Next]_vars => Places'
<1> SUFFICES ASSUME IInv, [Next]_vars PROVE Places'
  OBVIOUS
<1> USE Numbers DEF IInv, PlainType, TypeReq, TypeSlave, TypeHold, Owners, Live, Busy, Early,
   Unused, Holders, Places, Makes
<1>0. Listed \subseteq Exq /\ \A q \in Listed : Fresh(q)
  BY ListedFresh
<1>1. ASSUME NEW q \in 1..nreq, FlushQueued(q) PROVE Places'
  BY <1>1, <1>0 DEF FlushQueued, Unlink, Answered, proc, pool, loc, fids, Fresh
<1>2. ASSUME exshutdown PROVE Places'
  BY <1>2, <1>0 DEF exshutdown, EGoto, pool, loc, fids, Fresh
<1>3. ASSUME FlushIntr \/ ShutIntr PROVE Places'
  <2>1. Struck
    BY <1>3, Interrupted
  <2> QED
    BY <2>1 DEF Struck
<1>4. ASSUME NEW s \in Slave, TakeNone(s) PROVE Places'
  <2>1. qown = s /\ qunlock(s, "qlock") /\ "qlock" \in Place /\ sp[s] = "take"
    BY <1>4 DEF TakeNone, Locks, Place
  <2>2. HandedOver(s, "qlock")
    BY <2>1, HandOver
  <2>3. /\ UNCHANGED <<fl, ep, nreq, rpc, list, slave, shut, gone, nreply, fsref, loc, fids,
                       client>>
        /\ work' = work
    BY <1>4 DEF TakeNone, LinkWork, proc, exqs
  <2> QED
    BY <2>1, <2>2, <2>3 DEF HandedOver, list, loc, fids
<1>5. ASSUME NEW s \in Slave, LinkWork(s) PROVE Places'
  <2>1. qown = s /\ qunlock(s, "fcall") /\ "fcall" \in Place /\ sp[s] = "link"
    BY <1>5 DEF LinkWork, Locks, Place
  <2>2. HandedOver(s, "fcall")
    BY <2>1, HandOver
  <2>3. /\ UNCHANGED <<fl, ep, nreq, rpc, list, slave, shut, gone, nreply, fsref, loc, fids,
                       client>>
        /\ work' = work \cup {sq[s]}
    BY <1>5 DEF TakeNone, LinkWork, proc, exqs
  <2> QED
    BY <2>1, <2>2, <2>3 DEF HandedOver, list, loc, fids
<1>6. ASSUME NEW c \in Calls, Request(c) PROVE Places'
  BY <1>6 DEF Request, EGoto, exqs, pool, loc, fids
<1>7. ASSUME Spawn PROVE Places'
  BY <1>7 DEF Spawn, EGoto, SGoto, list, exqs, pool, loc, fids
<1>8. ASSUME WakeSlave PROVE Places'
  BY <1>8 DEF WakeSlave, EGoto, list, exqs, pool, loc, fids
<1>9. ASSUME NEW s \in Slave, QLock(s) PROVE Places'
  BY <1>9 DEF QLock, SGoto, proc, list, exqs, loc, fids
<1>10. ASSUME NEW s \in Slave, SleepWork(s) PROVE Places'
  BY <1>10 DEF SleepWork, SGoto, exwork, proc, list, exqs, pool, loc, fids
<1>11. ASSUME NEW s \in Slave, Take(s) PROVE Places'
  BY <1>11 DEF Take, SGoto, proc, pool, fids
<1>12. ASSUME NEW s \in Slave, GetFid(s) PROVE Places'
  BY <1>12 DEF GetFid, Numbered, Exgetfid, SGoto, proc, list, exqs, pool
<1>13. ASSUME NEW s \in Slave, NoFid(s) PROVE Places'
  BY <1>13 DEF NoFid, SGoto, Numbered, proc, list, exqs, pool, fids
<1>14. ASSUME NEW s \in Slave, Exattach(s) PROVE Places'
  BY <1>14 DEF Exattach, Exmkfid, Numbered, SGoto, proc, list, exqs, pool
<1>15. ASSUME NEW s \in Slave, Exclone(s) PROVE Places'
  BY <1>15 DEF Exclone, Exmkfid, Numbered, SGoto, proc, list, exqs, pool
<1>16. ASSUME NEW s \in Slave, DevDone(s) PROVE Places'
  BY <1>16 DEF DevDone, SGoto, proc, list, exqs, pool, loc
<1>17. ASSUME NEW s \in Slave, DevFails(s) PROVE Places'
  BY <1>17 DEF DevFails, SGoto, proc, list, exqs, pool, fids
<1>18. ASSUME NEW s \in Slave, PutFid(s) PROVE Places'
  BY <1>18 DEF PutFid, SGoto, fids, Exputfid, proc, list, exqs, pool
<1>19. ASSUME NEW s \in Slave, PutNew(s) PROVE Places'
  BY <1>19 DEF PutNew, SGoto, Exputfid, proc, list, exqs, pool
<1>20. ASSUME NEW s \in Slave, Unwork(s) PROVE Places'
  BY <1>20 DEF Unwork, SGoto, proc, list, pool, loc, fids
<1>21. ASSUME NEW s \in Slave, Reply(s) PROVE Places'
  BY <1>21 DEF Reply, SGoto, proc, list, pool
<1>22. ASSUME ShutDone PROVE Places'
  BY <1>22 DEF ShutDone, EGoto, list, exqs, pool, loc
<1>23. ASSUME NEW q \in 1..nreq, FlushServed(q) PROVE Places'
  BY <1>23 DEF FlushServed, EGoto, list, exqs, pool, loc, fids
<1>24. ASSUME NEW q \in Exq, ShutNext(q) PROVE Places'
  BY <1>24 DEF ShutNext, EGoto, list, pool, loc, fids
<1>25. CASE UNCHANGED vars
  BY <1>25 DEF vars, proc, list, exqs, pool, loc, fids
<1> QED
  BY <1>1, <1>2, <1>3, <1>4, <1>5, <1>6, <1>7, <1>8, <1>9, <1>10, <1>11, <1>12, <1>13, <1>14,
     <1>15, <1>16, <1>17, <1>18, <1>19, <1>20, <1>21, <1>22, <1>23, <1>24, <1>25 DEF Next,
     Exportproc, Exslave, FlushMissed

\* Nobody touches a Fid before it is made.
LEMMA UnusedStep == IInv /\ [Next]_vars => Unused'
<1> SUFFICES ASSUME IInv, [Next]_vars PROVE Unused'
  OBVIOUS
<1> USE Numbers DEF IInv, PlainType, TypeSlave, TypeHold, TypeTable, TypeFid, Owners, Live,
   Busy, Early, Unused, Holders
<1>0. Listed \subseteq Exq /\ \A q \in Listed : Fresh(q)
  BY ListedFresh
<1>1. ASSUME NEW q \in 1..nreq, FlushQueued(q) PROVE Unused'
  BY <1>1, <1>0 DEF FlushQueued, Unlink, Answered, proc, pool, loc, fids, Fresh
<1>2. ASSUME exshutdown PROVE Unused'
  BY <1>2, <1>0 DEF exshutdown, EGoto, pool, loc, fids, Fresh
<1>3. ASSUME FlushIntr \/ ShutIntr PROVE Unused'
  <2>1. Struck
    BY <1>3, Interrupted
  <2> QED
    BY <2>1 DEF Struck
<1>4. ASSUME Spawn PROVE Unused'
  <2>1. \A t \in Slave : sp'[t] = sp[t] \/ (sp[t] = "unborn" /\ sp'[t] = "qlock")
    BY <1>4 DEF Spawn, SGoto
  <2>2. UNCHANGED <<gone, sq, tbl, att, ch, sf, sn>>
    BY <1>4 DEF Spawn, exqs, loc, fids
  <2> QED
    BY <2>1, <2>2
<1>5. ASSUME NEW s \in Slave, QLock(s) PROVE Unused'
  <2>1. sp[s] = "qlock" /\ \A t \in Slave : t # s => sp'[t] = sp[t]
    BY <1>5 DEF QLock, SGoto
  <2>2. UNCHANGED <<gone, sq, tbl, att, ch, sf, sn>>
    BY <1>5 DEF QLock, exqs, loc, fids
  <2> QED
    BY <2>1, <2>2
<1>6. ASSUME NEW s \in Slave, PutNew(s) PROVE Unused'
  <2>1. /\ sp[s] = "putnew" /\ sp'[s] = "done" /\ \A t \in Slave : t # s => sp'[t] = sp[t]
        /\ UNCHANGED <<gone, sq, sf>> /\ sq[s] \in Exq /\ sn[s] = sq[s]
    BY <1>6 DEF PutNew, SGoto, exqs, Places
  <2>2. /\ sn'[s] = nil /\ \A t \in Slave : t # s => sn'[t] = sn[t]
        /\ \A x \in Exq : x # sn[s] => /\ att'[x] = att[x] /\ ch'[x] = ch[x]
                                       /\ (x \in tbl' <=> x \in tbl)
    BY <1>6, <2>1 DEF PutNew, Exputfid
  <2>3. ASSUME NEW q \in Exq, q \notin gone', \A t \in Slave : sq'[t] = q => sp'[t] \in Early
        PROVE  q \notin tbl' /\ ~att'[q] /\ ch'[q] = "nil" /\ Holders(q)' = {}
    <3>1. q # sq[s]
      BY <2>1, <2>3
    <3>2. \A t \in Slave : sq[t] = q => sp[t] \in Early
      BY <2>1, <2>3, <3>1
    <3>3. q \notin tbl /\ ~att[q] /\ ch[q] = "nil" /\ Holders(q) = {}
      BY <2>1, <2>3, <3>2
    <3> QED
      BY <2>1, <2>2, <3>1, <3>3
  <2> QED
    BY <2>3
<1>7. ASSUME NEW s \in Slave, TakeNone(s) PROVE Unused'
  <2>1. qown = s /\ qunlock(s, "qlock") /\ "qlock" \in Place /\ sp[s] = "take"
    BY <1>7 DEF TakeNone, Locks, Place
  <2>2. HandedOver(s, "qlock")
    BY <2>1, HandOver
  <2>3. /\ UNCHANGED <<fl, ep, nreq, rpc, list, slave, shut, gone, nreply, fsref, loc, fids,
                       client>>
        /\ work' = work
    BY <1>7 DEF TakeNone, LinkWork, proc, exqs
  <2> QED
    BY <2>1, <2>2, <2>3 DEF HandedOver, list, loc, fids
<1>8. ASSUME NEW s \in Slave, LinkWork(s) PROVE Unused'
  <2>1. qown = s /\ qunlock(s, "fcall") /\ "fcall" \in Place /\ sp[s] = "link"
    BY <1>8 DEF LinkWork, Locks, Place
  <2>2. HandedOver(s, "fcall")
    BY <2>1, HandOver
  <2>3. /\ UNCHANGED <<fl, ep, nreq, rpc, list, slave, shut, gone, nreply, fsref, loc, fids,
                       client>>
        /\ work' = work \cup {sq[s]}
    BY <1>8 DEF TakeNone, LinkWork, proc, exqs
  <2> QED
    BY <2>1, <2>2, <2>3 DEF HandedOver, list, loc, fids
<1>9. ASSUME WakeSlave PROVE Unused'
  BY <1>9 DEF WakeSlave, EGoto, list, exqs, pool, loc, fids, Places, Makes
<1>10. ASSUME ShutDone PROVE Unused'
  BY <1>10 DEF ShutDone, EGoto, exfree, list, exqs, pool, loc, exfreefids, Places, Makes
<1>11. ASSUME NEW s \in Slave, SleepWork(s) PROVE Unused'
  BY <1>11 DEF SleepWork, SGoto, exwork, proc, list, exqs, pool, loc, fids, Places, Makes
<1>12. ASSUME NEW s \in Slave, Take(s) PROVE Unused'
  BY <1>12 DEF Take, SGoto, proc, pool, fids, Places, Makes
<1>13. ASSUME NEW s \in Slave, GetFid(s) PROVE Unused'
  BY <1>13 DEF GetFid, Numbered, Exgetfid, SGoto, proc, list, exqs, pool, Places, Makes
<1>14. ASSUME NEW s \in Slave, NoFid(s) PROVE Unused'
  BY <1>14 DEF NoFid, SGoto, Numbered, proc, list, exqs, pool, fids, Places, Makes
<1>15. ASSUME NEW s \in Slave, Exattach(s) PROVE Unused'
  BY <1>15 DEF Exattach, Exmkfid, Numbered, SGoto, proc, list, exqs, pool, Places, Makes
<1>16. ASSUME NEW s \in Slave, Exclone(s) PROVE Unused'
  BY <1>16 DEF Exclone, Exmkfid, Numbered, SGoto, proc, list, exqs, pool, Places, Makes
<1>17. ASSUME NEW s \in Slave, DevDone(s) PROVE Unused'
  BY <1>17 DEF DevDone, SGoto, proc, list, exqs, pool, loc, Places, Makes
<1>18. ASSUME NEW s \in Slave, DevFails(s) PROVE Unused'
  BY <1>18 DEF DevFails, SGoto, proc, list, exqs, pool, fids, Places, Makes
<1>19. ASSUME NEW s \in Slave, PutFid(s) PROVE Unused'
  BY <1>19 DEF PutFid, SGoto, fids, Exputfid, proc, list, exqs, pool, Places, Makes
<1>20. ASSUME NEW s \in Slave, Unwork(s) PROVE Unused'
  BY <1>20 DEF Unwork, SGoto, proc, list, pool, loc, fids, Places, Makes
<1>21. ASSUME NEW s \in Slave, Reply(s) PROVE Unused'
  BY <1>21 DEF Reply, SGoto, exfree, proc, list, pool, exfreefids, Places, Makes
<1>22. ASSUME NEW q \in 1..nreq, FlushServed(q) PROVE Unused'
  BY <1>22 DEF FlushServed, EGoto, list, exqs, pool, loc, fids
<1>23. ASSUME NEW q \in Exq, ShutNext(q) PROVE Unused'
  BY <1>23 DEF ShutNext, EGoto, list, pool, loc, fids
<1>24. ASSUME NEW c \in Calls, Request(c) PROVE Unused'
  BY <1>24 DEF Request, EGoto, exqs, pool, loc, fids
<1>25. CASE UNCHANGED vars
  BY <1>25 DEF vars, proc, list, exqs, pool, loc, fids
<1> QED
  BY <1>1, <1>2, <1>3, <1>4, <1>5, <1>6, <1>7, <1>8, <1>9, <1>10, <1>11, <1>12, <1>13, <1>14,
     <1>15, <1>16, <1>17, <1>18, <1>19, <1>20, <1>21, <1>22, <1>23, <1>24, <1>25 DEF Next,
     Exportproc, Exslave, FlushMissed

\* The client takes a number for one request at a time.
LEMMA ClaimedStep == IInv /\ [Next]_vars => Claimed'
<1> SUFFICES ASSUME IInv, [Next]_vars PROVE Claimed'
  OBVIOUS
<1> USE Numbers DEF IInv, PlainType, TypeReq, TypeExq, TypeClient, Owners, Asks, Live,
   Claimed, Claims
<1>0. Listed \subseteq Exq /\ \A q \in Listed : Fresh(q)
  BY ListedFresh
<1>1. ASSUME NEW q \in 1..nreq, FlushQueued(q) PROVE Claimed'
  BY <1>1, <1>0 DEF FlushQueued, Unlink, Answered, proc, pool, loc, fids, Fresh
<1>2. ASSUME exshutdown PROVE Claimed'
  BY <1>2, <1>0 DEF exshutdown, EGoto, pool, loc, fids, Fresh
<1>3. ASSUME NEW c \in Calls, Request(c) PROVE Claimed'
  BY <1>3 DEF Request, EGoto, Asked, exqs, pool, loc, fids, Calls, Fcall
<1>4. ASSUME NEW s \in Slave, Reply(s) PROVE Claimed'
  <2>1. sq[s] \in Exq /\ Live(sq[s]) /\ gone' = gone \cup {sq[s]} /\ nreq' = nreq
        /\ \A x \in Exq : x # sq[s] => rpc'[x] = rpc[x]
    BY <1>4 DEF Reply, SGoto, TypeSlave, Busy
  <2>2. \A n \in Fno : Claims(sq[s], n) \/ client'[n] = client[n]
    BY <1>4 DEF Reply, Answered
  <2>3. ASSUME NEW x \in Exq, NEW n \in Fno, Live(x)', Claims(x, n)'
        PROVE  x # sq[s] /\ Live(x) /\ Claims(x, n)
    BY <2>1, <2>3
  <2>4. ASSUME NEW q \in Exq, NEW n \in Fno, Live(q)', Claims(q, n)'
        PROVE  client'[n] = "busy" /\ \A x \in Exq : Live(x)' /\ Claims(x, n)' => x = q
    <3>1. q # sq[s] /\ Live(q) /\ Claims(q, n)
      BY <2>3, <2>4
    <3>2. client[n] = "busy" /\ \A x \in Exq : Live(x) /\ Claims(x, n) => x = q
      BY <3>1
    <3> HIDE DEF Live, Claims
    <3>3. ~Claims(sq[s], n)
      BY <2>1, <3>1, <3>2
    <3> QED
      BY <2>2, <2>3, <3>2, <3>3
  <2> HIDE DEF Live, Claims
  <2> QED
    BY <2>4 DEF Claimed
<1>5. ASSUME Spawn \/ WakeSlave \/ FlushIntr \/ ShutIntr \/ ShutDone PROVE Claimed'
  BY <1>5 DEF Spawn, EGoto, SGoto, list, exqs, pool, loc, fids, WakeSlave, FlushIntr,
     Interrupt, ShutIntr, ShutDone
<1>6. ASSUME NEW q \in 1..nreq, FlushServed(q) PROVE Claimed'
  BY <1>6 DEF FlushServed, EGoto, list, exqs, pool, loc, fids
<1>7. ASSUME NEW q \in Exq, ShutNext(q) PROVE Claimed'
  BY <1>7 DEF ShutNext, EGoto, list, pool, loc, fids
<1>8. ASSUME NEW s \in Slave, QLock(s) \/ SleepWork(s) \/ Take(s) \/ TakeNone(s)
             \/ LinkWork(s) \/ GetFid(s) \/ NoFid(s) \/ Exattach(s) \/ Exclone(s)
             \/ DevDone(s) \/ DevFails(s) \/ PutFid(s) \/ PutNew(s) \/ Unwork(s)
             PROVE Claimed'
  <2>1. UNCHANGED <<nreq, gone, rpc, client>>
    BY <1>8 DEF QLock, SGoto, proc, list, exqs, loc, fids, SleepWork, exwork, pool, Take,
       TakeNone, qunlock, LinkWork, GetFid, Numbered, Exgetfid, NoFid, Exattach, Exmkfid,
       Exclone, DevDone, DevFails, PutFid, Exputfid, PutNew, Unwork
  <2> QED
    BY <2>1
<1>9. CASE UNCHANGED vars
  BY <1>9 DEF vars, proc, list, exqs, pool, loc, fids
<1> QED
  BY <1>1, <1>2, <1>3, <1>4, <1>5, <1>6, <1>7, <1>8, <1>9 DEF Next, Exportproc, Exslave,
     FlushMissed
-----------------------------------------------------------------------------
(***************************************************************************)
(* Reference counts.                                                       *)
(***************************************************************************)
Counted == \A o \in Fid : ref[o] = Cardinality(Holders(o))
InTable == fsref > 0 => tbl = {o \in Fid : ref[o] > 0 \/ att[o]}
Lasts == fsref = Cardinality(1..nreq \ gone) + (IF ep = "gone" THEN 0 ELSE 1)
Closed == \A o \in Fid : fsref = 0 \/ o \notin tbl => ch[o] # "open"

\* RefsExact says these four things.
LEMMA RefsParts == RefsExact <=> Counted /\ InTable /\ Lasts /\ Closed
BY DEF RefsExact, Counted, InTable, Lasts, Closed

\* The live requests can be counted.
LEMMA LiveCount ==
  ASSUME PlainType
  PROVE  /\ IsFiniteSet(1..nreq \ gone) /\ Cardinality(1..nreq \ gone) \in 0..nreq
         /\ (\E q \in Exq : Live(q)) => Cardinality(1..nreq \ gone) > 0
<1>1. nreq \in Nat
  BY Numbers DEF PlainType, TypeReq
<1>2. IsFiniteSet(1..nreq) /\ Cardinality(1..nreq) = nreq
  BY <1>1, FS_Interval
<1>3. 1..nreq \ gone \in SUBSET (1..nreq)
  OBVIOUS
<1>4. IsFiniteSet(1..nreq \ gone) /\ Cardinality(1..nreq \ gone) <= nreq
  BY <1>2, <1>3, FS_Subset
<1>5. Cardinality(1..nreq \ gone) \in Nat
  BY <1>4, FS_CardinalityType
<1>6. (\E q \in Exq : Live(q)) => 1..nreq \ gone # {}
  BY DEF Live
<1>7. (\E q \in Exq : Live(q)) => Cardinality(1..nreq \ gone) # 0
  BY <1>4, <1>6, FS_EmptySet
<1> QED
  BY <1>1, <1>4, <1>5, <1>7

\* The slaves that have a Fid can be counted.
LEMMA HolderCount ==
  ASSUME NEW o
  PROVE  /\ IsFiniteSet(Holders(o)) /\ Cardinality(Holders(o)) \in Nat
         /\ Cardinality(Holders(o)) = 0 <=> Holders(o) = {}
<1>1. Holders(o) \in SUBSET Slave
  BY DEF Holders
<1>2. IsFiniteSet(Holders(o))
  BY <1>1, ExportAssumption, FS_Subset
<1> QED
  BY <1>2, FS_CardinalityType, FS_EmptySet

\* The Export outlives the requests.
LEMMA ExportLasts ==
  ASSUME IInv, NEW s \in Slave, sq[s] # nil
  PROVE  sq[s] \in Exq /\ Live(sq[s]) /\ fsref > 0 /\ (ep # "gone" => fsref > 1)
<1>1. sq[s] \in Exq /\ Live(sq[s])
  BY DEF IInv, PlainType, TypeSlave, Owners
<1>2. Cardinality(1..nreq \ gone) > 0 /\ Cardinality(1..nreq \ gone) \in Nat
  <2>1. PlainType /\ (\E q \in Exq : Live(q))
    BY <1>1 DEF IInv
  <2> QED
    BY <2>1, LiveCount, Numbers DEF PlainType, TypeReq
<1> QED
  BY <1>1, <1>2, RefsParts DEF IInv, Lasts

\* The Export is counted once for each live request and once for exportproc.
LEMMA LastsStep == IInv /\ [Next]_vars => Lasts'
<1> SUFFICES ASSUME IInv, [Next]_vars PROVE Lasts'
  OBVIOUS
<1> USE DEF IInv, PlainType, Lasts
<1>0. /\ IsFiniteSet(1..nreq \ gone) /\ Cardinality(1..nreq \ gone) \in Nat
      /\ Lasts /\ fsref \in Nat /\ TypeReq /\ nreq \in Nat /\ TypeSlave /\ Owners
  BY LiveCount, RefsParts, Numbers DEF TypeReq, TypeCount
<1>1. ASSUME NEW c \in Calls, Request(c) PROVE Lasts'
  <2>1. nreq + 1 \notin 1..nreq \ gone
        /\ 1..(nreq + 1) \ gone = (1..nreq \ gone) \cup {nreq + 1}
    BY <1>0, Numbers DEF TypeReq, Owners
  <2>2. Cardinality(1..(nreq + 1) \ gone) = Cardinality(1..nreq \ gone) + 1
    BY <1>0, <2>1, FS_AddElement
  <2> QED
    BY <1>1, <1>0, <2>2 DEF Request, EGoto, exqs
<1>2. ASSUME NEW q \in 1..nreq, FlushQueued(q) PROVE Lasts'
  <2>1. q \in 1..nreq \ gone
    BY <1>2, <1>0, ListedFresh, Numbers DEF FlushQueued, Fresh, Live, TypeSlave, Owners,
       Busy, SGoto
  <2>2. 1..nreq \ (gone \cup {q}) = (1..nreq \ gone) \ {q}
    OBVIOUS
  <2>3. Cardinality(1..nreq \ (gone \cup {q})) = Cardinality(1..nreq \ gone) - 1
    <3>1. Cardinality((1..nreq \ gone) \ {q}) = Cardinality(1..nreq \ gone) - 1
      BY <1>0, <2>1, FS_RemoveElement
    <3> QED
      BY <2>2, <3>1
  <2> QED
    BY <1>2, <1>0, <2>3 DEF FlushQueued, proc
<1>3. ASSUME exshutdown PROVE Lasts'
  <2>1. Listed \subseteq 1..nreq \ gone
    BY ListedFresh DEF Fresh, Live
  <2>2. 1..nreq \ (gone \cup Listed) = (1..nreq \ gone) \ Listed
        /\ (1..nreq \ gone) \cap Listed = Listed
    BY <2>1
  <2>3. IsFiniteSet(Listed)
    BY <1>0, <2>1, FS_Subset
  <2>4. Cardinality(1..nreq \ (gone \cup Listed))
          = Cardinality(1..nreq \ gone) - Cardinality(Listed)
    BY <1>0, <2>2, FS_Difference
  <2>5. Cardinality(Listed) \in Nat
    BY <2>3, FS_CardinalityType
  <2> QED
    BY <1>3, <1>0, <2>4, <2>5 DEF exshutdown, EGoto
<1>4. ASSUME NEW s \in Slave, Reply(s) PROVE Lasts'
  <2>1. sq[s] \in 1..nreq \ gone
    BY <1>4, <1>0, ListedFresh, Numbers DEF Reply, Fresh, Live, TypeSlave, Owners, Busy, SGoto
  <2>2. 1..nreq \ (gone \cup {sq[s]}) = (1..nreq \ gone) \ {sq[s]}
    OBVIOUS
  <2>3. Cardinality(1..nreq \ (gone \cup {sq[s]})) = Cardinality(1..nreq \ gone) - 1
    <3>1. Cardinality((1..nreq \ gone) \ {sq[s]}) = Cardinality(1..nreq \ gone) - 1
      BY <1>0, <2>1, FS_RemoveElement
    <3> QED
      BY <2>2, <3>1
  <2> QED
    BY <1>4, <1>0, <2>3 DEF Reply, SGoto, exfree, proc
<1>5. ASSUME Spawn PROVE Lasts'
  BY <1>5, <1>0 DEF Spawn, EGoto, SGoto, list, exqs, pool, loc
<1>6. ASSUME WakeSlave PROVE Lasts'
  BY <1>6, <1>0 DEF WakeSlave, EGoto, list, exqs, pool, loc
<1>7. ASSUME NEW q \in 1..nreq, FlushServed(q) PROVE Lasts'
  BY <1>7, <1>0 DEF FlushServed, EGoto, list, exqs, pool, loc
<1>8. ASSUME FlushIntr PROVE Lasts'
  BY <1>8, <1>0 DEF FlushIntr, Interrupt, SGoto, list, exqs, pool
<1>9. ASSUME NEW q \in Exq, ShutNext(q) PROVE Lasts'
  BY <1>9, <1>0 DEF ShutNext, EGoto, list, pool, loc
<1>10. ASSUME ShutIntr PROVE Lasts'
  BY <1>10, <1>0 DEF ShutIntr, Interrupt, SGoto, list, exqs, pool
<1>11. ASSUME ShutDone PROVE Lasts'
  BY <1>11, <1>0 DEF ShutDone, EGoto, exfree, list, exqs, pool, loc
<1>12. ASSUME NEW s \in Slave, QLock(s) \/ SleepWork(s) \/ Take(s) \/ TakeNone(s)
             \/ LinkWork(s) \/ GetFid(s) \/ NoFid(s) \/ Exattach(s) \/ Exclone(s)
             \/ DevDone(s) \/ DevFails(s) \/ PutFid(s) \/ PutNew(s) \/ Unwork(s) PROVE Lasts'
  BY <1>12, <1>0 DEF QLock, SGoto, proc, list, exqs, loc, SleepWork, exwork, pool, Take,
     TakeNone, qunlock, LinkWork, GetFid, Numbered, Exgetfid, NoFid, Exattach, Exmkfid,
     Exclone, DevDone, DevFails, PutFid, Exputfid, PutNew, Unwork
<1>13. CASE UNCHANGED vars
  BY <1>13, <1>0 DEF vars, proc, list, exqs, pool, loc, fids
<1> QED
  BY <1>1, <1>2, <1>3, <1>4, <1>5, <1>6, <1>7, <1>8, <1>9, <1>10, <1>11, <1>12, <1>13 DEF
     Next, Exportproc, Exslave, FlushMissed
\* One slave more has the Fid.
LEMMA OneMore ==
  ASSUME Counted, NEW s \in Slave, NEW o \in Fid, s \notin Holders(o),
         \A x \in Fid : Holders(x)' = IF x = o THEN Holders(o) \cup {s} ELSE Holders(x),
         \A x \in Fid : ref'[x] = IF x = o THEN ref[o] + 1 ELSE ref[x]
  PROVE  Counted'
<1>1. Cardinality(Holders(o) \cup {s}) = Cardinality(Holders(o)) + 1
  BY HolderCount, FS_AddElement
<1> QED
  BY <1>1 DEF Counted
\* One slave less has the Fid.
LEMMA OneLess ==
  ASSUME Counted, NEW s \in Slave, NEW o \in Fid, s \in Holders(o),
         \A x \in Fid : Holders(x)' = IF x = o THEN Holders(o) \ {s} ELSE Holders(x),
         \A x \in Fid : ref'[x] = IF x = o THEN ref[o] - 1 ELSE ref[x]
  PROVE  Counted'
<1>1. Cardinality(Holders(o) \ {s}) = Cardinality(Holders(o)) - 1
  BY HolderCount, FS_RemoveElement
<1> QED
  BY <1>1 DEF Counted

\* A Fid that a slave has is counted, and is in the table.
LEMMA HasFid ==
  ASSUME IInv, NEW s \in Slave, NEW o \in Fid, s \in Holders(o)
  PROVE  o \in tbl /\ ref[o] > 0 /\ fsref > 0
<1>1. ref[o] \in Nat /\ ref[o] = Cardinality(Holders(o))
  BY RefsParts DEF IInv, PlainType, TypeFid, Counted
<1>2. ref[o] > 0
  BY <1>1, HolderCount
<1>3. sq[s] # nil
  BY Numbers DEF IInv, Holders, Places, Owners, Busy
<1>4. fsref > 0
  BY <1>3, ExportLasts
<1> QED
  BY <1>2, <1>4, RefsParts DEF IInv, InTable

(***************************************************************************)
(* What a slave does to the Fids.                                          *)
(***************************************************************************)
\* Exgetfid finds a Fid of the request's number.
Got(s, o) ==
  /\ o \in tbl /\ fno[o] = rpc[sq[s]].fid /\ rpc[sq[s]].op # "attach" /\ att[o]
  /\ sf' = [sf EXCEPT ![s] = o] /\ ref' = [ref EXCEPT ![o] = @ + 1]
  /\ sp[s] = "fcall" /\ sp' = [sp EXCEPT ![s] = CASE rpc[sq[s]].op = "clone" -> "mk"
                                                  [] rpc[sq[s]].op = "clunk" -> "put"
                                                  [] OTHER -> "dev"]
  /\ UNCHANGED <<sn, ok, tbl, fno, att, ch, sq, rpc, fsref, gone, nreq, ep, client>>
\* That is what GetFid does.
LEMMA GetFidEffect ==
  ASSUME NEW s \in Slave, GetFid(s)
  PROVE  \E o \in tbl : Got(s, o)
BY DEF GetFid, Exgetfid, SGoto, Numbered, Got, proc, exqs

\* Exmkfid makes the Fid of the request, or fails.
New(s) ==
  /\ \A o \in tbl : fno[o] # rpc[sq[s]].new
  /\ sn' = [sn EXCEPT ![s] = sq[s]] /\ tbl' = tbl \cup {sq[s]}
  /\ fno' = [fno EXCEPT ![sq[s]] = rpc[sq[s]].new] /\ ref' = [ref EXCEPT ![sq[s]] = 1]
  /\ att' = [att EXCEPT ![sq[s]] = TRUE]
  /\ sp' = [sp EXCEPT ![s] = "dev"] /\ ok' = ok
NotNew(s) ==
  /\ ok' = [ok EXCEPT ![s] = FALSE]
  /\ \/ sp[s] = "fcall" /\ sp' = [sp EXCEPT ![s] = "done"]
     \/ sp[s] = "mk" /\ sp' = [sp EXCEPT ![s] = "put"]
  /\ UNCHANGED <<sn, tbl, fno, ref, att>>
\* That is what Exattach and Exclone do.
LEMMA MakeEffect ==
  ASSUME NEW s \in Slave, Exattach(s) \/ Exclone(s), Places
  PROVE  /\ sp[s] \in {"fcall", "mk"} /\ Makes(s)
         /\ New(s) \/ NotNew(s)
         /\ UNCHANGED <<sf, ch, sq, rpc, fsref, gone, nreq, ep, client>>
BY DEF Exattach, Exclone, Exmkfid, SGoto, Numbered, New, NotNew, proc, exqs, Places, Makes

\* Exputfid, by one that has the Fid: it goes with its last use, unless it is attached.
Put(o, a) ==
  /\ att' = [att EXCEPT ![o] = a] /\ ref' = [ref EXCEPT ![o] = @ - 1]
  /\ \A x \in Fid : x # o => /\ x \in tbl' <=> x \in tbl
                             /\ fno'[x] = fno[x] /\ ch'[x] = ch[x]
  /\ \/ ref[o] = 1 /\ ~a /\ o \notin tbl' /\ ch'[o] = "nil" /\ fno'[o] = 1
     \/ ~ (ref[o] = 1 /\ ~a) /\ UNCHANGED <<tbl, ch, fno>>
  /\ tbl' \subseteq tbl /\ fno' \in [Fid -> Fno] /\ ch' \in [Fid -> {"nil", "open"}]
\* That is what Exputfid does.
LEMMA PutEffect ==
  ASSUME PlainType, NEW o \in Fid, NEW a \in BOOLEAN, Exputfid(o, a)
  PROVE  Put(o, a)
BY Numbers DEF Exputfid, Put, PlainType, TypeTable, TypeFid

\* The Fid that was used is given back; clunk and remove have it detached.
Keeps(s) == rpc[sq[s]].op # "clunk" /\ ~ (rpc[sq[s]].op = "remove" /\ ok[s])
GaveBack(s) ==
  /\ sp[s] = "put" /\ sp' = [sp EXCEPT ![s] = IF sn[s] = nil THEN "done" ELSE "putnew"]
  /\ \/ sf[s] = nil /\ sf' = sf /\ UNCHANGED <<tbl, fno, ref, att, ch>>
     \/ sf[s] \in Fid /\ sf' = [sf EXCEPT ![s] = nil] /\ Put(sf[s], att[sf[s]] /\ Keeps(s))
  /\ UNCHANGED <<sq, sn, ok, rpc, fsref, gone, nreq, ep, client>>
\* That is what PutFid does.
LEMMA PutFidEffect ==
  ASSUME PlainType, NEW s \in Slave, PutFid(s)
  PROVE  GaveBack(s)
<1>1. /\ sp[s] = "put" /\ sp' = [sp EXCEPT ![s] = IF sn[s] = nil THEN "done" ELSE "putnew"]
      /\ UNCHANGED <<sq, sn, ok, rpc, fsref, gone, nreq, ep, client>>
      /\ sf' = [sf EXCEPT ![s] = nil]
  BY DEF PutFid, SGoto, exqs, proc
<1>2. CASE sf[s] = nil
  <2>1. sf' = sf
    BY <1>1, <1>2 DEF PlainType, TypeHold
  <2> QED
    BY <1>1, <1>2, <2>1 DEF GaveBack, PutFid, fids
<1>3. CASE sf[s] # nil
  <2>1. sf[s] \in Fid
    BY <1>3 DEF PlainType, TypeHold
  <2>2. att[sf[s]] \in BOOLEAN
    BY <2>1 DEF PlainType, TypeFid
  <2>3. (att[sf[s]] /\ Keeps(s)) \in BOOLEAN
    BY <2>2
  <2>4. Exputfid(sf[s], att[sf[s]] /\ Keeps(s))
    BY <1>3 DEF PutFid, Keeps
  <2> QED
    BY <1>1, <2>1, <2>3, <2>4, PutEffect DEF GaveBack
<1> QED
  BY <1>2, <1>3

\* The Fid that was made is given back, and stays attached unless an attach has failed.
GaveNew(s) ==
  /\ sp[s] = "putnew" /\ sp' = [sp EXCEPT ![s] = "done"]
  /\ sn[s] \in Fid /\ sn' = [sn EXCEPT ![s] = nil]
  /\ Put(sn[s], att[sn[s]] /\ (ok[s] \/ rpc[sq[s]].op # "attach"))
  /\ UNCHANGED <<sq, sf, ok, rpc, fsref, gone, nreq, ep, client>>
\* That is what PutNew does.
LEMMA PutNewEffect ==
  ASSUME PlainType, Places, NEW s \in Slave, PutNew(s)
  PROVE  GaveNew(s)
<1>1. /\ sp[s] = "putnew" /\ sp' = [sp EXCEPT ![s] = "done"]
      /\ UNCHANGED <<sq, sf, ok, rpc, fsref, gone, nreq, ep, client>>
      /\ sn' = [sn EXCEPT ![s] = nil]
  BY DEF PutNew, SGoto, exqs, proc
<1>2. sn[s] \in Fid
  BY <1>1 DEF PlainType, TypeHold, Places
<1>3. att[sn[s]] \in BOOLEAN /\ ok[s] \in BOOLEAN
  BY <1>2 DEF PlainType, TypeFid, TypeSlave
<1>4. Exputfid(sn[s], att[sn[s]] /\ (ok[s] \/ rpc[sq[s]].op # "attach"))
  BY DEF PutNew
<1>5. (att[sn[s]] /\ (ok[s] \/ rpc[sq[s]].op # "attach")) \in BOOLEAN
  BY <1>3
<1> QED
  BY <1>1, <1>2, <1>4, <1>5, PutEffect DEF GaveNew
\* Fid.ref counts the slaves that have the Fid.
LEMMA CountedStep == IInv /\ [Next]_vars => Counted'
<1> SUFFICES ASSUME IInv, [Next]_vars PROVE Counted'
  OBVIOUS
<1> USE DEF IInv, PlainType
<1>0. Counted /\ InTable /\ Lasts /\ Closed
  BY RefsParts
<1>1. ASSUME NEW s \in Slave, GetFid(s) PROVE Counted'
  <2>1. PICK o \in tbl : Got(s, o)
    BY <1>1, GetFidEffect
  <2>2. o \in Fid /\ sf[s] = nil /\ sn[s] = nil
    BY <2>1 DEF Got, TypeTable, Places
  <2>3. s \notin Holders(o)
    BY <2>2, Numbers DEF Holders
  <2>4. \A x \in Fid : Holders(x)' = IF x = o THEN Holders(o) \cup {s} ELSE Holders(x)
    BY <2>1, <2>2, Numbers DEF Got, Holders, TypeHold
  <2>5. \A x \in Fid : ref'[x] = IF x = o THEN ref[o] + 1 ELSE ref[x]
    BY <2>1, <2>2 DEF Got, TypeFid
  <2> QED
    BY <1>0, <2>2, <2>3, <2>4, <2>5, OneMore
<1>2. ASSUME NEW s \in Slave, Exattach(s) \/ Exclone(s) PROVE Counted'
  <2>1. CASE NotNew(s)
    <3>1. UNCHANGED <<sf, sn, ref>>
      BY <1>2, <2>1, MakeEffect DEF NotNew
    <3> QED
      BY <1>0, <3>1 DEF Counted, Holders
  <2>2. CASE New(s)
    <3>1. sp[s] \in Early /\ sq[s] \in Exq /\ sq[s] \notin gone
      BY <1>2, MakeEffect DEF TypeSlave, Owners, Live, Busy, Early
    <3>2. \A t \in Slave : sq[t] = sq[s] => t = s
      BY <3>1, Numbers DEF Owners
    <3>3. Holders(sq[s]) = {} /\ sq[s] \in Fid
      BY <3>1, <3>2, Numbers DEF Unused
    <3>4. sf' = sf /\ sn' = [sn EXCEPT ![s] = sq[s]] /\ ref' = [ref EXCEPT ![sq[s]] = 1]
      BY <1>2, <2>2, MakeEffect DEF New
    <3>5. sn[s] = nil
      BY <3>1 DEF Places, Early
    <3>6. \A x \in Fid : Holders(x)' = IF x = sq[s] THEN Holders(sq[s]) \cup {s}
          ELSE Holders(x)
      BY <3>3, <3>4, <3>5, Numbers DEF Holders, TypeHold
    <3>7. ref[sq[s]] = 0
      BY <1>0, <3>3, HolderCount DEF Counted
    <3>8. \A x \in Fid : ref'[x] = IF x = sq[s] THEN ref[sq[s]] + 1 ELSE ref[x]
      BY <3>3, <3>4, <3>7 DEF TypeFid
    <3> QED
      BY <1>0, <3>3, <3>6, <3>8, OneMore
  <2> QED
    BY <1>2, <2>1, <2>2, MakeEffect
<1>3. ASSUME NEW s \in Slave, PutFid(s) PROVE Counted'
  <2>1. GaveBack(s)
    BY <1>3, PutFidEffect
  <2>2. CASE sf[s] = nil
    <3>1. UNCHANGED <<sf, sn, ref>>
      BY <2>1, <2>2, Numbers DEF GaveBack
    <3> QED
      BY <1>0, <3>1 DEF Counted, Holders
  <2>3. CASE sf[s] # nil
    <3> DEFINE o == sf[s]
    <3>1. /\ o \in Fid /\ sf' = [sf EXCEPT ![s] = nil] /\ sn' = sn
          /\ ref' = [ref EXCEPT ![o] = @ - 1]
      BY <2>1, <2>3 DEF GaveBack, Put
    <3>2. sn[s] # o
      BY <2>3 DEF Places
    <3>3. s \in Holders(o)
      BY DEF Holders
    <3>4. \A x \in Fid : Holders(x)' = IF x = o THEN Holders(o) \ {s} ELSE Holders(x)
      BY <3>1, <3>2, Numbers DEF Holders, TypeHold
    <3>5. \A x \in Fid : ref'[x] = IF x = o THEN ref[o] - 1 ELSE ref[x]
      BY <3>1 DEF TypeFid
    <3> QED
      BY <1>0, <3>1, <3>3, <3>4, <3>5, OneLess
  <2> QED
    BY <2>2, <2>3
<1>4. ASSUME NEW s \in Slave, PutNew(s) PROVE Counted'
  <2>1. GaveNew(s)
    BY <1>4, PutNewEffect
  <2> DEFINE o == sn[s]
  <2>2. /\ o \in Fid /\ sn' = [sn EXCEPT ![s] = nil] /\ sf' = sf
        /\ ref' = [ref EXCEPT ![o] = @ - 1]
    BY <2>1 DEF GaveNew, Put
  <2>3. sf[s] = nil
    BY <2>1 DEF GaveNew, Places
  <2>4. s \in Holders(o)
    BY DEF Holders
  <2>5. \A x \in Fid : Holders(x)' = IF x = o THEN Holders(o) \ {s} ELSE Holders(x)
    BY <2>2, <2>3, Numbers DEF Holders, TypeHold
  <2>6. \A x \in Fid : ref'[x] = IF x = o THEN ref[o] - 1 ELSE ref[x]
    BY <2>2 DEF TypeFid
  <2> QED
    BY <1>0, <2>2, <2>4, <2>5, <2>6, OneLess
<1>5. ASSUME NEW s \in Slave, Reply(s) PROVE Counted'
  BY <1>5, <1>0 DEF Reply, SGoto, Answered, exfree, proc, list, pool, exfreefids, Counted,
     Holders
<1>6. ASSUME NEW s \in Slave, NoFid(s) \/ DevFails(s) \/ DevDone(s) \/ Unwork(s) PROVE Counted'
  BY <1>6, <1>0 DEF NoFid, SGoto, Numbered, proc, list, exqs, pool, fids, DevFails, DevDone,
     loc, Unwork, Counted, Holders
<1>7. ASSUME Spawn \/ WakeSlave \/ FlushIntr \/ exshutdown \/ ShutIntr \/ ShutDone
             PROVE Counted'
  BY <1>7, <1>0 DEF Counted, Holders, Spawn, EGoto, SGoto, list, exqs, pool, loc, fids,
     WakeSlave, FlushIntr,
     Interrupt, exshutdown, ShutIntr, ShutDone, exfree
<1>8. ASSUME NEW q \in 1..nreq, FlushQueued(q) PROVE Counted'
  BY <1>8, <1>0 DEF Counted, Holders, FlushQueued, Unlink, proc, pool, loc, fids
<1>9. ASSUME NEW q \in 1..nreq, FlushServed(q) PROVE Counted'
  BY <1>9, <1>0 DEF Counted, Holders, FlushServed, EGoto, list, exqs, pool, loc, fids
<1>10. ASSUME NEW q \in Exq, ShutNext(q) PROVE Counted'
  BY <1>10, <1>0 DEF Counted, Holders, ShutNext, EGoto, list, pool, loc, fids
<1>11. ASSUME NEW c \in Calls, Request(c) PROVE Counted'
  BY <1>11, <1>0 DEF Counted, Holders, Request, EGoto, exqs, pool, loc, fids
<1>12. ASSUME NEW s \in Slave, QLock(s) \/ SleepWork(s) \/ Take(s) \/ TakeNone(s)
             \/ LinkWork(s) PROVE Counted'
  <2>1. UNCHANGED <<ref, sf, sn>>
    BY <1>12 DEF QLock, SGoto, proc, list, exqs, loc, fids, SleepWork,
       exwork, pool,
       Take, TakeNone, qunlock, LinkWork
  <2> QED
    BY <2>1, <1>0 DEF Counted, Holders
<1>13. CASE UNCHANGED vars
  BY <1>13, <1>0 DEF Counted, Holders, vars, proc, list, exqs, pool, loc, fids
<1> QED
  BY <1>1, <1>2, <1>3, <1>4, <1>5, <1>6, <1>7, <1>8, <1>9, <1>10, <1>11, <1>12, <1>13 DEF
     Next, Exportproc, Exslave, FlushMissed

\* The live requests can be counted after a step, too.
LEMMA LiveCountNext ==
  ASSUME IInv, [Next]_vars
  PROVE  Cardinality(1..nreq' \ gone') \in Nat
<1>1. nreq \in Nat /\ nreq + 1 \in Nat
  BY Numbers DEF IInv, PlainType, TypeReq
<1>2. nreq' = nreq \/ nreq' = nreq + 1
  BY DEF Next, Exportproc, Exslave, Request, Spawn, WakeSlave, FlushQueued, FlushServed,
     FlushMissed, FlushIntr, ShutIntr, Interrupt, exshutdown, ShutNext, ShutDone, QLock, SleepWork,
     Take, TakeNone, LinkWork, GetFid, NoFid, Exattach, Exclone, Exmkfid, DevDone, DevFails,
     PutFid, PutNew, Unwork, Reply, vars
<1>3. nreq' \in Int
  BY <1>1, <1>2
<1>4. IsFiniteSet(1..nreq')
  BY <1>3, FS_Interval
<1>5. (1..nreq') \ gone' \in SUBSET (1..nreq')
  OBVIOUS
<1> QED
  BY <1>4, <1>5, FS_Subset, FS_CardinalityType

\* The table has the Fids that are attached or counted.
LEMMA InTableStep == IInv /\ [Next]_vars => InTable'
<1> SUFFICES ASSUME IInv, [Next]_vars PROVE InTable'
  OBVIOUS
<1> USE DEF IInv, PlainType
<1>0. Counted /\ InTable /\ Lasts /\ Closed
  BY RefsParts
<1>00. /\ Lasts' /\ Cardinality(1..nreq' \ gone') \in Nat
       /\ Cardinality(1..nreq \ gone) \in Nat
       /\ fsref \in Nat
  BY LastsStep, LiveCountNext, LiveCount DEF TypeReq, TypeCount
<1>1. ASSUME NEW s \in Slave, GetFid(s) PROVE InTable'
  <2>1. PICK o \in tbl : Got(s, o)
    BY <1>1, GetFidEffect
  <2>2. o \in Fid /\ tbl' = tbl /\ att' = att /\ ref' = [ref EXCEPT ![o] = @ + 1]
        /\ fsref' = fsref
        /\ att[o]
    BY <2>1 DEF Got, TypeTable
  <2> QED
    BY <1>0, <2>2 DEF TypeFid, InTable
<1>2. ASSUME NEW s \in Slave, Exattach(s) \/ Exclone(s) PROVE InTable'
  <2>1. CASE NotNew(s)
    <3>1. UNCHANGED <<tbl, ref, att, fsref>>
      BY <1>2, <2>1, MakeEffect DEF NotNew
    <3> QED
      BY <1>0, <3>1 DEF InTable
  <2>2. CASE New(s)
    <3>1. /\ tbl' = tbl \cup {sq[s]} /\ ref' = [ref EXCEPT ![sq[s]] = 1]
          /\ att' = [att EXCEPT ![sq[s]] = TRUE] /\ fsref' = fsref
      BY <1>2, <2>2, MakeEffect DEF New
    <3>2. sq[s] \in Fid
      BY <1>2, MakeEffect, Numbers DEF TypeSlave, Owners, Live, Busy
    <3> QED
      BY <1>0, <3>1, <3>2 DEF TypeFid, InTable
  <2> QED
    BY <1>2, <2>1, <2>2, MakeEffect
<1>3. ASSUME NEW s \in Slave, PutFid(s) PROVE InTable'
  <2>1. GaveBack(s)
    BY <1>3, PutFidEffect
  <2>2. CASE sf[s] = nil
    <3>1. UNCHANGED <<tbl, ref, att, fsref>>
      BY <2>1, <2>2, Numbers DEF GaveBack
    <3> QED
      BY <1>0, <3>1 DEF InTable
  <2>3. CASE sf[s] # nil
    <3>1. sf[s] \in Fid /\ s \in Holders(sf[s]) /\ fsref' = fsref
      BY <2>1, <2>3 DEF GaveBack, Holders
    <3>2. PICK a : Put(sf[s], a)
      BY <2>1, <2>3 DEF GaveBack
    <3>3. sf[s] \in tbl /\ ref[sf[s]] > 0
      BY <3>1, HasFid
    <3> QED
      BY <1>0, <3>1, <3>2, <3>3 DEF Put, InTable, TypeFid, TypeTable
  <2> QED
    BY <2>2, <2>3
<1>4. ASSUME NEW s \in Slave, PutNew(s) PROVE InTable'
  <2>1. GaveNew(s)
    BY <1>4, PutNewEffect
  <2>2. sn[s] \in Fid /\ s \in Holders(sn[s]) /\ fsref' = fsref
    BY <2>1 DEF GaveNew, Holders
  <2>3. PICK a : Put(sn[s], a)
    BY <2>1 DEF GaveNew
  <2>4. sn[s] \in tbl /\ ref[sn[s]] > 0
    BY <2>2, HasFid
  <2> QED
    BY <1>0, <2>2, <2>3, <2>4 DEF Put, InTable, TypeFid, TypeTable
<1>5. ASSUME exshutdown PROVE InTable'
  <2>1. fsref' > 0
    BY <1>5, <1>00 DEF exshutdown, EGoto, Lasts
  <2>2. UNCHANGED <<tbl, ref, att, ch>> /\ fsref > 0
    BY <1>5, <1>0, <1>00 DEF exshutdown, EGoto, fids, Lasts
  <2> QED
    BY <1>0, <2>1, <2>2 DEF InTable
<1>6. ASSUME NEW q \in 1..nreq, FlushQueued(q) PROVE InTable'
  BY <1>6, <1>0, <1>00 DEF FlushQueued, Unlink, Answered, proc, pool, loc, fids, InTable
<1>7. ASSUME NEW c \in Calls, Request(c) PROVE InTable'
  BY <1>7, <1>0, <1>00 DEF Request, EGoto, Asked, exqs, pool, loc, fids, InTable, Lasts
<1>8. ASSUME ShutDone PROVE InTable'
  BY <1>8, <1>0, <1>00 DEF ShutDone, EGoto, exfree, list, exqs, pool, loc, InTable
<1>9. ASSUME NEW s \in Slave, Reply(s) PROVE InTable'
  BY <1>9, <1>0, <1>00 DEF Reply, SGoto, exfree, proc, list, pool, InTable
<1>10. ASSUME Spawn \/ WakeSlave \/ FlushIntr \/ ShutIntr PROVE InTable'
  BY <1>10, <1>0, <1>00 DEF InTable, Spawn, EGoto, SGoto, list, exqs, pool, loc, fids,
     WakeSlave,
     FlushIntr, Interrupt, ShutIntr
<1>11. ASSUME NEW q \in 1..nreq, FlushServed(q) PROVE InTable'
  BY <1>11, <1>0, <1>00 DEF InTable, FlushServed, EGoto, list, exqs, pool, loc, fids
<1>12. ASSUME NEW q \in Exq, ShutNext(q) PROVE InTable'
  BY <1>12, <1>0, <1>00 DEF InTable, ShutNext, EGoto, list, pool, loc, fids
<1>13. ASSUME NEW s \in Slave, QLock(s) \/ SleepWork(s) \/ Take(s) \/ TakeNone(s)
             \/ LinkWork(s) \/ NoFid(s) \/ DevDone(s) \/ DevFails(s) \/ Unwork(s)
             PROVE InTable'
  BY <1>13, <1>0, <1>00 DEF InTable, QLock, SGoto, proc, list, exqs, loc, fids, SleepWork,
     exwork,
     pool, Take, TakeNone, qunlock, LinkWork, NoFid, Numbered, DevDone, DevFails, Unwork
<1>14. CASE UNCHANGED vars
  BY <1>14, <1>0, <1>00 DEF InTable, vars, proc, list, exqs, pool, loc, fids
<1> QED
  BY <1>1, <1>2, <1>3, <1>4, <1>5, <1>6, <1>7, <1>8, <1>9, <1>10, <1>11, <1>12, <1>13, <1>14
     DEF Next, Exportproc, Exslave, FlushMissed

\* A Fid that is not in the table has no channel open, and none has without the Export.
LEMMA ClosedStep == IInv /\ [Next]_vars => Closed'
<1> SUFFICES ASSUME IInv, [Next]_vars PROVE Closed'
  OBVIOUS
<1> USE DEF IInv, PlainType
<1>0. Counted /\ InTable /\ Lasts /\ Closed
  BY RefsParts
<1>00. /\ Lasts' /\ Cardinality(1..nreq' \ gone') \in Nat
       /\ Cardinality(1..nreq \ gone) \in Nat
       /\ fsref \in Nat
  BY LastsStep, LiveCountNext, LiveCount DEF TypeReq, TypeCount
<1>1. ASSUME NEW s \in Slave, GetFid(s) PROVE Closed'
  BY <1>1, <1>0 DEF GetFid, Numbered, Exgetfid, SGoto, proc, list, exqs, pool, Closed
<1>2. ASSUME NEW s \in Slave, Exattach(s) \/ Exclone(s) PROVE Closed'
  <2>1. UNCHANGED <<ch, fsref>> /\ tbl \subseteq tbl'
    BY <1>2, MakeEffect DEF New, NotNew
  <2> QED
    BY <1>0, <2>1 DEF Closed
<1>3. ASSUME NEW s \in Slave, PutFid(s) PROVE Closed'
  <2>1. GaveBack(s)
    BY <1>3, PutFidEffect
  <2>2. CASE sf[s] = nil
    <3>1. UNCHANGED <<tbl, ch, fsref>>
      BY <2>1, <2>2, Numbers DEF GaveBack
    <3> QED
      BY <1>0, <3>1 DEF Closed
  <2>3. CASE sf[s] # nil
    <3>1. sf[s] \in Fid /\ fsref' = fsref
      BY <2>1, <2>3 DEF GaveBack
    <3>2. PICK a : Put(sf[s], a)
      BY <2>1, <2>3 DEF GaveBack
    <3> QED
      BY <1>0, <3>1, <3>2 DEF Put, Closed
  <2> QED
    BY <2>2, <2>3
<1>4. ASSUME NEW s \in Slave, PutNew(s) PROVE Closed'
  <2>1. GaveNew(s)
    BY <1>4, PutNewEffect
  <2>2. sn[s] \in Fid /\ fsref' = fsref
    BY <2>1 DEF GaveNew
  <2>3. PICK a : Put(sn[s], a)
    BY <2>1 DEF GaveNew
  <2> QED
    BY <1>0, <2>2, <2>3 DEF Put, Closed
<1>5. ASSUME exshutdown PROVE Closed'
  <2>1. fsref' > 0
    BY <1>5, <1>00 DEF exshutdown, EGoto, Lasts
  <2>2. UNCHANGED <<tbl, ref, att, ch>> /\ fsref > 0
    BY <1>5, <1>0, <1>00 DEF exshutdown, EGoto, fids, Lasts
  <2> QED
    BY <1>0, <2>1, <2>2 DEF Closed
<1>6. ASSUME NEW q \in 1..nreq, FlushQueued(q) PROVE Closed'
  <2>1. fsref' > 0
    BY <1>6, <1>00 DEF FlushQueued, proc, Lasts
  <2>2. UNCHANGED <<tbl, ch>> /\ fsref > 0
    BY <1>6, <1>0, <1>00 DEF FlushQueued, fids, Lasts
  <2> QED
    BY <1>0, <2>1, <2>2 DEF Closed
<1>7. ASSUME NEW s \in Slave, DevDone(s) PROVE Closed'
  <2>1. CASE sn[s] = nil
    <3>1. UNCHANGED <<tbl, ch, fsref>>
      BY <1>7, <2>1 DEF DevDone
    <3> QED
      BY <1>0, <3>1 DEF Closed
  <2>2. CASE sn[s] # nil
    <3>1. sn[s] \in Fid /\ s \in Holders(sn[s])
      BY <2>2 DEF TypeHold, Holders
    <3>2. sn[s] \in tbl /\ fsref > 0
      BY <3>1, HasFid
    <3>3. UNCHANGED <<tbl, fsref>> /\ \A x \in Fid : x # sn[s] => ch'[x] = ch[x]
      BY <1>7, <2>2, <3>1 DEF DevDone, TypeFid
    <3> QED
      BY <1>0, <3>2, <3>3 DEF Closed
  <2> QED
    BY <2>1, <2>2
<1>8. ASSUME ShutDone PROVE Closed'
  <2>1. fsref' = fsref - 1 /\ ch' = (IF fsref = 1 THEN exfreefids ELSE ch)
        /\ tbl' = IF fsref = 1 THEN {} ELSE tbl
    BY <1>8 DEF ShutDone, exfree
  <2> QED
    BY <1>0, <1>00, <2>1 DEF Closed, exfreefids
<1>9. ASSUME NEW s \in Slave, Reply(s) PROVE Closed'
  <2>1. fsref' = fsref - 1 /\ ch' = (IF fsref = 1 THEN exfreefids ELSE ch)
        /\ tbl' = IF fsref = 1 THEN {} ELSE tbl
    BY <1>9 DEF Reply, exfree
  <2> QED
    BY <1>0, <1>00, <2>1 DEF Closed, exfreefids
<1>10. ASSUME NEW c \in Calls, Request(c) PROVE Closed'
  BY <1>10, <1>0, <1>00 DEF Request, EGoto, exqs, pool, loc, fids, Closed
<1>11. ASSUME Spawn \/ WakeSlave \/ FlushIntr \/ ShutIntr PROVE Closed'
  BY <1>11, <1>0 DEF Closed, Spawn, EGoto, SGoto, list, exqs, pool, loc, fids, WakeSlave,
     FlushIntr,
     Interrupt, ShutIntr
<1>12. ASSUME NEW q \in 1..nreq, FlushServed(q) PROVE Closed'
  BY <1>12, <1>0 DEF Closed, FlushServed, EGoto, list, exqs, pool, loc, fids
<1>13. ASSUME NEW q \in Exq, ShutNext(q) PROVE Closed'
  BY <1>13, <1>0 DEF Closed, ShutNext, EGoto, list, pool, loc, fids
<1>14. ASSUME NEW s \in Slave, QLock(s) \/ SleepWork(s) \/ Take(s) \/ TakeNone(s)
             \/ LinkWork(s) \/ NoFid(s) \/ DevFails(s) \/ Unwork(s) PROVE Closed'
  BY <1>14, <1>0 DEF Closed, QLock, SGoto, proc, list, exqs, loc, fids, SleepWork, exwork,
     pool,
     Take, TakeNone, qunlock, LinkWork, NoFid, Numbered, DevFails, Unwork
<1>15. CASE UNCHANGED vars
  BY <1>15, <1>0 DEF Closed, vars, proc, list, exqs, pool, loc, fids
<1> QED
  BY <1>1, <1>2, <1>3, <1>4, <1>5, <1>6, <1>7, <1>8, <1>9, <1>10, <1>11, <1>12, <1>13, <1>14,
     <1>15 DEF Next, Exportproc, Exslave, FlushMissed
-----------------------------------------------------------------------------
(***************************************************************************)
(* The numbers of Fids.                                                    *)
(***************************************************************************)
\* The last slave that has a Fid is alone with it.
LEMMA OneUser ==
  ASSUME IInv, NEW o \in Fid, ref[o] = 1, NEW s \in Holders(o), NEW t \in Holders(o)
  PROVE  t = s
<1>1. Cardinality(Holders(o)) = 1
  BY RefsParts DEF IInv, Counted
<1>2. \E x : Holders(o) = {x}
  BY <1>1, HolderCount, FS_Singleton
<1> QED
  BY <1>2

\* The slave that gives up the last reference to the Export is alone.
LEMMA OneSlave ==
  ASSUME IInv, fsref = 1, NEW s \in Slave, sq[s] # nil, NEW t \in Slave, sq[t] # nil
  PROVE  t = s
<1>1. Live(sq[s]) /\ Live(sq[t]) /\ ep = "gone"
  BY ExportLasts
<1>2. Cardinality(1..nreq \ gone) = 1 /\ IsFiniteSet(1..nreq \ gone)
  BY <1>1, RefsParts, LiveCount, Numbers DEF IInv, Lasts, PlainType, TypeReq
<1>3. \E x : 1..nreq \ gone = {x}
  BY <1>2, FS_Singleton
<1>4. sq[s] = sq[t]
  BY <1>1, <1>3 DEF Live
<1> QED
  BY <1>4 DEF IInv, Owners

\* When exportproc gives up the last reference there is no slave with a request.
LEMMA NoSlave ==
  ASSUME IInv, fsref = 1, ep # "gone", NEW s \in Slave
  PROVE  sq[s] = nil
BY ExportLasts

\* A slave's numbers are among the client's; those it has to itself are no other's.
LEMMA OneClaim ==
  ASSUME IInv, NEW s \in Slave, NEW t \in Slave, NEW n \in Fno, sq[s] # nil, sq[t] # nil,
         Claims(sq[s], n), Claims(sq[t], n)
  PROVE  s = t
<1>1. sq[s] \in Exq /\ Live(sq[s]) /\ sq[t] \in Exq /\ Live(sq[t])
  BY ExportLasts
<1>2. sq[s] = sq[t]
  BY <1>1 DEF IInv, Claimed
<1> QED
  BY <1>2 DEF IInv, Owners

\* The number of a Fid to be made is one of the client's.
LEMMA NewNumber ==
  ASSUME IInv, NEW s \in Slave, sq[s] # nil, Makes(s)
  PROVE  rpc[sq[s]].new \in Fno /\ Claims(sq[s], rpc[sq[s]].new)
<1>1. sq[s] \in Exq /\ Live(sq[s])
  BY ExportLasts
<1>2. rpc[sq[s]].new \in Fno \cup {0}
  BY <1>1 DEF IInv, PlainType, TypeReq, Fcall
<1>3. rpc[sq[s]].new # 0
  BY <1>1 DEF IInv, Asks, Makes
<1> QED
  BY <1>2, <1>3 DEF Claims

\* A Fid that is ready stays so when a slave gives back the one it has used, unless its
\* number was to be clunked or removed.
LEMMA ReadyAfterPut ==
  ASSUME IInv, NEW s \in Slave, PutFid(s), NEW o \in Fid, NEW n \in Fno, Ready(o, n)
  PROVE  Ready(o, n)' \/ (Claims(sq[s], n) /\ ~ Makes(s))
<1>1. GaveBack(s)
  BY PutFidEffect DEF IInv
<1>2. CASE sf[s] = nil
  BY <1>1, <1>2, Numbers DEF GaveBack, Ready
<1>3. CASE sf[s] # nil
  <2>1. sf[s] \in Fid /\ Put(sf[s], att[sf[s]] /\ Keeps(s))
    BY <1>1, <1>3 DEF GaveBack
  <2>2. CASE o # sf[s]
    BY <2>1, <2>2 DEF Put, Ready, IInv, PlainType, TypeFid
  <2>3. CASE o = sf[s] /\ Keeps(s)
    BY <2>1, <2>3 DEF Put, Ready, IInv, PlainType, TypeFid
  <2>4. CASE o = sf[s] /\ ~ Keeps(s)
    <3>1. n = rpc[sq[s]].fid
      BY <2>4, <1>3 DEF Ready, IInv, Named
    <3> QED
      BY <2>4, <3>1 DEF Keeps, Claims, Makes
  <2> QED
    BY <2>2, <2>3, <2>4
<1> QED
  BY <1>2, <1>3
\* A Fid that is ready stays so when a slave gives back the one it has made, unless it is
\* that one and an attach has failed.
LEMMA ReadyAfterPutNew ==
  ASSUME IInv, NEW s \in Slave, PutNew(s), NEW o \in Fid, NEW n \in Fno, Ready(o, n)
  PROVE  Ready(o, n)' \/ (Claims(sq[s], n) /\ o = sq[s] /\ ~ ok[s])
<1>1. GaveNew(s)
  BY PutNewEffect DEF IInv
<1>2. /\ sn[s] \in Fid /\ sn[s] = sq[s]
      /\ Put(sn[s], att[sn[s]] /\ (ok[s] \/ rpc[sq[s]].op # "attach"))
  BY <1>1, Numbers DEF GaveNew, IInv, Places
<1>3. CASE o # sn[s]
  BY <1>2, <1>3 DEF Put, Ready, IInv, PlainType, TypeFid
<1>4. CASE o = sn[s] /\ ok[s]
  BY <1>2, <1>4 DEF Put, Ready, IInv, PlainType, TypeFid
<1>5. CASE o = sn[s] /\ ~ ok[s]
  <2>1. fno[sn[s]] = rpc[sq[s]].new
    BY <1>2, Numbers DEF IInv, Named
  <2> QED
    BY <1>2, <1>5, <2>1 DEF Ready, Claims
<1> QED
  BY <1>3, <1>4, <1>5

\* A Fid is made where there was none.
LEMMA ReadyAfterNew ==
  ASSUME IInv, NEW s \in Slave, Exattach(s) \/ Exclone(s)
  PROVE  /\ sq[s] \in Exq /\ sq[s] \notin tbl /\ Holders(sq[s]) = {}
         /\ \A o \in Fid, n \in Fno : Ready(o, n) => Ready(o, n)'
<1>1. sp[s] \in Early /\ sq[s] \in Exq /\ sq[s] \notin gone
  BY MakeEffect DEF IInv, PlainType, TypeSlave, Owners, Live, Busy, Early
<1>2. \A t \in Slave : sq[t] = sq[s] => t = s
  BY <1>1, Numbers DEF IInv, Owners
<1>3. sq[s] \notin tbl /\ Holders(sq[s]) = {}
  BY <1>1, <1>2 DEF IInv, Unused
<1>4. ASSUME NEW o \in Fid, NEW n \in Fno, Ready(o, n) PROVE Ready(o, n)'
  <2>1. o # sq[s] /\ ch' = ch
    BY <1>3, <1>4, MakeEffect DEF IInv, Ready
  <2>2. CASE NotNew(s)
    BY <1>4, <2>1, <2>2 DEF NotNew, Ready
  <2>3. CASE New(s)
    BY <1>4, <2>1, <2>3 DEF New, Ready, IInv, PlainType, TypeFid, TypeTable
  <2> QED
    BY <2>2, <2>3, MakeEffect DEF IInv
<1> QED
  BY <1>1, <1>3, <1>4

\* Exmkfid makes no Fid of a number that is in the table.
LEMMA DistinctStep == IInv /\ [Next]_vars => Distinct'
<1> SUFFICES ASSUME IInv, [Next]_vars PROVE Distinct'
  OBVIOUS
<1> USE DEF IInv, PlainType, TypeTable, Distinct
<1>1. ASSUME NEW s \in Slave, Exattach(s) \/ Exclone(s) PROVE Distinct'
  <2>1. CASE NotNew(s)
    BY <2>1 DEF NotNew
  <2>2. CASE New(s)
    <3>1. sq[s] \in Fid /\ sq[s] \notin tbl
      BY <1>1, ReadyAfterNew, Numbers
    <3>2. /\ tbl' = tbl \cup {sq[s]} /\ fno'[sq[s]] = rpc[sq[s]].new
          /\ \A o \in tbl : o # sq[s] /\ fno'[o] = fno[o] /\ fno[o] # rpc[sq[s]].new
      BY <2>2, <3>1 DEF New
    <3> QED
      BY <3>1, <3>2
  <2> QED
    BY <1>1, <2>1, <2>2, MakeEffect
<1>2. ASSUME NEW s \in Slave, PutFid(s) PROVE Distinct'
  <2>1. GaveBack(s)
    BY <1>2, PutFidEffect
  <2> QED
    <3>1. CASE UNCHANGED <<tbl, fno>>
      BY <3>1
    <3>2. CASE sf[s] \in Fid /\ Put(sf[s], att[sf[s]] /\ Keeps(s))
      <4>1. CASE UNCHANGED <<tbl, fno>>
        BY <4>1
      <4>2. CASE sf[s] \notin tbl'
        <5>1. tbl' \subseteq tbl /\ \A x \in Fid : x # sf[s] => fno'[x] = fno[x]
          BY <3>2 DEF Put
        <5> QED
          BY <4>2, <5>1
      <4> QED
        BY <3>2, <4>1, <4>2 DEF Put
    <3> QED
      BY <2>1, <3>1, <3>2 DEF GaveBack
<1>3. ASSUME NEW s \in Slave, PutNew(s) PROVE Distinct'
  <2>1. GaveNew(s)
    BY <1>3, PutNewEffect
  <2> QED
    BY <2>1 DEF GaveNew, Put
<1>4. ASSUME ShutDone PROVE Distinct'
  BY <1>4 DEF ShutDone, EGoto, exfree, list, exqs, pool, loc
<1>5. ASSUME NEW s \in Slave, Reply(s) PROVE Distinct'
  BY <1>5 DEF Reply, SGoto, exfree, proc, list, pool
<1>6. ASSUME Spawn \/ WakeSlave \/ FlushIntr \/ exshutdown \/ ShutIntr PROVE Distinct'
  BY <1>6 DEF Spawn, EGoto, SGoto, list, exqs, pool, loc, fids, WakeSlave, FlushIntr,
     Interrupt, exshutdown, ShutIntr
<1>7. ASSUME NEW q \in 1..nreq, FlushQueued(q) PROVE Distinct'
  BY <1>7 DEF FlushQueued, Unlink, proc, pool, loc, fids
<1>8. ASSUME NEW q \in 1..nreq, FlushServed(q) PROVE Distinct'
  BY <1>8 DEF FlushServed, EGoto, list, exqs, pool, loc, fids
<1>9. ASSUME NEW q \in Exq, ShutNext(q) PROVE Distinct'
  BY <1>9 DEF ShutNext, EGoto, list, pool, loc, fids
<1>10. ASSUME NEW c \in Calls, Request(c) PROVE Distinct'
  BY <1>10 DEF Request, EGoto, exqs, pool, loc, fids
<1>11. ASSUME NEW s \in Slave, QLock(s) \/ SleepWork(s) \/ Take(s) \/ TakeNone(s)
             \/ LinkWork(s) \/ GetFid(s) \/ NoFid(s) \/ DevDone(s) \/ DevFails(s)
             \/ Unwork(s) PROVE Distinct'
  BY <1>11 DEF QLock, SGoto, proc, list, exqs, loc, fids, SleepWork, exwork, pool, Take,
     TakeNone, qunlock, LinkWork, GetFid, Numbered, Exgetfid, NoFid, DevDone, DevFails,
     Unwork
<1>12. CASE UNCHANGED vars
  BY <1>12 DEF vars, proc, list, exqs, pool, loc, fids
<1> QED
  BY <1>1, <1>2, <1>3, <1>4, <1>5, <1>6, <1>7, <1>8, <1>9, <1>10, <1>11, <1>12 DEF Next,
     Exportproc, Exslave, FlushMissed

\* A slave's Fids keep the numbers of its request: only the last user frees a Fid, and the
\* number of a Fid being made is no other request's to clunk.
LEMMA NamedStep == IInv /\ [Next]_vars => Named'
<1> SUFFICES ASSUME IInv, [Next]_vars PROVE Named'
  OBVIOUS
<1> USE DEF IInv, PlainType, Owners, Named
<1>0. Listed \subseteq Exq /\ \A q \in Listed : Fresh(q)
  BY ListedFresh
<1>00. \A t \in Slave : /\ sf[t] # nil \/ sn[t] # nil => sq[t] # nil
                        /\ sq[t] \in Exq \cup {nil} /\ sf[t] \in Fid \cup {nil}
                        /\ sn[t] \in Fid \cup {nil} /\ (sn[t] # nil => sn[t] = sq[t] /\ Makes(t))
  BY DEF Places, Busy, TypeSlave, TypeHold
<1>1. ASSUME NEW s \in Slave, GetFid(s) PROVE Named'
  <2>1. PICK o \in tbl : Got(s, o)
    BY <1>1, GetFidEffect
  <2>2. sn[s] = nil /\ sf' = [sf EXCEPT ![s] = o] /\ UNCHANGED <<sn, fno, att, sq, rpc>>
        /\ fno[o] = rpc[sq[s]].fid
    BY <2>1 DEF Got, Places
  <2> QED
    BY <2>2 DEF TypeHold
<1>2. ASSUME NEW s \in Slave, Exattach(s) \/ Exclone(s) PROVE Named'
  <2>1. UNCHANGED <<sf, sq, rpc>> /\ sq[s] \in Exq /\ Holders(sq[s]) = {}
    BY <1>2, MakeEffect, ReadyAfterNew
  <2>2. CASE NotNew(s)
    BY <2>1, <2>2 DEF NotNew
  <2>3. CASE New(s)
    <3>1. /\ fno'[sq[s]] = rpc[sq[s]].new /\ att'[sq[s]] /\ sn'[s] = sq[s]
          /\ \A x \in Fid : x # sq[s] => fno'[x] = fno[x] /\ att'[x] = att[x]
          /\ \A t \in Slave : t # s => sn'[t] = sn[t]
      BY <2>1, <2>3, Numbers DEF New, TypeHold, TypeTable, TypeFid
    <3>2. \A t \in Slave : sf[t] # sq[s] /\ sn[t] # sq[s]
      BY <2>1 DEF Holders
    <3> QED
      BY <2>1, <3>1, <3>2, <1>00
  <2> QED
    BY <1>2, <2>2, <2>3, MakeEffect
<1>3. ASSUME NEW s \in Slave, PutFid(s) PROVE Named'
  <2>1. GaveBack(s)
    BY <1>3, PutFidEffect
  <2>2. CASE sf[s] = nil
    BY <2>1, <2>2, Numbers DEF GaveBack
  <2>3. CASE sf[s] # nil
    <3>1. /\ sf[s] \in Fid /\ sf' = [sf EXCEPT ![s] = nil] /\ UNCHANGED <<sn, sq, rpc>>
          /\ Put(sf[s], att[sf[s]] /\ Keeps(s)) /\ s \in Holders(sf[s])
      BY <2>1, <2>3 DEF GaveBack, Holders
    <3>2. \A t \in Slave : t # s => sf'[t] = sf[t]
      BY <3>1 DEF TypeHold
    <3>3. \A x \in Fid : x # sf[s] => fno'[x] = fno[x] /\ att'[x] = att[x]
      BY <3>1 DEF Put, TypeFid
    <3>4. ASSUME NEW t \in Slave, t \in Holders(sf[s]), t # s PROVE fno' = fno
      <4>1. ref[sf[s]] # 1
        BY <3>1, <3>4, OneUser
      <4> QED
        BY <3>1, <4>1 DEF Put
    <3>5. sn[s] # sf[s] /\ sf'[s] = nil
      BY <2>3, <3>1 DEF Places, TypeHold
    <3>6. ASSUME NEW t \in Slave, sf'[t] # nil PROVE fno'[sf'[t]] = rpc'[sq'[t]].fid
      <4>1. t # s /\ sf[t] # nil /\ sf'[t] = sf[t]
        BY <3>2, <3>5, <3>6
      <4>2. CASE sf[t] = sf[s]
        BY <3>1, <3>4, <4>1, <4>2 DEF Holders
      <4>3. CASE sf[t] # sf[s]
        BY <3>1, <3>3, <4>1, <4>3, <1>00
      <4> QED
        BY <4>2, <4>3
    <3>7. ASSUME NEW t \in Slave, sn'[t] # nil
          PROVE  fno'[sn'[t]] = rpc'[sq'[t]].new /\ att'[sn'[t]]
      <4>1. sn'[t] = sn[t] /\ sn[t] # nil /\ sn[t] \in Fid /\ sq[t] # nil /\ sq[s] # nil
            /\ Makes(t)
        BY <2>3, <3>1, <3>7, <1>00
      <4>2. CASE sn[t] # sf[s]
        BY <3>1, <3>3, <4>1, <4>2
      <4>3. CASE sn[t] = sf[s]
        <5>1. t # s /\ t \in Holders(sf[s])
          BY <3>5, <4>3 DEF Holders
        <5>2. fno' = fno
          BY <5>1, <3>4
        <5>3. rpc[sq[s]].fid = rpc[sq[t]].new
          BY <2>3, <4>1, <4>3
        <5>4. rpc[sq[t]].new \in Fno /\ Claims(sq[t], rpc[sq[t]].new)
          BY <4>1, NewNumber
        <5>5. Keeps(s)
          <6>1. ~ Keeps(s) => Claims(sq[s], rpc[sq[t]].new)
            BY <5>3 DEF Keeps, Claims
          <6> QED
            BY <4>1, <5>1, <5>4, <6>1, OneClaim
        <5>6. att' = [att EXCEPT ![sf[s]] = att[sf[s]] /\ Keeps(s)]
          BY <3>1 DEF Put
        <5>7. att[sn[t]] /\ fno[sn[t]] = rpc[sq[t]].new
          BY <4>1
        <5>8. att'[sn[t]]
          BY <3>1, <4>3, <5>5, <5>6, <5>7 DEF TypeFid
        <5> QED
          BY <3>1, <4>1, <5>2, <5>7, <5>8
      <4> QED
        BY <4>2, <4>3
    <3> QED
      BY <3>6, <3>7
  <2> QED
    BY <2>2, <2>3
<1>4. ASSUME NEW s \in Slave, PutNew(s) PROVE Named'
  <2>1. GaveNew(s)
    BY <1>4, PutNewEffect
  <2>2. /\ sn[s] \in Fid /\ sn' = [sn EXCEPT ![s] = nil] /\ UNCHANGED <<sf, sq, rpc>>
        /\ s \in Holders(sn[s]) /\ sf[s] = nil /\ sn[s] = sq[s]
    BY <2>1, <1>00, Numbers DEF GaveNew, Holders, Places
  <2>3. \A x \in Fid : x # sn[s] => fno'[x] = fno[x] /\ att'[x] = att[x]
    BY <2>1 DEF GaveNew, Put, TypeFid
  <2>4. sn'[s] = nil /\ \A t \in Slave : t # s => sn'[t] = sn[t]
        /\ (sn[t] # nil => sn[t] # sn[s])
    BY <2>2, <1>00, Numbers DEF TypeHold
  <2>5. ASSUME NEW t \in Slave, sf[t] = sn[s] PROVE fno' = fno
    <3>1. t # s /\ t \in Holders(sn[s])
      BY <2>2, <2>5, Numbers DEF Holders
    <3>2. ref[sn[s]] # 1
      BY <2>2, <3>1, OneUser
    <3> QED
      BY <2>1, <3>2 DEF GaveNew, Put
  <2> QED
    BY <2>2, <2>3, <2>4, <2>5, <1>00
<1>5. ASSUME NEW s \in Slave, Reply(s) PROVE Named'
  <2>1. /\ sq[s] # nil /\ sf[s] = nil /\ sn[s] = nil /\ UNCHANGED <<sf, sn, att>>
        /\ \A t \in Slave : t # s => sq'[t] = sq[t]
        /\ \A x \in Exq : x # sq[s] => rpc'[x] = rpc[x]
    BY <1>5 DEF Reply, SGoto, exfree, Busy, Places, TypeSlave, TypeReq
  <2>2. \A t \in Slave : t # s /\ sq[t] # nil => sq[t] # sq[s] /\ fno' = fno
    BY <1>5, <2>1, OneSlave DEF Reply, exfree
  <2> QED
    BY <2>1, <2>2, <1>00
<1>6. ASSUME ShutDone PROVE Named'
  <2>1. UNCHANGED <<sf, sn, att, sq, rpc>> /\ ep # "gone" /\ (fsref = 1 \/ fno' = fno)
    BY <1>6 DEF ShutDone, EGoto, exfree, loc
  <2>2. fsref = 1 => \A t \in Slave : sq[t] = nil
    BY <2>1, NoSlave
  <2> QED
    BY <2>1, <2>2, <1>00
<1>7. ASSUME NEW s \in Slave, Take(s) PROVE Named'
  <2>1. sq[s] = nil /\ UNCHANGED <<sf, sn, fno, att, rpc>>
        /\ \A t \in Slave : t # s => sq'[t] = sq[t]
    BY <1>7 DEF Take, SGoto, Busy, fids, TypeSlave
  <2> QED
    BY <2>1, <1>00
<1>8. ASSUME NEW q \in 1..nreq, FlushQueued(q) PROVE Named'
  <2>1. \A t \in Slave : sq[t] # nil => sq[t] # q
    BY <1>8, <1>0 DEF FlushQueued, Fresh
  <2>2. UNCHANGED <<sf, sn, fno, att, sq>> /\ \A x \in Exq : x # q => rpc'[x] = rpc[x]
    BY <1>8 DEF FlushQueued, TypeReq, loc, fids
  <2> QED
    BY <2>1, <2>2, <1>00
<1>9. ASSUME exshutdown PROVE Named'
  <2>1. \A t \in Slave : sq[t] # nil => sq[t] \notin Listed
    BY <1>0 DEF Fresh
  <2>2. UNCHANGED <<sf, sn, fno, att, sq>>
        /\ \A x \in Exq : x \notin Listed => rpc'[x] = rpc[x]
    BY <1>9 DEF exshutdown, loc, fids
  <2> QED
    BY <2>1, <2>2, <1>00
<1>10. ASSUME NEW c \in Calls, Request(c) PROVE Named'
  <2>1. \A t \in Slave : sq[t] # nil => sq[t] # nreq + 1
    BY DEF Live, TypeReq
  <2>2. UNCHANGED <<sf, sn, fno, att, sq>> /\ \A x \in Exq : x # nreq + 1 => rpc'[x] = rpc[x]
    BY <1>10 DEF Request, TypeReq, loc, fids
  <2> QED
    BY <2>1, <2>2, <1>00
<1>11. ASSUME Spawn \/ WakeSlave \/ FlushIntr \/ ShutIntr PROVE Named'
  BY <1>11 DEF Spawn, EGoto, SGoto, list, exqs, pool, loc, fids, WakeSlave, FlushIntr,
     Interrupt, ShutIntr
<1>12. ASSUME NEW q \in 1..nreq, FlushServed(q) PROVE Named'
  BY <1>12 DEF FlushServed, EGoto, list, exqs, pool, loc, fids
<1>13. ASSUME NEW q \in Exq, ShutNext(q) PROVE Named'
  BY <1>13 DEF ShutNext, EGoto, list, pool, loc, fids
<1>14. ASSUME NEW s \in Slave, QLock(s) \/ SleepWork(s) \/ TakeNone(s) \/ LinkWork(s)
             \/ NoFid(s) \/ DevDone(s) \/ DevFails(s) \/ Unwork(s) PROVE Named'
  BY <1>14 DEF QLock, SGoto, proc, list, exqs, loc, fids, SleepWork, exwork, pool, TakeNone,
     qunlock, LinkWork, NoFid, Numbered, DevDone, DevFails, Unwork
<1>15. CASE UNCHANGED vars
  BY <1>15 DEF vars, proc, list, exqs, pool, loc, fids
<1> QED
  BY <1>1, <1>2, <1>3, <1>4, <1>5, <1>6, <1>7, <1>8, <1>9, <1>10, <1>11, <1>12, <1>13, <1>14,
     <1>15 DEF Next, Exportproc, Exslave, FlushMissed
\* A slave that has made a Fid without error, and the Fid.
LEMMA MadeFrame ==
  ASSUME IInv, NEW t \in Slave, sp[t] \in {"put", "putnew", "done", "write"}, Makes(t), ok[t]
  PROVE  /\ sq[t] \in Exq /\ sq[t] \in Fid /\ sq[t] # nil /\ Ready(sq[t], rpc[sq[t]].new)
         /\ rpc[sq[t]].new \in Fno /\ Claims(sq[t], rpc[sq[t]].new)
<1>1. sq[t] # nil
  BY DEF IInv, Owners, Busy
<1>2. Ready(sq[t], rpc[sq[t]].new)
  BY DEF IInv, Made
<1> QED
  BY <1>1, <1>2, ExportLasts, NewNumber, Numbers

\* What was made without error stays ready until the client is told: nobody else has been
\* asked to clunk it.
LEMMA MadeStep == IInv /\ [Next]_vars => Made'
<1> SUFFICES ASSUME IInv, [Next]_vars PROVE Made'
  OBVIOUS
<1> USE DEF IInv, PlainType
<1>0. Listed \subseteq Exq /\ \A q \in Listed : Fresh(q)
  BY ListedFresh
<1>00. \A t \in Slave : /\ sp[t] \in Busy => Live(sq[t]) /\ sq[t] \in Exq /\ sq[t] # nil
                        /\ sq[t] # nil => sp[t] \in Busy
  BY Numbers DEF TypeSlave, Owners
<1>1. ASSUME NEW c \in Calls, Request(c) PROVE Made'
  <2> SUFFICES ASSUME NEW t \in Slave, sp'[t] \in {"put", "putnew", "done", "write"},
                      Makes(t)', ok'[t]
               PROVE  Ready(sq[t], rpc[sq[t]].new)'
    BY DEF Made
  <2>1. /\ UNCHANGED <<sp, sq, ok, tbl, fno, att, ch>> /\ sq[t] \in Exq /\ sq[t] # nreq + 1
    BY <1>1, <1>00, Numbers DEF Request, Live, loc, fids, Busy, TypeReq
  <2>2. rpc'[sq[t]] = rpc[sq[t]]
    BY <1>1, <2>1 DEF Request, TypeReq
  <2> QED
    BY <2>1, <2>2, MadeFrame DEF Makes, Ready
<1>2. ASSUME Spawn \/ WakeSlave PROVE Made'
  <2> SUFFICES ASSUME NEW t \in Slave, sp'[t] \in {"put", "putnew", "done", "write"},
                      Makes(t)', ok'[t]
               PROVE  Ready(sq[t], rpc[sq[t]].new)'
    BY DEF Made
  <2>1. UNCHANGED <<sq, ok, rpc, tbl, fno, att, ch>> /\ sp[t] = sp'[t]
    BY <1>2 DEF Spawn, SGoto, WakeSlave, loc, fids, TypeSlave
  <2> QED
    BY <2>1, MadeFrame DEF Makes, Ready
<1>3. ASSUME NEW q \in 1..nreq, FlushQueued(q) PROVE Made'
  <2> SUFFICES ASSUME NEW t \in Slave, sp'[t] \in {"put", "putnew", "done", "write"},
                      Makes(t)', ok'[t]
               PROVE  Ready(sq[t], rpc[sq[t]].new)'
    BY DEF Made
  <2>1. /\ UNCHANGED <<sp, sq, ok, tbl, fno, att, ch>> /\ sq[t] \in Exq /\ sq[t] # q
    BY <1>3, <1>0, <1>00, Numbers DEF FlushQueued, Fresh, loc, fids, Busy
  <2>2. rpc'[sq[t]] = rpc[sq[t]]
    BY <1>3, <2>1 DEF FlushQueued, TypeReq
  <2> QED
    BY <2>1, <2>2, MadeFrame DEF Makes, Ready
<1>4. ASSUME exshutdown PROVE Made'
  <2> SUFFICES ASSUME NEW t \in Slave, sp'[t] \in {"put", "putnew", "done", "write"},
                      Makes(t)', ok'[t]
               PROVE  Ready(sq[t], rpc[sq[t]].new)'
    BY DEF Made
  <2>1. /\ UNCHANGED <<sp, sq, ok, tbl, fno, att, ch>> /\ sq[t] \in Exq /\ sq[t] \notin Listed
    BY <1>4, <1>0, <1>00, Numbers DEF exshutdown, Fresh, loc, fids, Busy
  <2>2. rpc'[sq[t]] = rpc[sq[t]]
    BY <1>4, <2>1 DEF exshutdown
  <2> QED
    BY <2>1, <2>2, MadeFrame DEF Makes, Ready
<1>5. ASSUME FlushIntr \/ ShutIntr PROVE Made'
  <2> SUFFICES ASSUME NEW t \in Slave, sp'[t] \in {"put", "putnew", "done", "write"},
                      Makes(t)', ok'[t]
               PROVE  Ready(sq[t], rpc[sq[t]].new)'
    BY DEF Made
  <2>1. Struck
    BY <1>5, Interrupted
  <2>2. sp[t] = sp'[t] /\ ok[t] = ok'[t] /\ UNCHANGED <<sq, rpc, tbl, fno, att, ch>>
    BY <2>1 DEF Struck
  <2> QED
    BY <2>2, MadeFrame DEF Makes, Ready
<1>6. ASSUME ShutDone PROVE Made'
  <2> SUFFICES ASSUME NEW t \in Slave, sp'[t] \in {"put", "putnew", "done", "write"},
                      Makes(t)', ok'[t]
               PROVE  Ready(sq[t], rpc[sq[t]].new)'
    BY DEF Made
  <2>1. UNCHANGED <<sp, sq, ok, rpc, att>> /\ ep # "gone"
    BY <1>6 DEF ShutDone, EGoto, exfree, loc
  <2>2. sq[t] # nil
    BY <2>1, <1>00 DEF Busy
  <2>3. fsref # 1
    BY <2>1, <2>2, NoSlave
  <2>4. UNCHANGED <<tbl, fno, ch>>
    BY <1>6, <2>3 DEF ShutDone, exfree
  <2> QED
    BY <2>1, <2>4, MadeFrame DEF Makes, Ready
<1>7. ASSUME NEW s \in Slave, QLock(s) \/ SleepWork(s) PROVE Made'
  <2> SUFFICES ASSUME NEW t \in Slave, sp'[t] \in {"put", "putnew", "done", "write"},
                      Makes(t)', ok'[t]
               PROVE  Ready(sq[t], rpc[sq[t]].new)'
    BY DEF Made
  <2>1. UNCHANGED <<rpc, tbl, fno, att, ch>> /\ t # s /\ sp[t] = sp'[t] /\ sq[t] = sq'[t]
        /\ ok[t] = ok'[t]
    BY <1>7 DEF QLock, SleepWork, loc, fids, SGoto, TypeSlave
  <2> QED
    BY <2>1, MadeFrame DEF Makes, Ready
<1>8. ASSUME NEW s \in Slave, Take(s) PROVE Made'
  <2> SUFFICES ASSUME NEW t \in Slave, sp'[t] \in {"put", "putnew", "done", "write"},
                      Makes(t)', ok'[t]
               PROVE  Ready(sq[t], rpc[sq[t]].new)'
    BY DEF Made
  <2>1. UNCHANGED <<rpc, tbl, fno, att, ch>> /\ t # s /\ sp[t] = sp'[t] /\ sq[t] = sq'[t]
        /\ ok[t] = ok'[t]
    BY <1>8 DEF Take, fids, SGoto, TypeSlave
  <2> QED
    BY <2>1, MadeFrame DEF Makes, Ready
<1>9. ASSUME NEW s \in Slave, TakeNone(s) PROVE Made'
  <2> SUFFICES ASSUME NEW t \in Slave, sp'[t] \in {"put", "putnew", "done", "write"},
                      Makes(t)', ok'[t]
               PROVE  Ready(sq[t], rpc[sq[t]].new)'
    BY DEF Made
  <2>1. qown = s /\ qunlock(s, "qlock") /\ "qlock" \in Place /\ sp[s] = "take"
    BY <1>9 DEF TakeNone, Locks, Place
  <2>2. HandedOver(s, "qlock")
    BY <2>1, HandOver
  <2>3. UNCHANGED <<sq, ok, rpc, tbl, fno, att, ch>>
    BY <1>9 DEF TakeNone, loc, fids
  <2>4. sp[t] = sp'[t]
    BY <2>1, <2>2, Numbers DEF HandedOver
  <2> QED
    BY <2>3, <2>4, MadeFrame DEF Makes, Ready
<1>10. ASSUME NEW s \in Slave, LinkWork(s) PROVE Made'
  <2> SUFFICES ASSUME NEW t \in Slave, sp'[t] \in {"put", "putnew", "done", "write"},
                      Makes(t)', ok'[t]
               PROVE  Ready(sq[t], rpc[sq[t]].new)'
    BY DEF Made
  <2>1. qown = s /\ qunlock(s, "fcall") /\ "fcall" \in Place /\ sp[s] = "link"
    BY <1>10 DEF LinkWork, Locks, Place
  <2>2. HandedOver(s, "fcall")
    BY <2>1, HandOver
  <2>3. UNCHANGED <<sq, ok, rpc, tbl, fno, att, ch>>
    BY <1>10 DEF LinkWork, loc, fids
  <2>4. sp[t] = sp'[t]
    BY <2>1, <2>2, Numbers DEF HandedOver
  <2> QED
    BY <2>3, <2>4, MadeFrame DEF Makes, Ready
<1>11. ASSUME NEW s \in Slave, GetFid(s) PROVE Made'
  <2> SUFFICES ASSUME NEW t \in Slave, sp'[t] \in {"put", "putnew", "done", "write"},
                      Makes(t)', ok'[t]
               PROVE  Ready(sq[t], rpc[sq[t]].new)'
    BY DEF Made
  <2>1. PICK o \in tbl : Got(s, o)
    BY <1>11, GetFidEffect
  <2>2. UNCHANGED <<sq, ok, rpc, tbl, fno, att, ch>>
    BY <2>1 DEF Got
  <2>3. t # s /\ sp[t] = sp'[t]
    BY <2>1, <2>2 DEF Got, TypeSlave, Makes
  <2> QED
    BY <2>2, <2>3, MadeFrame DEF Makes, Ready
<1>12. ASSUME NEW s \in Slave, NoFid(s) PROVE Made'
  <2> SUFFICES ASSUME NEW t \in Slave, sp'[t] \in {"put", "putnew", "done", "write"},
                      Makes(t)', ok'[t]
               PROVE  Ready(sq[t], rpc[sq[t]].new)'
    BY DEF Made
  <2>1. /\ UNCHANGED <<sq, rpc, tbl, fno, att, ch>>
        /\ ok' = [ok EXCEPT ![s] = rpc[sq[s]].op = "clunk"] /\ sp' = [sp EXCEPT ![s] = "done"]
    BY <1>12 DEF NoFid, SGoto, fids
  <2>2. t # s
    BY <2>1 DEF TypeSlave, Makes
  <2>3. sp[t] = sp'[t] /\ ok[t] = ok'[t]
    BY <2>1, <2>2 DEF TypeSlave
  <2> QED
    BY <2>1, <2>3, MadeFrame DEF Makes, Ready
<1>13. ASSUME NEW s \in Slave, Exattach(s) \/ Exclone(s) PROVE Made'
  <2> SUFFICES ASSUME NEW t \in Slave, sp'[t] \in {"put", "putnew", "done", "write"},
                      Makes(t)', ok'[t]
               PROVE  Ready(sq[t], rpc[sq[t]].new)'
    BY DEF Made
  <2>1. UNCHANGED <<sq, rpc>> /\ (New(s) \/ NotNew(s))
    BY <1>13, MakeEffect
  <2>2. t # s /\ sp[t] = sp'[t] /\ ok[t] = ok'[t]
    BY <2>1 DEF New, NotNew, TypeSlave
  <2>3. /\ sq[t] \in Fid /\ rpc[sq[t]].new \in Fno /\ Ready(sq[t], rpc[sq[t]].new)
    BY <2>1, <2>2, MadeFrame DEF Makes
  <2> QED
    BY <1>13, <2>1, <2>3, ReadyAfterNew DEF Ready
<1>14. ASSUME NEW s \in Slave, DevDone(s) PROVE Made'
  <2> SUFFICES ASSUME NEW t \in Slave, sp'[t] \in {"put", "putnew", "done", "write"},
                      Makes(t)', ok'[t]
               PROVE  Ready(sq[t], rpc[sq[t]].new)'
    BY DEF Made
  <2>1. /\ UNCHANGED <<sq, ok, rpc, tbl, fno,
                       att>> /\ sp[s] = "dev" /\ sp' = [sp EXCEPT ![s] = "put"]
        /\ \A x \in Fid : ch[x] = "open" => ch'[x] = "open"
    BY <1>14 DEF DevDone, SGoto, loc, TypeFid
  <2>2. CASE t = s
    <3>1. sn[s] = sq[s] /\ sn[s] \in Fid /\ s \in Holders(sn[s])
      BY <2>1, <2>2, Numbers DEF Places, Makes, TypeHold, Holders
    <3>2. sn[s] \in tbl /\ fno[sn[s]] = rpc[sq[s]].new /\ att[sn[s]]
      BY <3>1, HasFid, Numbers DEF Named
    <3>3. ch'[sn[s]] = "open"
      BY <1>14, <3>1, Numbers DEF DevDone, TypeFid
    <3> QED
      BY <2>1, <2>2, <3>1, <3>2, <3>3 DEF Ready
  <2>3. CASE t # s
    <3>1. sp[t] = sp'[t]
      BY <2>1, <2>3 DEF TypeSlave
    <3> QED
      BY <2>1, <3>1, MadeFrame DEF Makes, Ready
  <2> QED
    BY <2>2, <2>3
<1>15. ASSUME NEW s \in Slave, DevFails(s) PROVE Made'
  <2> SUFFICES ASSUME NEW t \in Slave, sp'[t] \in {"put", "putnew", "done", "write"},
                      Makes(t)', ok'[t]
               PROVE  Ready(sq[t], rpc[sq[t]].new)'
    BY DEF Made
  <2>1. /\ UNCHANGED <<sq, rpc, tbl, fno, att, ch>> /\ sp' = [sp EXCEPT ![s] = "put"]
        /\ ok' = [ok EXCEPT ![s] = FALSE]
    BY <1>15 DEF DevFails, SGoto, fids
  <2>2. t # s /\ sp[t] = sp'[t] /\ ok[t] = ok'[t]
    BY <2>1 DEF TypeSlave
  <2> QED
    BY <2>1, <2>2, MadeFrame DEF Makes, Ready
<1>16. ASSUME NEW s \in Slave, PutFid(s) PROVE Made'
  <2> SUFFICES ASSUME NEW t \in Slave, sp'[t] \in {"put", "putnew", "done", "write"},
                      Makes(t)', ok'[t]
               PROVE  Ready(sq[t], rpc[sq[t]].new)'
    BY DEF Made
  <2>1. GaveBack(s)
    BY <1>16, PutFidEffect
  <2>2. /\ UNCHANGED <<sq, ok, rpc>> /\ sp[t] \in {"put", "putnew", "done", "write"}
        /\ sp[s] = "put"
    BY <2>1 DEF GaveBack, TypeSlave
  <2>3. /\ sq[t] \in Fid /\ sq[t] # nil /\ rpc[sq[t]].new \in Fno
        /\ Ready(sq[t], rpc[sq[t]].new) /\ Claims(sq[t], rpc[sq[t]].new) /\ Makes(t)
    BY <2>2, MadeFrame DEF Makes
  <2>4. sq[s] # nil
    BY <2>2, <1>00 DEF Busy
  <2>5. ~ (Claims(sq[s], rpc[sq[t]].new) /\ ~ Makes(s))
    BY <2>3, <2>4, OneClaim
  <2> QED
    BY <1>16, <2>2, <2>3, <2>5, ReadyAfterPut DEF Ready
<1>17. ASSUME NEW s \in Slave, PutNew(s) PROVE Made'
  <2> SUFFICES ASSUME NEW t \in Slave, sp'[t] \in {"put", "putnew", "done", "write"},
                      Makes(t)', ok'[t]
               PROVE  Ready(sq[t], rpc[sq[t]].new)'
    BY DEF Made
  <2>1. GaveNew(s)
    BY <1>17, PutNewEffect
  <2>2. /\ UNCHANGED <<sq, ok, rpc>> /\ sp[t] \in {"put", "putnew", "done", "write"}
        /\ sp[s] = "putnew"
    BY <2>1 DEF GaveNew, TypeSlave
  <2>3. /\ sq[t] \in Fid /\ sq[t] # nil /\ rpc[sq[t]].new \in Fno
        /\ Ready(sq[t], rpc[sq[t]].new) /\ Claims(sq[t], rpc[sq[t]].new)
    BY <2>2, MadeFrame DEF Makes
  <2>4. sq[s] # nil
    BY <2>2, <1>00 DEF Busy
  <2>5. ~ (Claims(sq[s], rpc[sq[t]].new) /\ ~ ok[s])
    BY <2>2, <2>3, <2>4, OneClaim
  <2> QED
    BY <1>17, <2>2, <2>3, <2>5, ReadyAfterPutNew DEF Ready
<1>18. ASSUME NEW s \in Slave, Unwork(s) PROVE Made'
  <2> SUFFICES ASSUME NEW t \in Slave, sp'[t] \in {"put", "putnew", "done", "write"},
                      Makes(t)', ok'[t]
               PROVE  Ready(sq[t], rpc[sq[t]].new)'
    BY DEF Made
  <2>1. UNCHANGED <<sq, ok, rpc, tbl, fno, att, ch>> /\ sp[s] = "done"
        /\ sp' = [sp EXCEPT ![s] = "write"]
    BY <1>18 DEF Unwork, SGoto, loc, fids
  <2>2. sp[t] \in {"put", "putnew", "done", "write"}
    BY <2>1 DEF TypeSlave
  <2> QED
    BY <2>1, <2>2, MadeFrame DEF Makes, Ready
<1>19. ASSUME NEW s \in Slave, Reply(s) PROVE Made'
  <2> SUFFICES ASSUME NEW t \in Slave, sp'[t] \in {"put", "putnew", "done", "write"},
                      Makes(t)', ok'[t]
               PROVE  Ready(sq[t], rpc[sq[t]].new)'
    BY DEF Made
  <2>1. /\ sp[s] = "write" /\ sp' = [sp EXCEPT ![s] = "qlock"] /\ sq' = [sq EXCEPT ![s] = nil]
        /\ ok' = [ok EXCEPT ![s] = TRUE] /\ rpc' = [rpc EXCEPT ![sq[s]] = NoCall] /\ att' = att
    BY <1>19 DEF Reply, SGoto, exfree
  <2>2. /\ t # s /\ sp'[t] = sp[t] /\ sq'[t] = sq[t] /\ ok'[t] = ok[t]
        /\ sq[t] # nil /\ sq[s] # nil
    BY <2>1, <1>00 DEF TypeSlave, Busy
  <2>3. sq[t] # sq[s] /\ fsref # 1
    BY <2>2, OneSlave DEF Owners
  <2>4. UNCHANGED <<tbl, fno, ch>>
    BY <1>19, <2>3 DEF Reply, exfree
  <2>5. rpc'[sq[t]] = rpc[sq[t]]
    BY <2>1, <2>2, <2>3, <1>00 DEF TypeReq
  <2> QED
    BY <2>1, <2>2, <2>4, <2>5, MadeFrame DEF Makes, Ready
<1>20. ASSUME NEW q \in 1..nreq, FlushServed(q) PROVE Made'
  <2> SUFFICES ASSUME NEW t \in Slave, sp'[t] \in {"put", "putnew", "done", "write"},
                      Makes(t)', ok'[t]
               PROVE  Ready(sq[t], rpc[sq[t]].new)'
    BY DEF Made
  <2>1. UNCHANGED <<sq, ok, rpc, tbl, fno, att, ch>> /\ sp[t] = sp'[t]
    BY <1>20 DEF FlushServed, exqs, loc, fids, TypeSlave
  <2> QED
    BY <2>1, MadeFrame DEF Makes, Ready
<1>21. ASSUME NEW q \in Exq, ShutNext(q) PROVE Made'
  <2> SUFFICES ASSUME NEW t \in Slave, sp'[t] \in {"put", "putnew", "done", "write"},
                      Makes(t)', ok'[t]
               PROVE  Ready(sq[t], rpc[sq[t]].new)'
    BY DEF Made
  <2>1. UNCHANGED <<sq, ok, rpc, tbl, fno, att, ch>> /\ sp[t] = sp'[t]
    BY <1>21 DEF ShutNext, loc, fids, TypeSlave
  <2> QED
    BY <2>1, MadeFrame DEF Makes, Ready
<1>22. CASE UNCHANGED vars
  BY <1>22 DEF Made, Makes, Ready, vars, proc, list, exqs, pool, loc, fids
<1> QED
  BY <1>1, <1>2, <1>3, <1>4, <1>5, <1>6, <1>7, <1>8, <1>9, <1>10, <1>11, <1>12, <1>13, <1>14,
     <1>15, <1>16, <1>17, <1>18, <1>19, <1>20, <1>21, <1>22 DEF Next, Exportproc, Exslave,
     FlushMissed
\* What the client takes for a fid is one: it is told of a fid that is ready, and says of
\* it when it may go.
LEMMA AgreedStep == IInv /\ [Next]_vars => Agreed'
<1> SUFFICES ASSUME IInv, [Next]_vars PROVE Agreed'
  OBVIOUS
<1> USE DEF IInv, PlainType
<1>1. ASSUME NEW c \in Calls, Request(c) PROVE Agreed'
  <2> SUFFICES ASSUME ep' # "gone", NEW n \in Fno, client'[n] = "ok"
               PROVE  \E o \in Fid : Ready(o, n)'
    BY DEF Agreed
  <2>1. ep # "gone" /\ client[n] = "ok" /\ UNCHANGED <<tbl, fno, att, ch>>
    BY <1>1 DEF Request, EGoto, Asked, fids
  <2> QED
    BY <2>1 DEF Agreed, Ready
<1>2. ASSUME NEW q \in 1..nreq, FlushQueued(q) PROVE Agreed'
  <2> SUFFICES ASSUME ep' # "gone", NEW n \in Fno, client'[n] = "ok"
               PROVE  \E o \in Fid : Ready(o, n)'
    BY DEF Agreed
  <2>1. ep # "gone" /\ client[n] = "ok" /\ UNCHANGED <<tbl, fno, att, ch>>
    BY <1>2 DEF FlushQueued, Answered, fids
  <2> QED
    BY <2>1 DEF Agreed, Ready
<1>3. ASSUME ShutDone PROVE Agreed'
  <2> SUFFICES ASSUME ep' # "gone", NEW n \in Fno, client'[n] = "ok"
               PROVE  \E o \in Fid : Ready(o, n)'
    BY DEF Agreed
  <2> QED
    BY <1>3 DEF ShutDone, EGoto
<1>4. ASSUME NEW s \in Slave, Exattach(s) \/ Exclone(s) PROVE Agreed'
  <2> SUFFICES ASSUME ep' # "gone", NEW n \in Fno, client'[n] = "ok"
               PROVE  \E o \in Fid : Ready(o, n)'
    BY DEF Agreed
  <2>1. ep # "gone" /\ client[n] = "ok"
    BY <1>4, MakeEffect
  <2>2. PICK o \in Fid : Ready(o, n)
    BY <2>1 DEF Agreed
  <2>3. Ready(o, n)'
    BY <1>4, <2>2, ReadyAfterNew
  <2> QED
    BY <2>3
<1>5. ASSUME NEW s \in Slave, GetFid(s) PROVE Agreed'
  <2> SUFFICES ASSUME ep' # "gone", NEW n \in Fno, client'[n] = "ok"
               PROVE  \E o \in Fid : Ready(o, n)'
    BY DEF Agreed
  <2>1. ep # "gone" /\ client[n] = "ok" /\ UNCHANGED <<tbl, fno, att, ch>>
    BY <1>5, GetFidEffect DEF Got
  <2> QED
    BY <2>1 DEF Agreed, Ready
<1>6. ASSUME NEW s \in Slave, DevDone(s) PROVE Agreed'
  <2> SUFFICES ASSUME ep' # "gone", NEW n \in Fno, client'[n] = "ok"
               PROVE  \E o \in Fid : Ready(o, n)'
    BY DEF Agreed
  <2>1. ep # "gone" /\ client[n] = "ok" /\ UNCHANGED <<tbl, fno, att>>
        /\ \A x \in Fid : ch[x] = "open" => ch'[x] = "open"
    BY <1>6 DEF DevDone, proc, TypeFid
  <2> QED
    BY <2>1 DEF Agreed, Ready
<1>7. ASSUME NEW s \in Slave, PutFid(s) PROVE Agreed'
  <2> SUFFICES ASSUME ep' # "gone", NEW n \in Fno, client'[n] = "ok"
               PROVE  \E o \in Fid : Ready(o, n)'
    BY DEF Agreed
  <2>1. GaveBack(s)
    BY <1>7, PutFidEffect
  <2>2. ep # "gone" /\ client[n] = "ok" /\ sq[s] \in Exq /\ Live(sq[s])
    BY <2>1, Numbers DEF GaveBack, Owners, TypeSlave, Busy
  <2>3. PICK o \in Fid : Ready(o, n)
    BY <2>2 DEF Agreed
  <2>4. ~ Claims(sq[s], n)
    BY <2>2 DEF Claimed
  <2>5. Ready(o, n)'
    BY <1>7, <2>3, <2>4, ReadyAfterPut
  <2> QED
    BY <2>5
<1>8. ASSUME NEW s \in Slave, PutNew(s) PROVE Agreed'
  <2> SUFFICES ASSUME ep' # "gone", NEW n \in Fno, client'[n] = "ok"
               PROVE  \E o \in Fid : Ready(o, n)'
    BY DEF Agreed
  <2>1. GaveNew(s)
    BY <1>8, PutNewEffect
  <2>2. ep # "gone" /\ client[n] = "ok" /\ sq[s] \in Exq /\ Live(sq[s])
    BY <2>1, Numbers DEF GaveNew, Owners, TypeSlave, Busy
  <2>3. PICK o \in Fid : Ready(o, n)
    BY <2>2 DEF Agreed
  <2>4. ~ Claims(sq[s], n)
    BY <2>2 DEF Claimed
  <2>5. Ready(o, n)'
    BY <1>8, <2>3, <2>4, ReadyAfterPutNew
  <2> QED
    BY <2>5
<1>9. ASSUME NEW s \in Slave, Reply(s) PROVE Agreed'
  <2> SUFFICES ASSUME ep' # "gone", NEW n \in Fno, client'[n] = "ok"
               PROVE  \E o \in Fid : Ready(o, n)'
    BY DEF Agreed
  <2>1. sp[s] = "write" /\ ep # "gone" /\ sq[s] # nil
    BY <1>9 DEF Reply, SGoto, proc, Owners, Busy
  <2>2. fsref > 1 /\ sq[s] \in Exq /\ Live(sq[s])
    BY <2>1, ExportLasts
  <2>3. UNCHANGED <<tbl, fno, att, ch>>
    BY <1>9, <2>2 DEF Reply, exfree
  <2>4. CASE client[n] = "ok"
    BY <2>1, <2>3, <2>4 DEF Agreed, Ready
  <2>5. CASE client[n] # "ok"
    <3>1. n = rpc[sq[s]].new /\ ok[s]
      BY <1>9, <2>5 DEF Reply, Answered, TypeClient
    <3>2. Makes(s)
      BY <2>2, <3>1, Numbers DEF Asks, Makes
    <3>3. Ready(sq[s], n) /\ sq[s] \in Fid
      BY <2>1, <3>1, <3>2, MadeFrame
    <3> QED
      BY <2>3, <3>3 DEF Ready
  <2> QED
    BY <2>4, <2>5
<1>10. ASSUME FlushIntr \/ ShutIntr PROVE Agreed'
  <2> SUFFICES ASSUME ep' # "gone", NEW n \in Fno, client'[n] = "ok"
               PROVE  \E o \in Fid : Ready(o, n)'
    BY DEF Agreed
  <2>1. Struck
    BY <1>10, Interrupted
  <2>2. ep # "gone" /\ client[n] = "ok" /\ UNCHANGED <<tbl, fno, att, ch>>
    BY <2>1 DEF Struck
  <2> QED
    BY <2>2 DEF Agreed, Ready
<1>11. ASSUME Spawn \/ WakeSlave \/ exshutdown PROVE Agreed'
  <2> SUFFICES ASSUME ep' # "gone", NEW n \in Fno, client'[n] = "ok"
               PROVE  \E o \in Fid : Ready(o, n)'
    BY DEF Agreed
  <2>1. ep # "gone" /\ client[n] = "ok" /\ UNCHANGED <<tbl, fno, att, ch>>
    BY <1>11 DEF Spawn, WakeSlave, exshutdown, EGoto, fids
  <2> QED
    BY <2>1 DEF Agreed, Ready
<1>12. ASSUME NEW q \in 1..nreq, FlushServed(q) PROVE Agreed'
  <2> SUFFICES ASSUME ep' # "gone", NEW n \in Fno, client'[n] = "ok"
               PROVE  \E o \in Fid : Ready(o, n)'
    BY DEF Agreed
  <2>1. ep # "gone" /\ client[n] = "ok" /\ UNCHANGED <<tbl, fno, att, ch>>
    BY <1>12 DEF FlushServed, EGoto, fids
  <2> QED
    BY <2>1 DEF Agreed, Ready
<1>13. ASSUME NEW q \in Exq, ShutNext(q) PROVE Agreed'
  <2> SUFFICES ASSUME ep' # "gone", NEW n \in Fno, client'[n] = "ok"
               PROVE  \E o \in Fid : Ready(o, n)'
    BY DEF Agreed
  <2>1. ep # "gone" /\ client[n] = "ok" /\ UNCHANGED <<tbl, fno, att, ch>>
    BY <1>13 DEF ShutNext, EGoto, fids
  <2> QED
    BY <2>1 DEF Agreed, Ready
<1>14. ASSUME NEW s \in Slave, QLock(s) \/ SleepWork(s) \/ Take(s) \/ TakeNone(s)
             \/ LinkWork(s) PROVE Agreed'
  <2> SUFFICES ASSUME ep' # "gone", NEW n \in Fno, client'[n] = "ok"
               PROVE  \E o \in Fid : Ready(o, n)'
    BY DEF Agreed
  <2>1. ep # "gone" /\ client[n] = "ok" /\ UNCHANGED <<tbl, fno, att, ch>>
    BY <1>14 DEF QLock, SleepWork, Take, TakeNone, LinkWork, proc, fids
  <2> QED
    BY <2>1 DEF Agreed, Ready
<1>15. ASSUME NEW s \in Slave, NoFid(s) \/ DevFails(s) \/ Unwork(s) PROVE Agreed'
  <2> SUFFICES ASSUME ep' # "gone", NEW n \in Fno, client'[n] = "ok"
               PROVE  \E o \in Fid : Ready(o, n)'
    BY DEF Agreed
  <2>1. ep # "gone" /\ client[n] = "ok" /\ UNCHANGED <<tbl, fno, att, ch>>
    BY <1>15 DEF NoFid, DevFails, Unwork, proc, fids
  <2> QED
    BY <2>1 DEF Agreed, Ready
<1>16. CASE UNCHANGED vars
  BY <1>16 DEF Agreed, Ready, vars, proc, list, exqs, pool, loc, fids
<1> QED
  BY <1>1, <1>2, <1>3, <1>4, <1>5, <1>6, <1>7, <1>8, <1>9, <1>10, <1>11, <1>12, <1>13, <1>14,
     <1>15, <1>16 DEF Next, Exportproc, Exslave, FlushMissed
-----------------------------------------------------------------------------
(***************************************************************************)
(* Types.                                                                  *)
(***************************************************************************)

\* exportproc is in one of its places.
LEMMA TypeProcStep == IInv /\ [Next]_vars => TypeProc'
<1> SUFFICES ASSUME IInv, [Next]_vars PROVE TypeProc'
  OBVIOUS
<1> USE Numbers DEF IInv, PlainType, TypeReq, TypeProc
<1>1. ASSUME FlushIntr \/ ShutIntr PROVE TypeProc'
  <2>1. Struck
    BY <1>1, Interrupted
  <2> QED
    BY <2>1 DEF Struck, EPlace
<1>2. ASSUME NEW c \in Calls, Request(c) PROVE TypeProc'
  BY <1>2 DEF Request, EGoto, exqs, pool, loc, EPlace
<1>3. ASSUME Spawn PROVE TypeProc'
  BY <1>3 DEF Spawn, EGoto, SGoto, list, exqs, pool, loc, EPlace
<1>4. ASSUME WakeSlave PROVE TypeProc'
  BY <1>4 DEF WakeSlave, EGoto, list, exqs, pool, loc, EPlace
<1>5. ASSUME NEW q \in 1..nreq, FlushServed(q) PROVE TypeProc'
  BY <1>5 DEF FlushServed, EGoto, list, exqs, pool, loc, EPlace
<1>6. ASSUME exshutdown PROVE TypeProc'
  BY <1>6 DEF exshutdown, EGoto, pool, loc, EPlace
<1>7. ASSUME NEW q \in Exq, ShutNext(q) PROVE TypeProc'
  BY <1>7 DEF ShutNext, EGoto, list, pool, loc, EPlace
<1>8. ASSUME ShutDone PROVE TypeProc'
  BY <1>8 DEF ShutDone, EGoto, list, exqs, pool, loc, EPlace
<1>9. ASSUME NEW q \in 1..nreq, FlushQueued(q) PROVE TypeProc'
  BY <1>9 DEF FlushQueued, Unlink, proc, pool, loc
<1>10. ASSUME NEW s \in Slave, QLock(s) \/ SleepWork(s) \/ Take(s) \/ TakeNone(s)
             \/ LinkWork(s) \/ GetFid(s) \/ NoFid(s) \/ Exattach(s) \/ Exclone(s)
             \/ DevDone(s) \/ DevFails(s) \/ PutFid(s) \/ PutNew(s) \/ Unwork(s) \/ Reply(s)
             PROVE TypeProc'
  BY <1>10 DEF QLock, SGoto, proc, list, exqs, loc, SleepWork, exwork, pool, Take, TakeNone,
     qunlock, LinkWork, GetFid, Numbered, Exgetfid, NoFid, Exattach, Exmkfid, Exclone,
     DevDone, DevFails, PutFid, Exputfid, PutNew, Unwork, Reply
<1>11. CASE UNCHANGED vars
  BY <1>11 DEF vars, proc, list, exqs, pool, loc, fids
<1> QED
  BY <1>1, <1>2, <1>3, <1>4, <1>5, <1>6, <1>7, <1>8, <1>9, <1>10, <1>11 DEF Next, Exportproc,
     Exslave, FlushMissed

\* Requests are requests.
LEMMA TypeReqStep == IInv /\ [Next]_vars => TypeReq'
<1> SUFFICES ASSUME IInv, [Next]_vars PROVE TypeReq'
  OBVIOUS
<1> USE DEF IInv, PlainType, TypeReq
<1>0. NoCall \in Fcall
  BY DEF NoCall, Fcall, Op
<1>1. ASSUME NEW c \in Calls, Request(c) PROVE TypeReq'
  <2>1. c \in Fcall /\ nreq < MaxReq /\ nreq' = nreq + 1 /\ rpc' = [rpc EXCEPT ![nreq + 1] = c]
    BY <1>1 DEF Request, Calls
  <2>2. nreq' \in 0..MaxReq
    BY <2>1, Numbers
  <2>3. rpc' \in [Exq -> Fcall]
    BY <2>1
  <2> QED
    BY <2>2, <2>3
<1>2. ASSUME NEW q \in 1..nreq, FlushQueued(q) PROVE TypeReq'
  BY <1>2, <1>0 DEF FlushQueued, Unlink, proc, pool, loc
<1>3. ASSUME exshutdown PROVE TypeReq'
  BY <1>3, <1>0 DEF exshutdown, EGoto, pool, loc
<1>4. ASSUME NEW s \in Slave, Reply(s) PROVE TypeReq'
  BY <1>4, <1>0 DEF Reply, SGoto, proc, list, pool
<1>5. ASSUME Spawn \/ WakeSlave \/ FlushIntr \/ ShutIntr \/ ShutDone PROVE TypeReq'
  BY <1>5 DEF Spawn, EGoto, SGoto, list, exqs, pool, loc, WakeSlave, FlushIntr, Interrupt,
     ShutIntr, ShutDone
<1>6. ASSUME NEW q \in 1..nreq, FlushServed(q) PROVE TypeReq'
  BY <1>6 DEF FlushServed, EGoto, list, exqs, pool, loc
<1>7. ASSUME NEW q \in Exq, ShutNext(q) PROVE TypeReq'
  BY <1>7 DEF ShutNext, EGoto, list, pool, loc
<1>8. ASSUME NEW s \in Slave, QLock(s) \/ SleepWork(s) \/ Take(s) \/ TakeNone(s)
             \/ LinkWork(s) \/ GetFid(s) \/ NoFid(s) \/ Exattach(s) \/ Exclone(s)
             \/ DevDone(s) \/ DevFails(s) \/ PutFid(s) \/ PutNew(s) \/ Unwork(s)
             PROVE TypeReq'
  BY <1>8 DEF QLock, SGoto, proc, list, exqs, loc, SleepWork, exwork, pool, Take, TakeNone,
     qunlock, LinkWork, GetFid, Numbered, Exgetfid, NoFid, Exattach, Exmkfid, Exclone,
     DevDone, DevFails, PutFid, Exputfid, PutNew, Unwork
<1>9. CASE UNCHANGED vars
  BY <1>9 DEF vars, proc, list, exqs, pool, loc, fids
<1> QED
  BY <1>1, <1>2, <1>3, <1>4, <1>5, <1>6, <1>7, <1>8, <1>9 DEF Next, Exportproc, Exslave,
     FlushMissed

\* The list is made of requests.
LEMMA TypeListStep == IInv /\ [Next]_vars => TypeList'
<1> SUFFICES ASSUME IInv, [Next]_vars PROVE TypeList'
  OBVIOUS
<1> USE Numbers DEF IInv, PlainType, TypeReq, TypeList
<1>1. ASSUME NEW c \in Calls, Request(c) PROVE TypeList'
  <2>1. nreq + 1 \in Exq
    BY <1>1, Numbers DEF Request, Exq
  <2>2. /\ head' = (IF head = nil THEN nreq + 1 ELSE head) /\ tail' = nreq + 1
        /\ next' = next \/ next' = [next EXCEPT ![tail] = nreq + 1]
    BY <1>1 DEF Request
  <2> QED
    BY <2>1, <2>2
<1>2. ASSUME NEW q \in 1..nreq, FlushQueued(q) PROVE TypeList'
  BY <1>2 DEF FlushQueued, Unlink, proc, pool, loc
<1>3. ASSUME exshutdown PROVE TypeList'
  BY <1>3 DEF exshutdown, EGoto, pool, loc
<1>4. ASSUME NEW s \in Slave, Take(s) PROVE TypeList'
  BY <1>4 DEF Take, SGoto, proc, pool
<1>5. ASSUME Spawn \/ WakeSlave \/ FlushIntr \/ ShutIntr \/ ShutDone PROVE TypeList'
  BY <1>5 DEF Spawn, EGoto, SGoto, list, exqs, pool, loc, WakeSlave, FlushIntr, Interrupt,
     ShutIntr, ShutDone
<1>6. ASSUME NEW q \in 1..nreq, FlushServed(q) PROVE TypeList'
  BY <1>6 DEF FlushServed, EGoto, list, exqs, pool, loc
<1>7. ASSUME NEW q \in Exq, ShutNext(q) PROVE TypeList'
  BY <1>7 DEF ShutNext, EGoto, list, pool, loc
<1>8. ASSUME NEW s \in Slave, QLock(s) \/ SleepWork(s) \/ TakeNone(s) \/ LinkWork(s)
             \/ GetFid(s) \/ NoFid(s) \/ Exattach(s) \/ Exclone(s) \/ DevDone(s)
             \/ DevFails(s) \/ PutFid(s) \/ PutNew(s) \/ Unwork(s) \/ Reply(s)
             PROVE TypeList'
  BY <1>8 DEF QLock, SGoto, proc, list, exqs, loc, SleepWork, exwork, pool, TakeNone,
     qunlock, LinkWork, GetFid, Numbered, Exgetfid, NoFid, Exattach, Exmkfid, Exclone,
     DevDone, DevFails, PutFid, Exputfid, PutNew, Unwork, Reply
<1>9. CASE UNCHANGED vars
  BY <1>9 DEF vars, proc, list, exqs, pool, loc, fids
<1> QED
  BY <1>1, <1>2, <1>3, <1>4, <1>5, <1>6, <1>7, <1>8, <1>9 DEF Next, Exportproc, Exslave,
     FlushMissed

\* Exq.slave is a slave, if anything.
LEMMA TypeExqStep == IInv /\ [Next]_vars => TypeExq'
<1> SUFFICES ASSUME IInv, [Next]_vars PROVE TypeExq'
  OBVIOUS
<1> USE Numbers DEF IInv, PlainType, TypeReq, TypeExq
<1>0. Listed \subseteq Exq
  BY ListedFresh
<1>1. ASSUME FlushIntr \/ ShutIntr PROVE TypeExq'
  <2>1. Struck
    BY <1>1, Interrupted
  <2> QED
    BY <2>1 DEF Struck
<1>2. ASSUME exshutdown PROVE TypeExq'
  BY <1>2, <1>0 DEF exshutdown, EGoto, pool, loc, fids
<1>3. ASSUME NEW s \in Slave, LinkWork(s) PROVE TypeExq'
  <2>1. sq[s] \in Exq
    BY <1>3 DEF LinkWork, Owners, Busy, TypeSlave
  <2>2. work' = work \cup {sq[s]} /\ UNCHANGED <<slave, shut, gone>>
    BY <1>3 DEF LinkWork
  <2> QED
    BY <2>1, <2>2
<1>4. ASSUME NEW s \in Slave, Reply(s) PROVE TypeExq'
  <2>1. sq[s] \in Exq
    BY <1>4 DEF Reply, SGoto, Owners, Busy, TypeSlave
  <2>2. /\ gone' = gone \cup {sq[s]} /\ UNCHANGED <<shut, work>>
        /\ slave' = slave \/ slave' = [slave EXCEPT ![sq[s]] = nil]
    BY <1>4 DEF Reply
  <2> QED
    BY <2>1, <2>2
<1>5. ASSUME NEW q \in 1..nreq, FlushQueued(q) PROVE TypeExq'
  BY <1>5 DEF FlushQueued, Unlink, proc, pool, loc, TypeList, TypeSlave
<1>6. ASSUME NEW q \in Exq, ShutNext(q) PROVE TypeExq'
  BY <1>6 DEF ShutNext, EGoto, list, pool, loc, TypeList, TypeSlave
<1>7. ASSUME NEW s \in Slave, Take(s) PROVE TypeExq'
  BY <1>7 DEF Take, SGoto, proc, pool, TypeList, TypeSlave
<1>8. ASSUME NEW s \in Slave, Unwork(s) PROVE TypeExq'
  BY <1>8 DEF Unwork, SGoto, proc, list, pool, loc, TypeList, TypeSlave
<1>9. ASSUME Spawn \/ WakeSlave \/ ShutDone PROVE TypeExq'
  BY <1>9 DEF Spawn, EGoto, SGoto, list, exqs, pool, loc, WakeSlave, ShutDone
<1>10. ASSUME NEW q \in 1..nreq, FlushServed(q) PROVE TypeExq'
  BY <1>10 DEF FlushServed, EGoto, list, exqs, pool, loc
<1>11. ASSUME NEW c \in Calls, Request(c) PROVE TypeExq'
  BY <1>11 DEF Request, EGoto, exqs, pool, loc
<1>12. ASSUME NEW s \in Slave, QLock(s) \/ SleepWork(s) \/ TakeNone(s) \/ GetFid(s)
             \/ NoFid(s) \/ Exattach(s) \/ Exclone(s) \/ DevDone(s) \/ DevFails(s)
             \/ PutFid(s) \/ PutNew(s) PROVE TypeExq'
  BY <1>12 DEF QLock, SGoto, proc, list, exqs, loc, SleepWork, exwork, pool, TakeNone,
     GetFid, Numbered, Exgetfid, NoFid, Exattach, Exmkfid, Exclone, DevDone, DevFails,
     PutFid, Exputfid, PutNew
<1>13. CASE UNCHANGED vars
  BY <1>13 DEF vars, proc, list, exqs, pool, loc, fids
<1> QED
  BY <1>1, <1>2, <1>3, <1>4, <1>5, <1>6, <1>7, <1>8, <1>9, <1>10, <1>11, <1>12, <1>13 DEF
     Next, Exportproc, Exslave, FlushMissed

\* Counts are counts.
LEMMA TypeCountStep == IInv /\ [Next]_vars => TypeCount'
<1> SUFFICES ASSUME IInv, [Next]_vars PROVE TypeCount'
  OBVIOUS
<1> USE DEF IInv, PlainType, TypeCount
<1>0. fsref' \in Nat
  BY LastsStep, LiveCountNext DEF Lasts
<1>1. ASSUME NEW s \in Slave, Reply(s) PROVE TypeCount'
  <2>1. sq[s] \in Exq /\ sq[s] \notin gone /\ nreply' = [nreply EXCEPT ![sq[s]] = @ + 1]
    BY <1>1, Numbers DEF Reply, SGoto, TypeSlave, Owners, Busy, Live
  <2>2. nreply' \in [Exq -> 0..2]
    BY <2>1 DEF Replies
  <2> QED
    BY <1>0, <2>2
<1>2. ASSUME NEW q \in 1..nreq, FlushQueued(q) PROVE TypeCount'
  <2>1. q \in Exq /\ nreply' = [nreply EXCEPT ![q] = @ + 1]
    BY <1>2, Numbers DEF FlushQueued, TypeReq
  <2>2. nreply' \in [Exq -> 0..2]
    BY <2>1 DEF Replies
  <2> QED
    BY <1>0, <2>2
<1>3. ASSUME Spawn \/ WakeSlave \/ FlushIntr \/ exshutdown \/ ShutIntr \/ ShutDone
             PROVE TypeCount'
  BY <1>3, <1>0 DEF Spawn, EGoto, SGoto, list, exqs, pool, loc, WakeSlave, FlushIntr,
     Interrupt, exshutdown, ShutIntr, ShutDone
<1>4. ASSUME NEW q \in 1..nreq, FlushServed(q) PROVE TypeCount'
  BY <1>4, <1>0 DEF FlushServed, EGoto, list, exqs, pool, loc
<1>5. ASSUME NEW q \in Exq, ShutNext(q) PROVE TypeCount'
  BY <1>5, <1>0 DEF ShutNext, EGoto, list, pool, loc
<1>6. ASSUME NEW c \in Calls, Request(c) PROVE TypeCount'
  BY <1>6, <1>0 DEF Request, EGoto, exqs, pool, loc
<1>7. ASSUME NEW s \in Slave, QLock(s) \/ SleepWork(s) \/ Take(s) \/ TakeNone(s)
             \/ LinkWork(s) \/ GetFid(s) \/ NoFid(s) \/ Exattach(s) \/ Exclone(s)
             \/ DevDone(s) \/ DevFails(s) \/ PutFid(s) \/ PutNew(s) \/ Unwork(s)
             PROVE TypeCount'
  BY <1>7, <1>0 DEF QLock, SGoto, proc, list, exqs, loc, SleepWork, exwork, pool, Take,
     TakeNone, LinkWork, GetFid, Numbered, Exgetfid, NoFid, Exattach, Exmkfid, Exclone,
     DevDone, DevFails, PutFid, Exputfid, PutNew, Unwork
<1>8. CASE UNCHANGED vars
  BY <1>8, <1>0 DEF vars, proc, list, exqs, pool, loc, fids
<1> QED
  BY <1>1, <1>2, <1>3, <1>4, <1>5, <1>6, <1>7, <1>8 DEF Next, Exportproc, Exslave, FlushMissed

\* Slaves wait for exq.qwait.
LEMMA TypePoolStep == IInv /\ [Next]_vars => TypePool'
<1> SUFFICES ASSUME IInv, [Next]_vars PROVE TypePool'
  OBVIOUS
<1> USE DEF IInv, PlainType, TypePool
<1>1. ASSUME NEW s \in Slave, QLock(s) PROVE TypePool'
  <2>1. qwait' = qwait \/ qwait' = Append(qwait, s)
    BY <1>1 DEF QLock
  <2>2. qown' \in Slave \cup {nil}
    BY <1>1 DEF QLock
  <2> QED
    BY <2>1, <2>2
<1>2. ASSUME NEW s \in Slave, TakeNone(s) PROVE TypePool'
  <2>1. qown = s /\ qunlock(s, "qlock") /\ "qlock" \in Place
    BY <1>2 DEF TakeNone, Locks, Place
  <2> QED
    BY <1>2, <2>1, HandOver DEF HandedOver, TakeNone, loc
<1>3. ASSUME NEW s \in Slave, LinkWork(s) PROVE TypePool'
  <2>1. qown = s /\ qunlock(s, "fcall") /\ "fcall" \in Place
    BY <1>3 DEF LinkWork, Locks, Place
  <2> QED
    BY <1>3, <2>1, HandOver DEF HandedOver, LinkWork, loc
<1>4. ASSUME Spawn \/ WakeSlave \/ FlushIntr \/ exshutdown \/ ShutIntr \/ ShutDone
             PROVE TypePool'
  BY <1>4 DEF Spawn, EGoto, SGoto, list, exqs, pool, loc, WakeSlave, FlushIntr, Interrupt,
     exshutdown, ShutIntr, ShutDone
<1>5. ASSUME NEW q \in 1..nreq, FlushQueued(q) PROVE TypePool'
  BY <1>5 DEF FlushQueued, Unlink, proc, pool, loc
<1>6. ASSUME NEW q \in 1..nreq, FlushServed(q) PROVE TypePool'
  BY <1>6 DEF FlushServed, EGoto, list, exqs, pool, loc
<1>7. ASSUME NEW q \in Exq, ShutNext(q) PROVE TypePool'
  BY <1>7 DEF ShutNext, EGoto, list, pool, loc
<1>8. ASSUME NEW c \in Calls, Request(c) PROVE TypePool'
  BY <1>8 DEF Request, EGoto, exqs, pool, loc
<1>9. ASSUME NEW s \in Slave, SleepWork(s) \/ Take(s) \/ GetFid(s) \/ NoFid(s) \/ Exattach(s)
             \/ Exclone(s) \/ DevDone(s) \/ DevFails(s) \/ PutFid(s) \/ PutNew(s)
             \/ Unwork(s) \/ Reply(s) PROVE TypePool'
  BY <1>9 DEF SleepWork, SGoto, exwork, proc, list, exqs, pool, loc, Take, GetFid, Numbered,
     Exgetfid, NoFid, Exattach, Exmkfid, Exclone, DevDone, DevFails, PutFid, Exputfid,
     PutNew, Unwork, Reply
<1>10. CASE UNCHANGED vars
  BY <1>10 DEF vars, proc, list, exqs, pool, loc, fids
<1> QED
  BY <1>1, <1>2, <1>3, <1>4, <1>5, <1>6, <1>7, <1>8, <1>9, <1>10 DEF Next, Exportproc,
     Exslave, FlushMissed

\* Slaves are in one of their places.
LEMMA TypeSlaveStep == IInv /\ [Next]_vars => TypeSlave'
<1> SUFFICES ASSUME IInv, [Next]_vars PROVE TypeSlave'
  OBVIOUS
<1> USE DEF IInv, PlainType, TypeSlave
<1>1. ASSUME FlushIntr \/ ShutIntr PROVE TypeSlave'
  <2>1. Struck
    BY <1>1, Interrupted
  <2> QED
    BY <2>1 DEF Struck
<1>2. ASSUME NEW s \in Slave, TakeNone(s) PROVE TypeSlave'
  <2>1. qown = s /\ qunlock(s, "qlock") /\ "qlock" \in Place
    BY <1>2 DEF TakeNone, Locks, Place
  <2> QED
    BY <1>2, <2>1, HandOver DEF HandedOver, TakeNone, loc
<1>3. ASSUME NEW s \in Slave, LinkWork(s) PROVE TypeSlave'
  <2>1. qown = s /\ qunlock(s, "fcall") /\ "fcall" \in Place
    BY <1>3 DEF LinkWork, Locks, Place
  <2> QED
    BY <1>3, <2>1, HandOver DEF HandedOver, LinkWork, loc
<1>4. ASSUME NEW s \in Slave, Take(s) PROVE TypeSlave'
  BY <1>4 DEF Take, SGoto, proc, pool, fids, Place, TypeList
<1>5. ASSUME Spawn PROVE TypeSlave'
  BY <1>5 DEF Spawn, EGoto, SGoto, list, exqs, pool, loc, Place
<1>6. ASSUME WakeSlave PROVE TypeSlave'
  BY <1>6 DEF WakeSlave, EGoto, list, exqs, pool, loc, Place
<1>7. ASSUME NEW s \in Slave, QLock(s) PROVE TypeSlave'
  BY <1>7 DEF QLock, SGoto, proc, list, exqs, loc, Place
<1>8. ASSUME NEW s \in Slave, SleepWork(s) PROVE TypeSlave'
  BY <1>8 DEF SleepWork, SGoto, exwork, proc, list, exqs, pool, loc, Place
<1>9. ASSUME NEW s \in Slave, GetFid(s) PROVE TypeSlave'
  BY <1>9 DEF GetFid, Numbered, Exgetfid, SGoto, proc, list, exqs, pool, Place
<1>10. ASSUME NEW s \in Slave, NoFid(s) PROVE TypeSlave'
  BY <1>10 DEF NoFid, SGoto, Numbered, proc, list, exqs, pool, Place
<1>11. ASSUME NEW s \in Slave, Exattach(s) PROVE TypeSlave'
  BY <1>11 DEF Exattach, Exmkfid, Numbered, SGoto, proc, list, exqs, pool, Place
<1>12. ASSUME NEW s \in Slave, Exclone(s) PROVE TypeSlave'
  BY <1>12 DEF Exclone, Exmkfid, Numbered, SGoto, proc, list, exqs, pool, Place
<1>13. ASSUME NEW s \in Slave, DevDone(s) PROVE TypeSlave'
  BY <1>13 DEF DevDone, SGoto, proc, list, exqs, pool, loc, Place
<1>14. ASSUME NEW s \in Slave, DevFails(s) PROVE TypeSlave'
  BY <1>14 DEF DevFails, SGoto, proc, list, exqs, pool, Place
<1>15. ASSUME NEW s \in Slave, PutFid(s) PROVE TypeSlave'
  BY <1>15 DEF PutFid, SGoto, Exputfid, proc, list, exqs, pool, Place
<1>16. ASSUME NEW s \in Slave, PutNew(s) PROVE TypeSlave'
  BY <1>16 DEF PutNew, SGoto, Exputfid, proc, list, exqs, pool, Place
<1>17. ASSUME NEW s \in Slave, Unwork(s) PROVE TypeSlave'
  BY <1>17 DEF Unwork, SGoto, proc, list, pool, loc, Place
<1>18. ASSUME NEW s \in Slave, Reply(s) PROVE TypeSlave'
  BY <1>18 DEF Reply, SGoto, proc, list, pool, Place
<1>19. ASSUME exshutdown \/ ShutDone PROVE TypeSlave'
  BY <1>19 DEF exshutdown, EGoto, pool, loc, ShutDone, list, exqs
<1>20. ASSUME NEW q \in 1..nreq, FlushQueued(q) PROVE TypeSlave'
  BY <1>20 DEF FlushQueued, Unlink, proc, pool, loc
<1>21. ASSUME NEW q \in 1..nreq, FlushServed(q) PROVE TypeSlave'
  BY <1>21 DEF FlushServed, EGoto, list, exqs, pool, loc
<1>22. ASSUME NEW q \in Exq, ShutNext(q) PROVE TypeSlave'
  BY <1>22 DEF ShutNext, EGoto, list, pool, loc
<1>23. ASSUME NEW c \in Calls, Request(c) PROVE TypeSlave'
  BY <1>23 DEF Request, EGoto, exqs, pool, loc
<1>24. CASE UNCHANGED vars
  BY <1>24 DEF vars, proc, list, exqs, pool, loc, fids
<1> QED
  BY <1>1, <1>2, <1>3, <1>4, <1>5, <1>6, <1>7, <1>8, <1>9, <1>10, <1>11, <1>12, <1>13, <1>14,
     <1>15, <1>16, <1>17, <1>18, <1>19, <1>20, <1>21, <1>22, <1>23, <1>24 DEF Next,
     Exportproc, Exslave, FlushMissed

\* Slaves have Fids.
LEMMA TypeHoldStep == IInv /\ [Next]_vars => TypeHold'
<1> SUFFICES ASSUME IInv, [Next]_vars PROVE TypeHold'
  OBVIOUS
<1> USE DEF IInv, PlainType, TypeHold
<1>1. ASSUME NEW s \in Slave, GetFid(s) PROVE TypeHold'
  <2>1. PICK o \in tbl : Got(s, o)
    BY <1>1, GetFidEffect
  <2> QED
    BY <2>1 DEF Got, TypeTable
<1>2. ASSUME NEW s \in Slave, Exattach(s) \/ Exclone(s) PROVE TypeHold'
  <2>1. UNCHANGED sf /\ (New(s) \/ NotNew(s)) /\ sq[s] \in Fid
    BY <1>2, MakeEffect, ReadyAfterNew, Numbers
  <2> QED
    BY <2>1 DEF New, NotNew
<1>3. ASSUME NEW s \in Slave, PutFid(s) PROVE TypeHold'
  BY <1>3 DEF PutFid, SGoto, proc, list, exqs, pool
<1>4. ASSUME NEW s \in Slave, PutNew(s) PROVE TypeHold'
  BY <1>4 DEF PutNew, SGoto, proc, list, exqs, pool
<1>5. ASSUME Spawn \/ WakeSlave \/ FlushIntr \/ exshutdown \/ ShutIntr \/ ShutDone
             PROVE TypeHold'
  BY <1>5 DEF Spawn, EGoto, SGoto, list, exqs, pool, loc, WakeSlave, FlushIntr, Interrupt,
     exshutdown, ShutIntr, ShutDone
<1>6. ASSUME NEW q \in 1..nreq, FlushQueued(q) PROVE TypeHold'
  BY <1>6 DEF FlushQueued, Unlink, proc, pool, loc
<1>7. ASSUME NEW q \in 1..nreq, FlushServed(q) PROVE TypeHold'
  BY <1>7 DEF FlushServed, EGoto, list, exqs, pool, loc
<1>8. ASSUME NEW q \in Exq, ShutNext(q) PROVE TypeHold'
  BY <1>8 DEF ShutNext, EGoto, list, pool, loc
<1>9. ASSUME NEW c \in Calls, Request(c) PROVE TypeHold'
  BY <1>9 DEF Request, EGoto, exqs, pool, loc
<1>10. ASSUME NEW s \in Slave, QLock(s) \/ SleepWork(s) \/ Take(s) \/ TakeNone(s)
             \/ LinkWork(s) \/ NoFid(s) \/ DevDone(s) \/ DevFails(s) \/ Unwork(s) \/ Reply(s)
             PROVE TypeHold'
  BY <1>10 DEF QLock, SGoto, proc, list, exqs, loc, SleepWork, exwork, pool, Take, TakeNone,
     qunlock, LinkWork, NoFid, Numbered, DevDone, DevFails, Unwork, Reply
<1>11. CASE UNCHANGED vars
  BY <1>11 DEF vars, proc, list, exqs, pool, loc, fids
<1> QED
  BY <1>1, <1>2, <1>3, <1>4, <1>5, <1>6, <1>7, <1>8, <1>9, <1>10, <1>11 DEF Next, Exportproc,
     Exslave, FlushMissed

\* The table has Fids, and Fids have numbers.
LEMMA TypeTableStep == IInv /\ [Next]_vars => TypeTable'
<1> SUFFICES ASSUME IInv, [Next]_vars PROVE TypeTable'
  OBVIOUS
<1> USE Numbers DEF IInv, PlainType, TypeTable
<1>1. ASSUME NEW s \in Slave, Exattach(s) \/ Exclone(s) PROVE TypeTable'
  <2>1. (New(s) \/ NotNew(s)) /\ sq[s] \in Fid /\ sq[s] # nil /\ Makes(s)
    BY <1>1, MakeEffect, ReadyAfterNew, Numbers
  <2>2. rpc[sq[s]].new \in Fno
    BY <2>1, NewNumber
  <2> QED
    BY <2>1, <2>2 DEF New, NotNew
<1>2. ASSUME NEW s \in Slave, PutFid(s) PROVE TypeTable'
  <2>1. GaveBack(s)
    BY <1>2, PutFidEffect
  <2> QED
    BY <2>1 DEF GaveBack, Put
<1>3. ASSUME NEW s \in Slave, PutNew(s) PROVE TypeTable'
  <2>1. GaveNew(s)
    BY <1>3, PutNewEffect
  <2> QED
    BY <2>1 DEF GaveNew, Put
<1>4. ASSUME ShutDone PROVE TypeTable'
  BY <1>4 DEF ShutDone, EGoto, exfree, list, exqs, pool, loc
<1>5. ASSUME NEW s \in Slave, Reply(s) PROVE TypeTable'
  BY <1>5 DEF Reply, SGoto, exfree, proc, list, pool
<1>6. ASSUME Spawn \/ WakeSlave \/ FlushIntr \/ exshutdown \/ ShutIntr PROVE TypeTable'
  BY <1>6 DEF Spawn, EGoto, SGoto, list, exqs, pool, loc, fids, WakeSlave, FlushIntr,
     Interrupt, exshutdown, ShutIntr
<1>7. ASSUME NEW q \in 1..nreq, FlushQueued(q) PROVE TypeTable'
  BY <1>7 DEF FlushQueued, Unlink, proc, pool, loc, fids
<1>8. ASSUME NEW q \in 1..nreq, FlushServed(q) PROVE TypeTable'
  BY <1>8 DEF FlushServed, EGoto, list, exqs, pool, loc, fids
<1>9. ASSUME NEW q \in Exq, ShutNext(q) PROVE TypeTable'
  BY <1>9 DEF ShutNext, EGoto, list, pool, loc, fids
<1>10. ASSUME NEW c \in Calls, Request(c) PROVE TypeTable'
  BY <1>10 DEF Request, EGoto, exqs, pool, loc, fids
<1>11. ASSUME NEW s \in Slave, QLock(s) \/ SleepWork(s) \/ Take(s) \/ TakeNone(s)
             \/ LinkWork(s) \/ GetFid(s) \/ NoFid(s) \/ DevDone(s) \/ DevFails(s)
             \/ Unwork(s) PROVE TypeTable'
  BY <1>11 DEF QLock, SGoto, proc, list, exqs, loc, fids, SleepWork, exwork, pool, Take,
     TakeNone, qunlock, LinkWork, GetFid, Numbered, Exgetfid, NoFid, DevDone, DevFails,
     Unwork
<1>12. CASE UNCHANGED vars
  BY <1>12 DEF vars, proc, list, exqs, pool, loc, fids
<1> QED
  BY <1>1, <1>2, <1>3, <1>4, <1>5, <1>6, <1>7, <1>8, <1>9, <1>10, <1>11, <1>12 DEF Next,
     Exportproc, Exslave, FlushMissed

\* Fids have a count, are attached or not, and have a channel or none.
LEMMA TypeFidStep == IInv /\ [Next]_vars => TypeFid'
<1> SUFFICES ASSUME IInv, [Next]_vars PROVE TypeFid'
  OBVIOUS
<1> USE DEF IInv, PlainType, TypeFid
<1>1. ASSUME NEW s \in Slave, Exattach(s) \/ Exclone(s) PROVE TypeFid'
  <2>1. (New(s) \/ NotNew(s)) /\ sq[s] \in Fid /\ ch' = ch
    BY <1>1, MakeEffect, ReadyAfterNew, Numbers
  <2>2. CASE New(s)
    BY <2>1, <2>2 DEF New
  <2>3. CASE NotNew(s)
    BY <2>1, <2>3 DEF NotNew
  <2> QED
    BY <2>1, <2>2, <2>3
<1>2. ASSUME NEW s \in Slave, PutFid(s) PROVE TypeFid'
  <2>1. GaveBack(s)
    BY <1>2, PutFidEffect
  <2>2. CASE sf[s] = nil
    BY <2>1, <2>2, Numbers DEF GaveBack
  <2>3. CASE sf[s] # nil
    <3>1. sf[s] \in Fid /\ s \in Holders(sf[s]) /\ Put(sf[s], att[sf[s]] /\ Keeps(s))
      BY <2>1, <2>3 DEF GaveBack, Holders
    <3>2. ref[sf[s]] > 0
      BY <3>1, HasFid
    <3>3. att[sf[s]] \in BOOLEAN
      BY <3>1
    <3>4. (att[sf[s]] /\ Keeps(s)) \in BOOLEAN
      BY <3>3
    <3>5. PICK a \in BOOLEAN : Put(sf[s], a)
      BY <3>1, <3>4
    <3> QED
      BY <3>1, <3>2, <3>5 DEF Put
  <2> QED
    BY <2>2, <2>3
<1>3. ASSUME NEW s \in Slave, PutNew(s) PROVE TypeFid'
  <2>1. GaveNew(s)
    BY <1>3, PutNewEffect
  <2>2. sn[s] \in Fid /\ s \in Holders(sn[s])
    BY <2>1 DEF GaveNew, Holders
  <2>3. ref[sn[s]] > 0
    BY <2>2, HasFid
  <2>4. att[sn[s]] \in BOOLEAN
    BY <2>2
  <2>5. (att[sn[s]] /\ (ok[s] \/ rpc[sq[s]].op # "attach")) \in BOOLEAN
    BY <2>4
  <2>6. PICK a \in BOOLEAN : Put(sn[s], a)
    BY <2>1, <2>5 DEF GaveNew
  <2> QED
    BY <2>2, <2>3, <2>6 DEF Put
<1>4. ASSUME NEW s \in Slave, GetFid(s) PROVE TypeFid'
  <2>1. PICK o \in tbl : Got(s, o)
    BY <1>4, GetFidEffect
  <2> QED
    BY <2>1 DEF Got, TypeTable
<1>5. ASSUME ShutDone PROVE TypeFid'
  BY <1>5 DEF ShutDone, EGoto, exfree, list, exqs, pool, loc, exfreefids
<1>6. ASSUME NEW s \in Slave, DevDone(s) PROVE TypeFid'
  BY <1>6 DEF DevDone, SGoto, proc, list, exqs, pool, loc
<1>7. ASSUME NEW s \in Slave, Reply(s) PROVE TypeFid'
  BY <1>7 DEF Reply, SGoto, exfree, proc, list, pool, exfreefids
<1>8. ASSUME Spawn \/ WakeSlave \/ FlushIntr \/ exshutdown \/ ShutIntr PROVE TypeFid'
  BY <1>8 DEF Spawn, EGoto, SGoto, list, exqs, pool, loc, fids, WakeSlave, FlushIntr,
     Interrupt, exshutdown, ShutIntr
<1>9. ASSUME NEW q \in 1..nreq, FlushQueued(q) PROVE TypeFid'
  BY <1>9 DEF FlushQueued, Unlink, proc, pool, loc, fids
<1>10. ASSUME NEW q \in 1..nreq, FlushServed(q) PROVE TypeFid'
  BY <1>10 DEF FlushServed, EGoto, list, exqs, pool, loc, fids
<1>11. ASSUME NEW q \in Exq, ShutNext(q) PROVE TypeFid'
  BY <1>11 DEF ShutNext, EGoto, list, pool, loc, fids
<1>12. ASSUME NEW c \in Calls, Request(c) PROVE TypeFid'
  BY <1>12 DEF Request, EGoto, exqs, pool, loc, fids
<1>13. ASSUME NEW s \in Slave, QLock(s) \/ SleepWork(s) \/ Take(s) \/ TakeNone(s)
             \/ LinkWork(s) \/ NoFid(s) \/ DevFails(s) \/ Unwork(s) PROVE TypeFid'
  BY <1>13 DEF QLock, SGoto, proc, list, exqs, loc, fids, SleepWork, exwork, pool, Take,
     TakeNone, qunlock, LinkWork, NoFid, Numbered, DevFails, Unwork
<1>14. CASE UNCHANGED vars
  BY <1>14 DEF vars, proc, list, exqs, pool, loc, fids
<1> QED
  BY <1>1, <1>2, <1>3, <1>4, <1>5, <1>6, <1>7, <1>8, <1>9, <1>10, <1>11, <1>12, <1>13, <1>14
     DEF Next, Exportproc, Exslave, FlushMissed

\* The client has an opinion of every number.
LEMMA TypeClientStep == IInv /\ [Next]_vars => TypeClient'
<1> SUFFICES ASSUME IInv, [Next]_vars PROVE TypeClient'
  OBVIOUS
<1> USE DEF IInv, PlainType, TypeClient
<1>1. ASSUME NEW c \in Calls, Request(c) PROVE TypeClient'
  BY <1>1 DEF Request, EGoto, Asked, exqs, pool, loc, fids
<1>2. ASSUME NEW q \in 1..nreq, FlushQueued(q) PROVE TypeClient'
  BY <1>2 DEF FlushQueued, Unlink, Answered, proc, pool, loc, fids
<1>3. ASSUME NEW s \in Slave, Reply(s) PROVE TypeClient'
  BY <1>3 DEF Reply, SGoto, Answered, proc, list, pool
<1>4. ASSUME Spawn \/ WakeSlave \/ FlushIntr \/ exshutdown \/ ShutIntr \/ ShutDone
             PROVE TypeClient'
  BY <1>4 DEF Spawn, EGoto, SGoto, list, exqs, pool, loc, fids, WakeSlave, FlushIntr,
     Interrupt, exshutdown, ShutIntr, ShutDone
<1>5. ASSUME NEW q \in 1..nreq, FlushServed(q) PROVE TypeClient'
  BY <1>5 DEF FlushServed, EGoto, list, exqs, pool, loc, fids
<1>6. ASSUME NEW q \in Exq, ShutNext(q) PROVE TypeClient'
  BY <1>6 DEF ShutNext, EGoto, list, pool, loc, fids
<1>7. ASSUME NEW s \in Slave, QLock(s) \/ SleepWork(s) \/ Take(s) \/ TakeNone(s)
             \/ LinkWork(s) \/ GetFid(s) \/ NoFid(s) \/ Exattach(s) \/ Exclone(s)
             \/ DevDone(s) \/ DevFails(s) \/ PutFid(s) \/ PutNew(s) \/ Unwork(s)
             PROVE TypeClient'
  BY <1>7 DEF QLock, SGoto, proc, list, exqs, loc, fids, SleepWork, exwork, pool, Take,
     TakeNone, qunlock, LinkWork, GetFid, Numbered, Exgetfid, NoFid, Exattach, Exmkfid,
     Exclone, DevDone, DevFails, PutFid, Exputfid, PutNew, Unwork
<1>8. CASE UNCHANGED vars
  BY <1>8 DEF vars, proc, list, exqs, pool, loc, fids
<1> QED
  BY <1>1, <1>2, <1>3, <1>4, <1>5, <1>6, <1>7, <1>8 DEF Next, Exportproc, Exslave, FlushMissed
-----------------------------------------------------------------------------
(***************************************************************************)
(* The invariant, and what follows from it.                                *)
(***************************************************************************)
\* The invariant holds of an Export that has served nothing yet.
LEMMA InvInit == Init => IInv
<1> SUFFICES ASSUME Init PROVE IInv
  OBVIOUS
<1> USE Numbers DEF Init
<1>1. PlainType
  <2>1. TypeProc /\ TypeList /\ TypePool /\ TypeSlave /\ TypeHold
    BY DEF TypeProc, TypeList, TypePool, TypeSlave, TypeHold, EPlace, Place
  <2>2. TypeReq
    BY DEF TypeReq, NoCall, Fcall, Op
  <2>3. TypeExq /\ TypeCount /\ TypeTable /\ TypeFid /\ TypeClient
    BY DEF TypeExq, TypeCount, TypeTable, TypeFid, TypeClient
  <2> QED
    BY <2>1, <2>2, <2>3 DEF PlainType
<1>2. Lists /\ Owners /\ Working /\ Replies /\ Asks
  BY DEF Lists, Owners, Working, Replies, Asks, Live, Fresh, Busy, Over
<1>3. Places
  BY DEF Places, Makes
<1>4. \A o \in Fid : Holders(o) = {}
  BY DEF Holders
<1>5. Unused
  BY <1>4 DEF Unused
<1>6. RefsExact
  <2>1. Counted
    BY <1>4, FS_EmptySet DEF Counted
  <2>2. InTable /\ Closed
    <3>1. /\ tbl = {0} /\ 0 \in Fid
          /\ \A o \in Fid : ref[o] = 0 /\ (att[o] <=> o = 0) /\ (o # 0 => ch[o] = "nil")
      OBVIOUS
    <3>2. {o \in Fid : ref[o] > 0 \/ att[o]} = {0} /\ fsref = 1
      BY <3>1
    <3> QED
      BY <3>1, <3>2 DEF InTable, Closed
  <2>3. 1..nreq \ gone = {}
    OBVIOUS
  <2>4. Lasts
    BY <2>3, FS_EmptySet DEF Lasts
  <2> QED
    BY <2>1, <2>2, <2>4, RefsParts
<1>7. Claimed /\ Distinct /\ Named /\ Made
  BY DEF Claimed, Live, Distinct, Named, Made
<1>8. Agreed
  BY DEF Agreed, Ready
<1>9. Locks /\ Wakes
  BY DEF Locks, Wakes, In, NoDup, Over
<1> QED
  BY <1>1, <1>2, <1>3, <1>5, <1>6, <1>7, <1>8, <1>9 DEF IInv

\* Every step of exportproc and of a slave keeps it.
LEMMA InvStep == IInv /\ [Next]_vars => IInv'
<1> SUFFICES ASSUME IInv, [Next]_vars PROVE IInv'
  OBVIOUS
<1>1. PlainType'
  BY TypeProcStep, TypeReqStep, TypeListStep, TypeExqStep, TypeCountStep, TypePoolStep,
     TypeSlaveStep, TypeHoldStep, TypeTableStep, TypeFidStep, TypeClientStep DEF PlainType
<1>2. RefsExact'
  <2>1. Counted' /\ InTable' /\ Lasts' /\ Closed'
    BY CountedStep, InTableStep, LastsStep, ClosedStep
  <2> QED
    BY <2>1 DEF RefsExact, Counted, InTable, Lasts, Closed
<1> QED
  BY <1>1, <1>2, ListsStep, OwnersStep, WorkingStep, RepliesStep, AsksStep, PlacesStep,
     UnusedStep, ClaimedStep, DistinctStep, NamedStep, MadeStep, AgreedStep, LocksStep,
     WakesStep DEF IInv

\* So it holds always.
LEMMA Invariant == Spec => []IInv
BY InvInit, InvStep, PTL DEF Spec

\* A Fid is used by no more slaves than there are requests.
LEMMA CountsBounded ==
  ASSUME IInv
  PROVE  (\A o \in Fid : ref[o] <= MaxReq) /\ fsref <= MaxReq + 1
<1>1. IsFiniteSet(Exq) /\ Cardinality(Exq) = MaxReq
  BY ExportAssumption, FS_Interval DEF Exq
<1>2. ASSUME NEW o \in Fid PROVE ref[o] <= MaxReq
  <2> DEFINE f == [s \in Holders(o) |-> sq[s]]
  <2>1. \A s \in Holders(o) : s \in Slave /\ sq[s] \in Exq
    BY <1>2, Numbers DEF Holders, IInv, Places, Owners, Busy, PlainType, TypeSlave
  <2>2. f \in [Holders(o) -> Exq]
    BY <2>1
  <2>3. \A s, t \in Holders(o) : sq[s] = sq[t] => s = t
    BY <2>1, Numbers DEF IInv, Owners
  <2>4. f \in Injection(Holders(o), Exq)
    BY <2>2, <2>3 DEF Injection, IsInjective
  <2>5. Cardinality(Holders(o)) <= Cardinality(Exq)
    BY <1>1, <2>4, FS_Injection
  <2> QED
    BY <1>1, <2>5, RefsParts DEF IInv, Counted
<1>3. fsref <= MaxReq + 1
  BY LiveCount, RefsParts, Numbers DEF IInv, Lasts, PlainType, TypeReq
<1> QED
  BY <1>2, <1>3

\* The variables of exportproc, its slaves and its fids keep their types; in particular no
\* reference count is negative or exceeds what is there to count (exportfs.c).
THEOREM TypeCorrect == Spec => []TypeOK
<1>1. IInv => TypeOK
  <2> SUFFICES ASSUME IInv PROVE TypeOK
    OBVIOUS
  <2>1. ref \in [Fid -> 0..MaxReq] /\ fsref \in 0..(MaxReq + 1)
    BY CountsBounded, Numbers DEF IInv, PlainType, TypeFid, TypeCount
  <2> QED
    BY <2>1 DEF IInv, TypeOK, PlainType, TypeProc, TypeReq, TypeList, TypeExq, TypeCount,
       TypePool, TypeSlave, TypeHold, TypeTable, TypeFid, TypeClient, EPlace, Place
<1> QED
  BY <1>1, Invariant, PTL

\* A request is answered at most once, by exslave or by exflush, and not freed unanswered
\* while the connection lasts.
THEOREM RepliedOnce == Spec => []OneReply
<1>1. IInv => OneReply
  BY DEF IInv, Replies, OneReply, Over
<1> QED
  BY <1>1, Invariant, PTL

\* Fid.ref counts the users of a Fid, the table has those attached or used, fs->r.ref counts
\* the live requests and exportproc, and no channel outlives its Fid or the Export
\* (Exgetfid, Exmkfid, Exputfid, exfree).
THEOREM CountsExact == Spec => []RefsExact
<1>1. IInv => RefsExact
  BY DEF IInv
<1> QED
  BY <1>1, Invariant, PTL

\* The fid a client may use is in the table, once, attached and open, whatever slaves do
\* meanwhile (Exattach, Exclone, Exclunk, Exremove and their replies).
THEOREM FidsAgreed == Spec => []FidAgree
<1>1. IInv => FidAgree
  <2> SUFFICES ASSUME IInv, ep # "gone", NEW n \in Fno, client[n] = "ok"
               PROVE  /\ \E o \in Numbered(n) : att[o] /\ ch[o] = "open"
                      /\ \A o, x \in Numbered(n) : o = x
    BY DEF FidAgree
  <2>1. PICK o \in Fid : Ready(o, n)
    BY DEF IInv, Agreed
  <2> QED
    BY <2>1 DEF Ready, Numbered, IInv, Distinct
<1> QED
  BY <1>1, Invariant, PTL

\* A request on exq does not wait for slaves that all sleep (exportproc, exslave, exwork).
THEOREM WorkIsTaken == Spec => []WorkTaken
<1>1. IInv => WorkTaken
  <2> SUFFICES ASSUME IInv, ep \in {"read", "gone"}, head # nil,
                      \A s \in Slave : sp[s] \in {"unborn", "qwait", "asleep"}
               PROVE  FALSE
    BY DEF WorkTaken
  <2>1. nreq > 0
    BY Numbers DEF IInv, Lists, Fresh, Live, PlainType, TypeReq
  <2>2. PICK s \in Slave : sp[s] # "unborn"
    BY <2>1 DEF IInv, Wakes
  <2>3. \A t \in Slave : sp[t] # "asleep"
    BY DEF IInv, Wakes
  <2>4. In(qwait, s)
    BY <2>2, <2>3 DEF IInv, Locks
  <2>5. qwait # <<>>
    BY <2>4 DEF In
  <2>6. qown \in Slave
    BY <2>5 DEF IInv, Locks, PlainType, TypePool
  <2> QED
    BY <2>3, <2>6 DEF IInv, Locks
<1> QED
  BY <1>1, Invariant, PTL

=============================================================================
