------------------------------ MODULE ExportFs ------------------------------
(***************************************************************************)
(* Exporting a name space, emu/exportfs.c: exportproc reads requests from  *)
(* a connection and queues them on exq, a pool of slaves takes them off,   *)
(* carries each out on the fids of the Export, and writes the reply.  A    *)
(* flush answers a request that is still queued and interrupts the slave   *)
(* of one that is not.  When the connection ends, exshutdown throws away   *)
(* what is queued and interrupts the rest.                                 *)
(*                                                                         *)
(* One Export; requests are numbered as they are read, and a number names  *)
(* the Exq, the tag, and the Fid that the request makes, if it makes one   *)
(* (0 is a Fid attached before).  What is freed is not taken again for     *)
(* another request; the one read of a freed Exq, that of q->slave before   *)
(* oshostintr, may find any slave there, and the write through exq.tail    *)
(* into one is lost (finding 4).  A section under exq.l, fs->r.l or        *)
(* fidlock is one step.  qwait is handed on in one step (RWLock has the    *)
(* inside of QLock).                                                       *)
(***************************************************************************)
EXTENDS Naturals, Sequences, FiniteSets

CONSTANTS Slave, nil,
          MaxReq,    \* bound: requests read
          NFid       \* bound: fid numbers

ASSUME ExportAssumption ==
  /\ MaxReq \in Nat \ {0} /\ NFid \in Nat \ {0} /\ nil \notin Nat /\ nil \notin Slave
  /\ IsFiniteSet(Slave) /\ Cardinality(Slave) >= MaxReq

Exq == 1..MaxReq
Fid == 0..MaxReq
Fno == 1..NFid

VARIABLES
  ep, fl,            \* exportproc: where it is, the Exq it is to interrupt
  nreq, rpc,         \* requests read, what each asks
  head, tail, next,  \* exq.head, exq.tail, Exq.next of those on the list
  slave, shut,       \* Exq.slave, Exq.shut
  work,              \* fs->work
  gone, nreply,      \* Exq freed; replies written to it, or tried
  fsref,             \* fs->r.ref
  qown, qwait,       \* exq.qwait: holder and waiters
  sp, sq, sf, sn, ok,    \* slaves: place, Exq, its Fid, the Fid made, no error so far
  tbl, fno, ref, att, ch,    \* fids: in the table, Fid.fid, ref, attached, chan
  client             \* what the client takes each fid number for

list == <<head, tail, next>>
exqs == <<slave, shut, work, gone, nreply>>
proc == <<ep, fl>>
pool == <<qown, qwait>>
loc == <<sq, sf, sn, ok>>
fids == <<tbl, fno, ref, att, ch>>
vars == <<proc, nreq, rpc, list, exqs, fsref, pool, sp, loc, fids, client>>

Op == {"use", "remove", "clunk", "clone", "attach"}
Fcall == [op : Op, fid : Fno \cup {0}, new : Fno \cup {0}]
NoCall == [op |-> "use", fid |-> 0, new |-> 0]

(***************************************************************************)
(* exportproc: read; spawn, wake: a request is queued, before the test of  *)
(* qwait.head and before Wakeup; intr: a flush found its request in work;  *)
(* shut, shutintr: in exshutdown.  A slave: qlock, qwait: before and in    *)
(* qlock; sleep, asleep, take: in Sleep and after; link: has taken an Exq; *)
(* fcall, mk, dev, put, putnew: in the call; done, write: after it.        *)
(***************************************************************************)
TypeOK ==
  /\ ep \in {"read", "spawn", "wake", "intr", "shut", "shutintr", "gone"}
  /\ fl \in Exq \cup {nil} /\ nreq \in 0..MaxReq /\ rpc \in [Exq -> Fcall]
  /\ head \in Exq \cup {nil} /\ tail \in Exq \cup {nil} /\ next \in [Exq -> Exq \cup {nil}]
  /\ slave \in [Exq -> Slave \cup {nil}] /\ shut \subseteq Exq
  /\ work \subseteq Exq /\ gone \subseteq Exq /\ nreply \in [Exq -> 0..2]
  /\ fsref \in 0..(MaxReq + 1)
  /\ qown \in Slave \cup {nil} /\ qwait \in Seq(Slave)
  /\ sp \in [Slave -> {"unborn", "qlock", "qwait", "sleep", "asleep", "take", "link",
                       "fcall", "mk", "dev", "put", "putnew", "done", "write"}]
  /\ sq \in [Slave -> Exq \cup {nil}] /\ sf \in [Slave -> Fid \cup {nil}]
  /\ sn \in [Slave -> Fid \cup {nil}] /\ ok \in [Slave -> BOOLEAN]
  /\ tbl \subseteq Fid /\ fno \in [Fid -> Fno] /\ ref \in [Fid -> 0..MaxReq]
  /\ att \in [Fid -> BOOLEAN] /\ ch \in [Fid -> {"nil", "open"}]
  /\ client \in [Fno -> {"free", "busy", "ok"}]

\* An Export whose client has attached fid 1.
Init ==
  /\ ep = "read" /\ fl = nil /\ nreq = 0 /\ rpc = [q \in Exq |-> NoCall]
  /\ head = nil /\ tail = nil /\ next = [q \in Exq |-> nil]
  /\ slave = [q \in Exq |-> nil] /\ shut = {} /\ work = {} /\ gone = {}
  /\ nreply = [q \in Exq |-> 0] /\ fsref = 1
  /\ qown = nil /\ qwait = <<>> /\ sp = [s \in Slave |-> "unborn"]
  /\ sq = [s \in Slave |-> nil] /\ sf = [s \in Slave |-> nil]
  /\ sn = [s \in Slave |-> nil] /\ ok = [s \in Slave |-> TRUE]
  /\ tbl = {0} /\ fno = [o \in Fid |-> 1] /\ ref = [o \in Fid |-> 0]
  /\ att = [o \in Fid |-> o = 0] /\ ch = [o \in Fid |-> IF o = 0 THEN "open" ELSE "nil"]
  /\ client = [n \in Fno |-> IF n = 1 THEN "ok" ELSE "free"]

EGoto(from, to) == ep = from /\ ep' = to
SGoto(s, from, to) == sp[s] = from /\ sp' = [sp EXCEPT ![s] = to]

\* What can be reached from exq.head: the least set that has it and is closed under next.
Listed ==
  {q \in Exq : \A S \in SUBSET Exq :
     head \in S \cup {nil} /\ (\A x \in S : next[x] \in S \cup {nil}) => q \in S}

-----------------------------------------------------------------------------
(* The client (external).  It uses a fid number after it has been told     *)
(* that the fid is there and until it asks to have it clunked or removed,  *)
(* and takes a number for a new fid only when it is done with the old.     *)

Calls ==
  {c \in Fcall :
     /\ IF c.op = "attach" THEN c.fid = 0 ELSE c.fid # 0 /\ client[c.fid] = "ok"
     /\ IF c.op \in {"attach", "clone"} THEN c.new # 0 /\ client[c.new] = "free" ELSE c.new = 0}
Asked(c) ==
  [n \in Fno |-> IF n = c.new \/ (n = c.fid /\ c.op \in {"clunk", "remove"}) THEN "busy"
                 ELSE client[n]]
Answered(c, good) ==
  [n \in Fno |-> IF n = c.new THEN IF good THEN "ok" ELSE "free"
                 ELSE IF n = c.fid /\ c.op \in {"clunk", "remove"} THEN "free"
                 ELSE client[n]]

-----------------------------------------------------------------------------
(* exportproc.                                                             *)

\* A request is read, counted on the Export, and linked at the tail.
Request(c) ==
  LET q == nreq + 1 IN
  /\ nreq < MaxReq /\ EGoto("read", "spawn")
  /\ nreq' = q /\ rpc' = [rpc EXCEPT ![q] = c] /\ client' = Asked(c)
  /\ fsref' = fsref + 1
  /\ head' = IF head = nil THEN q ELSE head
  /\ next' = IF head = nil THEN next ELSE [next EXCEPT ![tail] = q]
  /\ tail' = q
  /\ UNCHANGED <<fl, exqs, pool, sp, loc, fids>>

\* Mutant: nobody is woken for the request.
WakeSlave_not ==
  /\ EGoto("wake", "read")
  /\ UNCHANGED <<fl, nreq, rpc, list, exqs, fsref, pool, sp, loc, fids, client>>

\* if(exq.qwait.head == nil) kproc(exslave)
Spawn ==
  /\ EGoto("spawn", "wake")
  /\ IF qwait = <<>>
     THEN \E s \in Slave : SGoto(s, "unborn", "qlock")
     ELSE UNCHANGED sp
  /\ UNCHANGED <<fl, nreq, rpc, list, exqs, fsref, pool, loc, fids, client>>

WakeSlave ==
  /\ EGoto("wake", "read")
  /\ sp' = [s \in Slave |-> IF sp[s] = "asleep" THEN "take" ELSE sp[s]]
  /\ UNCHANGED <<fl, nreq, rpc, list, exqs, fsref, pool, loc, fids, client>>

\* Mutant: the request is answered, and left for a slave to take.
Unlink_not(q) == UNCHANGED <<head, next>>

\* A Tflush: the request is queued, and is unlinked and answered here (exq.tail is left
\* as it is); or it is being served; or it is neither.
Unlink(q) ==
  /\ head' = IF head = q THEN next[q] ELSE head
  /\ next' = [x \in Exq |-> IF x = q THEN nil ELSE IF next[x] = q THEN next[q] ELSE next[x]]
FlushQueued(q) ==
  /\ ep = "read" /\ q \in Listed
  /\ Unlink(q)
  /\ nreply' = [nreply EXCEPT ![q] = @ + 1]
  /\ client' \in {client, Answered(rpc[q], FALSE)}
  /\ gone' = gone \cup {q} /\ fsref' = fsref - 1
  /\ rpc' = [rpc EXCEPT ![q] = NoCall]
  /\ UNCHANGED <<proc, nreq, tail, slave, shut, work, pool, sp, loc, fids>>
FlushServed(q) ==
  /\ EGoto("read", "intr") /\ q \notin Listed /\ q \in work
  /\ fl' = q
  /\ UNCHANGED <<nreq, rpc, list, exqs, fsref, pool, sp, loc, fids, client>>
\* A request that the client has no reply to yet, and that is on neither list.
FlushMissed(q) ==
  /\ ep = "read" /\ nreply[q] = 0 /\ q \notin Listed \cup work
  /\ UNCHANGED vars

\* oshostintr(q->slave), after the unlock: the host call in which that slave is, if it is
\* in one, may end with an error.  By then q may be freed, and the slave be any.
Interrupt(to) ==
  /\ ep' = to /\ fl' = nil
  /\ \/ \E s \in Slave : /\ fl \in gone \/ s = slave[fl]
                         /\ SGoto(s, "dev", "put") /\ ok' = [ok EXCEPT ![s] = FALSE]
     \/ UNCHANGED <<sp, ok>>
  /\ UNCHANGED <<nreq, rpc, list, exqs, fsref, pool, sq, sf, sn, fids, client>>
FlushIntr == ep = "intr" /\ Interrupt("read")

\* Every channel of the table is closed, and the table freed with the Export.
exfreefids == [o \in Fid |-> IF o \in tbl THEN "nil" ELSE ch[o]]
\* decref, n times; with the last reference the fids go, and the Export.
exfree(n) ==
  /\ fsref' = fsref - n
  /\ ch' = IF fsref = n THEN exfreefids ELSE ch
  /\ tbl' = IF fsref = n THEN {} ELSE tbl
  /\ fno' = IF fsref = n THEN [o \in Fid |-> 1] ELSE fno
  /\ UNCHANGED <<ref, att>>

\* The connection ends: exshutdown unlinks and frees what is queued (exq.tail is left as
\* it is), then interrupts each slave at work once, and exportproc gives up its reference.
exshutdown ==
  /\ EGoto("read", "shut")
  /\ head' = nil /\ gone' = gone \cup Listed /\ fsref' = fsref - Cardinality(Listed)
  /\ rpc' = [q \in Exq |-> IF q \in Listed THEN NoCall ELSE rpc[q]]
  /\ next' = [q \in Exq |-> nil]
  /\ UNCHANGED <<fl, nreq, tail, slave, shut, work, nreply, pool, sp, loc, fids, client>>
ShutNext(q) ==
  /\ EGoto("shut", "shutintr") /\ q \in work \ shut
  /\ shut' = shut \cup {q} /\ fl' = q
  /\ UNCHANGED <<nreq, rpc, list, slave, work, gone, nreply, fsref, pool, sp, loc, fids, client>>
ShutIntr == ep = "shutintr" /\ Interrupt("shut")
ShutDone ==
  /\ EGoto("shut", "gone") /\ work \subseteq shut
  /\ exfree(1)
  /\ UNCHANGED <<fl, nreq, rpc, list, exqs, pool, sp, loc, client>>

-----------------------------------------------------------------------------
(* A slave takes a request.                                                *)

QLock(s) ==
  /\ \/ qown = nil /\ SGoto(s, "qlock", "sleep") /\ qown' = s /\ UNCHANGED qwait
     \/ qown # nil /\ SGoto(s, "qlock", "qwait") /\ qwait' = Append(qwait, s) /\ UNCHANGED qown
  /\ UNCHANGED <<proc, nreq, rpc, list, exqs, fsref, loc, fids, client>>

\* qunlock by s, which goes on at `to': the lock passes to the first who waits.
qunlock(s, to) ==
  IF qwait = <<>>
  THEN qown' = nil /\ sp' = [sp EXCEPT ![s] = to] /\ UNCHANGED qwait
  ELSE qown' = Head(qwait) /\ qwait' = Tail(qwait)
       /\ sp' = [sp EXCEPT ![s] = to, ![Head(qwait)] = "sleep"]

exwork == head # nil

SleepWork(s) ==
  /\ SGoto(s, "sleep", IF exwork THEN "take" ELSE "asleep")
  /\ UNCHANGED <<proc, nreq, rpc, list, exqs, fsref, pool, loc, fids, client>>

Take(s) ==
  /\ SGoto(s, "take", "link") /\ head # nil
  /\ sq' = [sq EXCEPT ![s] = head] /\ head' = next[head] /\ next' = [next EXCEPT ![head] = nil]
  /\ slave' = [slave EXCEPT ![head] = s]
  /\ ok' = [ok EXCEPT ![s] = TRUE]
  /\ UNCHANGED <<proc, nreq, rpc, tail, shut, work, gone, nreply, fsref, pool, sf, sn, fids,
                 client>>
TakeNone(s) ==
  /\ sp[s] = "take" /\ head = nil /\ qunlock(s, "qlock")
  /\ UNCHANGED <<proc, nreq, rpc, list, exqs, fsref, loc, fids, client>>
\* qunlock, and the request is linked in fs->work.
LinkWork(s) ==
  /\ sp[s] = "link" /\ qunlock(s, "fcall")
  /\ work' = work \cup {sq[s]}
  /\ UNCHANGED <<proc, nreq, rpc, list, slave, shut, gone, nreply, fsref, loc, fids, client>>

-----------------------------------------------------------------------------
(* The calls.                                                              *)

Numbered(n) == {o \in tbl : fno[o] = n}

\* Mutant: the use of the Fid is not counted.
Exgetfid_nocount(s, o) ==
  /\ sf' = [sf EXCEPT ![s] = o]
  /\ UNCHANGED <<sn, ok, tbl, fno, ref, att, ch>>

\* Exgetfid: use, remove, clone and clunk begin with it.
Exgetfid(s, o) ==
  /\ sf' = [sf EXCEPT ![s] = o] /\ ref' = [ref EXCEPT ![o] = @ + 1]
  /\ UNCHANGED <<sn, ok, tbl, fno, att, ch>>
GetFid(s) ==
  LET c == rpc[sq[s]] IN
  /\ sp[s] = "fcall" /\ c.op # "attach"
  /\ \E o \in Numbered(c.fid) :
       /\ att[o] /\ Exgetfid(s, o)
       /\ SGoto(s, "fcall", CASE c.op = "clone" -> "mk" [] c.op = "clunk" -> "put"
                              [] OTHER -> "dev")
  /\ UNCHANGED <<proc, nreq, rpc, list, exqs, fsref, pool, sq, client>>
\* Enofid, which Exclunk does not report.
NoFid(s) ==
  LET c == rpc[sq[s]] IN
  /\ SGoto(s, "fcall", "done") /\ c.op # "attach"
  /\ \A o \in Numbered(c.fid) : ~att[o]
  /\ ok' = [ok EXCEPT ![s] = c.op = "clunk"]
  /\ UNCHANGED <<proc, nreq, rpc, list, exqs, fsref, pool, sq, sf, sn, fids, client>>

\* Exmkfid: a Fid with no channel yet, unless the number is in use.
Exmkfid(s, from, err) ==
  LET q == sq[s]
      n == rpc[q].new
  IN
  /\ \/ /\ Numbered(n) = {} /\ SGoto(s, from, "dev")
        /\ sn' = [sn EXCEPT ![s] = q]
        /\ tbl' = tbl \cup {q} /\ fno' = [fno EXCEPT ![q] = n]
        /\ ref' = [ref EXCEPT ![q] = 1] /\ att' = [att EXCEPT ![q] = TRUE]
        /\ UNCHANGED ok
     \/ /\ Numbered(n) # {} /\ SGoto(s, from, err)
        /\ ok' = [ok EXCEPT ![s] = FALSE]
        /\ UNCHANGED <<sn, tbl, fno, ref, att>>
  /\ UNCHANGED <<proc, nreq, rpc, list, exqs, fsref, pool, sq, sf, ch, client>>
Exattach(s) == sp[s] = "fcall" /\ rpc[sq[s]].op = "attach" /\ Exmkfid(s, "fcall", "done")
Exclone(s) == sp[s] = "mk" /\ Exmkfid(s, "mk", "put")

\* The device's part, which may take for ever, and may fail.
DevDone(s) ==
  /\ SGoto(s, "dev", "put")
  /\ ch' = IF sn[s] = nil THEN ch ELSE [ch EXCEPT ![sn[s]] = "open"]
  /\ UNCHANGED <<proc, nreq, rpc, list, exqs, fsref, pool, loc, tbl, fno, ref, att, client>>
DevFails(s) ==
  /\ SGoto(s, "dev", "put")
  /\ ok' = [ok EXCEPT ![s] = FALSE]
  /\ UNCHANGED <<proc, nreq, rpc, list, exqs, fsref, pool, sq, sf, sn, fids, client>>

\* Mutants: a Fid is freed when it is clunked, whoever uses it; every Fid is freed with
\* its last use, attached or not.
Exputfid_now(o, a) ==
  /\ att' = [att EXCEPT ![o] = a] /\ ref' = [ref EXCEPT ![o] = @ - 1]
  /\ IF ~a
     THEN tbl' = tbl \ {o} /\ ch' = [ch EXCEPT ![o] = "nil"] /\ fno' = [fno EXCEPT ![o] = 1]
     ELSE UNCHANGED <<tbl, ch, fno>>
Exputfid_attached(o, a) ==
  /\ att' = [att EXCEPT ![o] = FALSE] /\ ref' = [ref EXCEPT ![o] = @ - 1]
  /\ IF ref[o] = 1
     THEN tbl' = tbl \ {o} /\ ch' = [ch EXCEPT ![o] = "nil"] /\ fno' = [fno EXCEPT ![o] = 1]
     ELSE UNCHANGED <<tbl, ch, fno>>
\* Exputfid, with attached set to a first: the last user of a Fid that is not attached
\* closes its channel, unlinks it and frees it.
Exputfid(o, a) ==
  /\ att' = [att EXCEPT ![o] = a] /\ ref' = [ref EXCEPT ![o] = @ - 1]
  /\ IF ref[o] = 1 /\ ~a
     THEN tbl' = tbl \ {o} /\ ch' = [ch EXCEPT ![o] = "nil"] /\ fno' = [fno EXCEPT ![o] = 1]
     ELSE UNCHANGED <<tbl, ch, fno>>

\* The old fid is clunked by clunk, and by remove if that succeeded.
PutFid(s) ==
  LET op == rpc[sq[s]].op
      o == sf[s]
  IN
  /\ SGoto(s, "put", IF sn[s] = nil THEN "done" ELSE "putnew")
  /\ IF o = nil THEN UNCHANGED fids
     ELSE Exputfid(o, att[o] /\ op # "clunk" /\ ~(op = "remove" /\ ok[s]))
  /\ sf' = [sf EXCEPT ![s] = nil]
  /\ UNCHANGED <<proc, nreq, rpc, list, exqs, fsref, pool, sq, sn, ok, client>>
\* The new one stays, though Exclone has failed; not if Exattach has.
PutNew(s) ==
  /\ SGoto(s, "putnew", "done")
  /\ Exputfid(sn[s], att[sn[s]] /\ (ok[s] \/ rpc[sq[s]].op # "attach"))
  /\ sn' = [sn EXCEPT ![s] = nil]
  /\ UNCHANGED <<proc, nreq, rpc, list, exqs, fsref, pool, sq, sf, ok, client>>

\* The call is over: the request is taken off fs->work.
Unwork(s) ==
  /\ SGoto(s, "done", "write")
  /\ work' = work \ {sq[s]} /\ shut' = shut \ {sq[s]}
  /\ UNCHANGED <<proc, nreq, rpc, list, slave, gone, nreply, fsref, pool, loc, fids, client>>

\* The reply is written, and if that fails the client hears nothing; exfree, free(q).
Reply(s) ==
  LET q == sq[s] IN
  /\ SGoto(s, "write", "qlock")
  /\ nreply' = [nreply EXCEPT ![q] = @ + 1]
  /\ client' \in {client, Answered(rpc[q], ok[s])}
  /\ gone' = gone \cup {q} /\ exfree(1)
  /\ rpc' = [rpc EXCEPT ![q] = NoCall]
  /\ slave' = [slave EXCEPT ![q] = nil]
  /\ sq' = [sq EXCEPT ![s] = nil] /\ ok' = [ok EXCEPT ![s] = TRUE]
  /\ UNCHANGED <<proc, nreq, list, shut, work, pool, sf, sn>>

-----------------------------------------------------------------------------
Exportproc ==
  \/ \E c \in Calls : Request(c)
  \/ Spawn \/ WakeSlave
  \/ \E q \in 1..nreq : FlushQueued(q) \/ FlushServed(q) \/ FlushMissed(q)
  \/ FlushIntr
  \/ exshutdown \/ (\E q \in Exq : ShutNext(q)) \/ ShutIntr \/ ShutDone

Exslave(s) ==
  \/ QLock(s) \/ SleepWork(s) \/ Take(s) \/ TakeNone(s) \/ LinkWork(s)
  \/ GetFid(s) \/ NoFid(s) \/ Exattach(s) \/ Exclone(s) \/ DevDone(s) \/ DevFails(s)
  \/ PutFid(s) \/ PutNew(s) \/ Unwork(s) \/ Reply(s)

Next == Exportproc \/ \E s \in Slave : Exslave(s)

Spec == Init /\ [][Next]_vars

-----------------------------------------------------------------------------
(* Properties.                                                             *)

\* A request is answered at most once, by its slave or by a flush, and while the
\* connection lasts it is not freed unanswered.
OneReply ==
  \A q \in Exq : /\ nreply[q] <= 1
                 /\ q \in gone /\ ep \notin {"shut", "shutintr", "gone"} => nreply[q] = 1

\* Reference counts are right: a Fid is in the table, and not freed, as long as a call
\* uses it or it is attached, whatever clunks and removes cross with other calls; the
\* Export lasts as long as exportproc or a request does, and when it goes no channel of
\* its fids stays open.
Holders(o) == {s \in Slave : sf[s] = o} \cup {s \in Slave : sn[s] = o}
RefsExact ==
  /\ \A o \in Fid : ref[o] = Cardinality(Holders(o))
  /\ fsref > 0 => tbl = {o \in Fid : ref[o] > 0 \/ att[o]}
  /\ fsref = Cardinality(1..nreq \ gone) + (IF ep = "gone" THEN 0 ELSE 1)
  /\ \A o \in Fid : fsref = 0 \/ o \notin tbl => ch[o] # "open"

\* While the client may use a fid, and has said nothing else of it, the fid is in the
\* table, once, attached, with an open channel.
FidAgree ==
  ep # "gone" => \A n \in Fno : client[n] = "ok" =>
    /\ \E o \in Numbered(n) : att[o] /\ ch[o] = "open"
    /\ \A o, x \in Numbered(n) : o = x

\* When all slaves are idle nothing is on the list: a request finds a slave awake, or
\* wakes one, or starts one.
WorkTaken ==
  (ep \in {"read", "gone"} /\ \A s \in Slave : sp[s] \in {"unborn", "qwait", "asleep"})
    => head = nil

\* exq.head is "work waiting for a slave": a request that has been read, is not answered,
\* and that no slave has taken, is there.
WorkListed == \A q \in 1..nreq : q \in gone \/ (\E s \in Slave : sq[s] = q) \/ q \in Listed

=============================================================================
