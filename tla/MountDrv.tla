------------------------------ MODULE MountDrv ------------------------------
(***************************************************************************)
(* The mount driver, emu/devmnt.c: processes that make remote calls over   *)
(* one mounted connection.  A call takes an Mntrpc, links it in m->queue,  *)
(* writes its request, and waits.  One of the waiting processes at a time  *)
(* (m->rip) reads the connection and completes whichever call the reply    *)
(* it got belongs to; when its own is done it hands the reading on.  A     *)
(* process that is interrupted sends a Tflush and waits for the answer to  *)
(* either.                                                                 *)
(*                                                                         *)
(* A section under m->r.l is one step, and so are the test and the going   *)
(* to sleep of Sleep, which r->r.l makes one (EmuProc has their inside).   *)
(* A Rendez has a sleeper exactly when the owner of its Mntrpc is at       *)
(* "asleep".  The request tag of an Mntrpc never changes, so the Mntrpc    *)
(* stands for it.  Calls are numbered (`call') so that one can tell whose  *)
(* a message is; the driver does not look at the number.                   *)
(*                                                                         *)
(* Where the driver lets two calls get in each other's way, the step that  *)
(* does it is kept in `fault', a history variable, and the properties say  *)
(* that nothing else goes wrong:                                           *)
(*   reused: a tag is taken while a message with it is still on its way,   *)
(*           or by two flushes at a time;                                  *)
(*   torn:   the reader fills in an Mntrpc that was freed and taken again  *)
(*           after it had unlinked it;                                     *)
(*   dropped: whoever was to read next leaves, and nobody else comes.      *)
(* `cut' is set when an interrupt has ended a call whose connection is up. *)
(* What happens after `torn' is not followed further: the queue and the    *)
(* free list then share links, where here they are two sequences.          *)
(***************************************************************************)
EXTENDS Naturals, Sequences, FiniteSets, SequencesExt

CONSTANTS Proc, nil,
          NRpc,      \* Mntrpc structures in being
          NFlush,    \* flush tags, Tagend - Tagfls
          MaxCall,   \* bound: calls made
          MaxIntr    \* bound: interrupts in all

ASSUME MountAssumption ==
  /\ nil \notin Proc /\ nil \notin Nat /\ IsFiniteSet(Proc)
  /\ NRpc \in Nat /\ NRpc >= Cardinality(Proc)
  /\ NFlush \in Nat \ {0} /\ MaxCall \in Nat /\ MaxIntr \in Nat

Rpc == 1..NRpc
Tagfls == NRpc + 1
Tagend == Tagfls + NFlush
FlushTag == Tagfls..(Tagend - 1)

VARIABLES
  pc, rpc,           \* where a process is; its Mntrpc
  hand,              \* the Mntrpc it is completing or waking
  failed,            \* its call is to end in an error other than the reply's
  call, ncall,       \* the number of its call; calls made
  nintr,             \* interrupts so far
  fault, quiet, cut, \* history: what has gone wrong; whose last flush is not answered;
                     \*   an interrupt has made the write of a Tflush fail
  queue, rip, mflush,        \* m->queue, m->rip, m->flushtag
  done, flushed, ftag, reply,    \* of each Mntrpc
  rpcfree,           \* mntalloc.rpcfree
  srv, stream, hungup    \* what the server has to answer; its answers; the end

local == <<pc, rpc, hand, failed>>
history == <<fault, quiet, cut>>
ghost == <<call, ncall, nintr, history>>
mnt == <<queue, rip, mflush>>
mntrpc == <<done, flushed, ftag, reply>>
conn == <<srv, stream, hungup>>
vars == <<local, ghost, mnt, mntrpc, rpcfree, conn>>

\* A message: its tag, the request's tag when it is a Tflush, the number of the call.
Request(x, c) == [tag |-> x, old |-> nil, call |-> c]
Tflush(f, x, c) == [tag |-> f, old |-> x, call |-> c]
NoReply == [tag |-> 0, old |-> nil, call |-> 0]
Message == [tag : 0..Tagend, old : Rpc \cup {nil}, call : 0..MaxCall]

(***************************************************************************)
(* write: before the write of the request; flush: before mntflush's lock;  *)
(* flushw: before the write of the Tflush; gate: before the test of rip;   *)
(* sleep, asleep, awake: in Sleep, before it, in it, and after it; read:   *)
(* in the reader's loop; mux: a reply is read; fill: another's request is  *)
(* unlinked, before its reply is filled in; wake: before Wakeup of it;     *)
(* mntgate: before mntgate; gatewake: before the Wakeup in it; ret: out of *)
(* mountio, before mntfree.                                                *)
(***************************************************************************)
Place == {"out", "write", "flush", "flushw", "gate", "sleep", "asleep", "awake", "read",
          "mux", "fill", "wake", "mntgate", "gatewake", "ret"}

TypeOK ==
  /\ pc \in [Proc -> Place] /\ rpc \in [Proc -> Rpc \cup {nil}]
  /\ hand \in [Proc -> Rpc \cup {nil}] /\ failed \in [Proc -> BOOLEAN]
  /\ call \in [Proc -> 0..MaxCall] /\ ncall \in 0..MaxCall
  /\ nintr \in 0..MaxIntr
  /\ fault \subseteq {"reused", "torn", "dropped"} /\ quiet \subseteq Proc /\ cut \in BOOLEAN
  /\ queue \in Seq(Rpc) /\ rip \in Proc \cup {nil} /\ mflush \in FlushTag
  /\ done \in [Rpc -> BOOLEAN] /\ flushed \in [Rpc -> BOOLEAN]
  /\ ftag \in [Rpc -> FlushTag \cup {0}] /\ reply \in [Rpc -> Message]
  /\ rpcfree \in Seq(Rpc)
  /\ srv \subseteq Message /\ stream \in Seq(Message) /\ hungup \in BOOLEAN

\* The Mntrpcs have been made by earlier calls and are all free.
Init ==
  /\ pc = [p \in Proc |-> "out"] /\ rpc = [p \in Proc |-> nil]
  /\ hand = [p \in Proc |-> nil] /\ failed = [p \in Proc |-> FALSE]
  /\ call = [p \in Proc |-> 0] /\ ncall = 0
  /\ nintr = 0 /\ fault = {} /\ quiet = {} /\ cut = FALSE
  /\ queue = <<>> /\ rip = nil /\ mflush = Tagfls
  /\ done = [x \in Rpc |-> FALSE] /\ flushed = [x \in Rpc |-> FALSE]
  /\ ftag = [x \in Rpc |-> 0] /\ reply = [x \in Rpc |-> NoReply]
  /\ rpcfree = [i \in 1..NRpc |-> i]
  /\ srv = {} /\ stream = <<>> /\ hungup = FALSE

At(p, from, to) == pc[p] = from /\ pc' = [pc EXCEPT ![p] = to]
Unlinked(q, x) == RemoveFirst(q, x)
Has(q, x) == \E i \in 1..Len(q) : q[i] = x

\* Fault f is recorded when b holds.
Record(f, b) == fault' = IF b THEN fault \cup {f} ELSE fault

\* A message with tag t is with the server, in the stream, or in the reader's hands.
OnItsWay(t) ==
  \/ \E m \in srv : m.tag = t
  \/ \E i \in 1..Len(stream) : stream[i].tag = t
  \/ \E q \in Proc : pc[q] = "mux" /\ reply[rpc[q]].tag = t

-----------------------------------------------------------------------------
(* Starting a call.                                                        *)

\* mntralloc takes an Mntrpc off the free list and clears it; mountio links it.
Call(p) ==
  /\ ncall < MaxCall /\ rpcfree # <<>>
  /\ At(p, "out", "write")
  /\ LET x == Head(rpcfree) IN
       /\ rpc' = [rpc EXCEPT ![p] = x]
       /\ done' = [done EXCEPT ![x] = FALSE] /\ flushed' = [flushed EXCEPT ![x] = FALSE]
       /\ reply' = [reply EXCEPT ![x] = NoReply] /\ ftag' = [ftag EXCEPT ![x] = 0]
       /\ queue' = <<x>> \o queue
       /\ Record("reused", OnItsWay(x))
  /\ rpcfree' = Tail(rpcfree)
  /\ ncall' = ncall + 1 /\ call' = [call EXCEPT ![p] = ncall + 1]
  /\ UNCHANGED <<hand, failed, nintr, quiet, cut, rip, mflush, conn>>

\* An interrupt reaches the process: error(Eintr) out of a write, a read or Sleep.
Interrupted == nintr < MaxIntr /\ nintr' = nintr + 1

\* What the server has to answer once m has gone.
Sent(m) == IF hungup THEN srv ELSE srv \cup {m}

\* The request is written; or the write is interrupted, before or after the message
\* has gone; or it fails.
WriteDone(p) ==
  /\ ~hungup /\ At(p, "write", "gate")
  /\ srv' = Sent(Request(rpc[p], call[p]))
  /\ UNCHANGED <<rpc, hand, failed, ghost, mnt, mntrpc, rpcfree, stream, hungup>>
WriteIntr(p) ==
  /\ At(p, "write", "flush") /\ Interrupted
  /\ srv' \in {srv, Sent(Request(rpc[p], call[p]))}
  /\ UNCHANGED <<rpc, hand, failed, call, ncall, history, mnt, mntrpc, rpcfree, stream, hungup>>
WriteFails(p) ==
  /\ hungup /\ At(p, "write", "flush")
  /\ UNCHANGED <<rpc, hand, failed, ghost, mnt, mntrpc, rpcfree, conn>>

-----------------------------------------------------------------------------
(* mntflush.                                                               *)

\* The tag is on a message, or is that of another flush which is not over.
TagUsed(p, t) ==
  \/ OnItsWay(t)
  \/ ~hungup /\ \E q \in Proc : q # p /\ rpc[q] # nil /\ flushed[rpc[q]] /\ ftag[rpc[q]] = t

\* Mutant: the tags are not wound back at Tagend.
FlushTagged_past(p) ==
  /\ At(p, "flush", "flushw")
  /\ ftag' = [ftag EXCEPT ![rpc[p]] = mflush]
  /\ mflush' = IF mflush = Tagend THEN Tagfls ELSE mflush + 1
  /\ flushed' = [flushed EXCEPT ![rpc[p]] = TRUE]
  /\ Record("reused", TagUsed(p, mflush)) /\ quiet' = quiet \ {p}
  /\ UNCHANGED <<rpc, hand, failed, call, ncall, nintr, cut, queue, rip, done, reply, rpcfree,
                 conn>>

FlushTagged(p) ==
  /\ At(p, "flush", "flushw")
  /\ ftag' = [ftag EXCEPT ![rpc[p]] = mflush]
  /\ mflush' = IF mflush + 1 = Tagend THEN Tagfls ELSE mflush + 1
  /\ flushed' = [flushed EXCEPT ![rpc[p]] = TRUE]
  /\ Record("reused", TagUsed(p, mflush)) /\ quiet' = quiet \ {p}
  /\ UNCHANGED <<rpc, hand, failed, call, ncall, nintr, cut, queue, rip, done, reply, rpcfree,
                 conn>>

\* mntflush returns 1: the reader goes on reading, a waiter goes back to the gate.
Resume(p) == At(p, "flushw", IF rip = p THEN "read" ELSE "gate")

FlushDone(p) ==
  /\ ~hungup /\ Resume(p)
  /\ srv' = Sent(Tflush(ftag[rpc[p]], rpc[p], call[p]))
  /\ UNCHANGED <<rpc, hand, failed, ghost, mnt, mntrpc, rpcfree, stream, hungup>>
\* Eintr again: taken for success, whether or not the Tflush has gone.
FlushIntr(p) ==
  /\ Resume(p) /\ Interrupted
  /\ \/ srv' = Sent(Tflush(ftag[rpc[p]], rpc[p], call[p])) /\ UNCHANGED quiet
     \/ srv' = srv /\ quiet' = quiet \cup {p}
  /\ UNCHANGED <<rpc, hand, failed, call, ncall, fault, cut, mnt, mntrpc, rpcfree, stream,
                 hungup>>

\* Mutant: the request stays linked.
mntqrm_linked(p) ==
  /\ done' = [done EXCEPT ![rpc[p]] = TRUE] /\ flushed' = [flushed EXCEPT ![rpc[p]] = FALSE]
  /\ failed' = [failed EXCEPT ![p] = TRUE]
  /\ UNCHANGED <<queue, ftag, reply>>
\* mntqrm: the request is off the queue, and the call ends in an error.
mntqrm(p) ==
  /\ done' = [done EXCEPT ![rpc[p]] = TRUE] /\ flushed' = [flushed EXCEPT ![rpc[p]] = FALSE]
  /\ queue' = Unlinked(queue, rpc[p])
  /\ failed' = [failed EXCEPT ![p] = TRUE]
  /\ UNCHANGED <<ftag, reply>>

\* On the way to the gate, to read if nobody does.
Coming(p) ==
  \/ pc[p] \in {"gate", "flush", "flushw"}
  \/ pc[p] \in {"sleep", "awake"} /\ ~done[rpc[p]]
  \/ pc[p] = "gatewake" /\ \E q \in Proc : pc[q] = "asleep" /\ rpc[q] = hand[p]

\* The write fails: the connection has ended, or it is a pipe and the process has been
\* interrupted (pipewrite makes any error Ehungup).  A reader passes the reading on before
\* it leaves; one that mntgate had chosen to be the reader, and that was interrupted
\* before its Wakeup, does not.
FlushFails(p) ==
  /\ At(p, "flushw", IF rip = p THEN "mntgate" ELSE "ret")
  /\ \/ hungup /\ UNCHANGED <<nintr, cut>>
     \/ ~hungup /\ Interrupted /\ cut' = TRUE
  /\ mntqrm(p)
  /\ Record("dropped", /\ rip = nil /\ \E q \in Proc : pc[q] = "asleep"
                       /\ ~\E q \in Proc : q # p /\ Coming(q))
  /\ UNCHANGED <<rpc, hand, call, ncall, quiet, rip, mflush, rpcfree, conn>>

-----------------------------------------------------------------------------
(* The gate of mountio.                                                    *)

\* With nobody reading, the process becomes the reader.
Gate(p) ==
  /\ At(p, "gate", IF rip = nil THEN "read" ELSE "sleep")
  /\ rip' = IF rip = nil THEN p ELSE rip
  /\ UNCHANGED <<rpc, hand, failed, ghost, queue, mflush, mntrpc, rpcfree, conn>>

\* Mutant: the reader's leaving does not count as a reason to wake.
rpcattn_done(x) == done[x]
rpcattn(x) == done[x] \/ rip = nil

Sleep(p) ==
  /\ At(p, "sleep", IF rpcattn(rpc[p]) THEN "awake" ELSE "asleep")
  /\ UNCHANGED <<rpc, hand, failed, ghost, mnt, mntrpc, rpcfree, conn>>
SleepIntr(p) ==
  /\ At(p, "asleep", "flush") /\ Interrupted
  /\ UNCHANGED <<rpc, hand, failed, call, ncall, history, mnt, mntrpc, rpcfree, conn>>
Awake(p) ==
  /\ At(p, "awake", IF done[rpc[p]] THEN "ret" ELSE "gate")
  /\ UNCHANGED <<rpc, hand, failed, ghost, mnt, mntrpc, rpcfree, conn>>

Asleep(x) == {p \in Proc : pc[p] = "asleep" /\ rpc[p] = x}

\* Wakeup(&x->r) by p, which goes on at `to'.
Wakeup(p, x, to) ==
  pc' = [q \in Proc |-> IF q = p THEN to ELSE IF q \in Asleep(x) THEN "awake" ELSE pc[q]]

-----------------------------------------------------------------------------
(* The reader.                                                             *)

\* while(r->done == 0)
ReadDone(p) ==
  /\ At(p, "read", "mntgate") /\ done[rpc[p]]
  /\ UNCHANGED <<rpc, hand, failed, ghost, mnt, mntrpc, rpcfree, conn>>

\* mntrpcread: a message comes; or the read is interrupted; or it ends, or what comes
\* is no message.
ReadReply(p) ==
  /\ At(p, "read", "mux") /\ ~done[rpc[p]] /\ stream # <<>>
  /\ reply' = [reply EXCEPT ![rpc[p]] = Head(stream)] /\ stream' = Tail(stream)
  /\ UNCHANGED <<rpc, hand, failed, ghost, mnt, done, flushed, ftag, rpcfree, srv, hungup>>
ReadIntr(p) ==
  /\ At(p, "read", "flush") /\ ~done[rpc[p]] /\ Interrupted
  /\ UNCHANGED <<rpc, hand, failed, call, ncall, history, mnt, mntrpc, rpcfree, conn>>
ReadEnds(p) ==
  /\ At(p, "read", "mntgate") /\ ~done[rpc[p]] /\ hungup /\ stream = <<>>
  /\ mntqrm(p)
  /\ UNCHANGED <<rpc, hand, ghost, rip, mflush, rpcfree, conn>>

\* mountmux: the first request on the queue that the reply's tag fits.
Fits(x, t) == x = t \/ (flushed[x] /\ ftag[x] = t)
Fitting(t) == {i \in 1..Len(queue) : Fits(queue[i], t)}
IsFirst(i, S) == i \in S /\ \A j \in S : i <= j

MuxNone(p) ==
  /\ At(p, "mux", "read") /\ Fitting(reply[rpc[p]].tag) = {}
  /\ UNCHANGED <<rpc, hand, failed, ghost, mnt, mntrpc, rpcfree, conn>>
MuxOwn(p) ==
  /\ At(p, "mux", "read")
  /\ \E i \in 1..Len(queue) : IsFirst(i, Fitting(reply[rpc[p]].tag)) /\ queue[i] = rpc[p]
  /\ queue' = Unlinked(queue, rpc[p]) /\ done' = [done EXCEPT ![rpc[p]] = TRUE]
  /\ UNCHANGED <<rpc, hand, failed, ghost, rip, mflush, flushed, ftag, reply, rpcfree, conn>>
MuxOther(p) ==
  /\ At(p, "mux", "fill")
  /\ \E i \in 1..Len(queue) :
       /\ IsFirst(i, Fitting(reply[rpc[p]].tag)) /\ queue[i] # rpc[p]
       /\ queue' = Unlinked(queue, queue[i]) /\ hand' = [hand EXCEPT ![p] = queue[i]]
  /\ UNCHANGED <<rpc, failed, ghost, rip, mflush, mntrpc, rpcfree, conn>>
\* Mutant: the reply stays with the reader.
Fill_nocopy(p) ==
  /\ At(p, "fill", "wake")
  /\ done' = [done EXCEPT ![hand[p]] = TRUE]
  /\ Record("torn", Has(queue, hand[p]))
  /\ UNCHANGED <<rpc, hand, failed, call, ncall, nintr, quiet, cut, mnt, flushed, ftag, reply,
                 rpcfree, conn>>
\* After the unlock: "Completed someone else".
Fill(p) ==
  /\ At(p, "fill", "wake")
  /\ reply' = [reply EXCEPT ![hand[p]] = reply[rpc[p]]]
  /\ done' = [done EXCEPT ![hand[p]] = TRUE]
  /\ Record("torn", Has(queue, hand[p]))
  /\ UNCHANGED <<rpc, hand, failed, call, ncall, nintr, quiet, cut, mnt, flushed, ftag, rpcfree,
                 conn>>
Wake(p) ==
  /\ pc[p] = "wake" /\ Wakeup(p, hand[p], "read")
  /\ hand' = [hand EXCEPT ![p] = nil]
  /\ UNCHANGED <<rpc, failed, ghost, mnt, mntrpc, rpcfree, conn>>

\* mntgate: nobody reads; the first request that is not done and whose owner sleeps
\* is chosen, and after the unlock its owner is woken.
Sleepers == {i \in 1..Len(queue) : ~done[queue[i]] /\ Asleep(queue[i]) # {}}

mntgate(p) ==
  /\ rip' = nil
  /\ \/ Sleepers = {} /\ At(p, "mntgate", "ret") /\ UNCHANGED hand
     \/ \E i \in 1..Len(queue) :
          /\ IsFirst(i, Sleepers) /\ At(p, "mntgate", "gatewake")
          /\ hand' = [hand EXCEPT ![p] = queue[i]]
  /\ UNCHANGED <<rpc, failed, ghost, queue, mflush, mntrpc, rpcfree, conn>>
GateWake(p) ==
  /\ pc[p] = "gatewake" /\ Wakeup(p, hand[p], "ret")
  /\ hand' = [hand EXCEPT ![p] = nil]
  /\ UNCHANGED <<rpc, failed, ghost, mnt, mntrpc, rpcfree, conn>>

\* mountrpc looks at the reply, or the error goes up; either way mntfree.  What a free
\* Mntrpc holds is cleared by mntralloc before it is read; here it is at once.
Return(p) ==
  /\ At(p, "ret", "out")
  /\ rpcfree' = <<rpc[p]>> \o rpcfree
  /\ done' = [done EXCEPT ![rpc[p]] = FALSE] /\ flushed' = [flushed EXCEPT ![rpc[p]] = FALSE]
  /\ ftag' = [ftag EXCEPT ![rpc[p]] = 0] /\ reply' = [reply EXCEPT ![rpc[p]] = NoReply]
  /\ rpc' = [rpc EXCEPT ![p] = nil] /\ failed' = [failed EXCEPT ![p] = FALSE]
  /\ call' = [call EXCEPT ![p] = 0] /\ quiet' = quiet \ {p}
  /\ UNCHANGED <<hand, ncall, nintr, fault, cut, mnt, conn>>

-----------------------------------------------------------------------------
(* The server (external).  It takes messages in the order they were sent   *)
(* and answers requests when it likes.  A Tflush makes it drop the request *)
(* it names, if that is not answered yet, and is itself answered (a later  *)
(* request with the same tag is not the one it names, which the number of  *)
(* the call says here); or, as exportfs.c does, it answers the request     *)
(* alone, and nothing when it has no such request.                         *)

Answer(m) ==
  /\ ~hungup /\ m \in srv /\ m.old = nil
  /\ srv' = srv \ {m} /\ stream' = Append(stream, m)
  /\ UNCHANGED <<local, ghost, mnt, mntrpc, rpcfree, hungup>>
AnswerFlush(m) ==
  /\ ~hungup /\ m \in srv /\ m.old # nil
  /\ srv' = {n \in srv \ {m} : n.old = nil => n.call # m.call}
  /\ stream' = Append(stream, m)
  /\ UNCHANGED <<local, ghost, mnt, mntrpc, rpcfree, hungup>>
IgnoreFlush(m) ==
  /\ ~hungup /\ m \in srv /\ m.old # nil
  /\ srv' = srv \ {m}
  /\ quiet' = quiet \cup {p \in Proc : call[p] = m.call /\ ftag[rpc[p]] = m.tag}
  /\ UNCHANGED <<local, call, ncall, nintr, fault, cut, mnt, mntrpc, rpcfree, stream, hungup>>
HangUp ==
  /\ ~hungup /\ hungup' = TRUE /\ srv' = {}
  /\ UNCHANGED <<local, ghost, mnt, mntrpc, rpcfree, stream>>

-----------------------------------------------------------------------------
Step(p) ==
  \/ WriteDone(p) \/ WriteFails(p)
  \/ FlushTagged(p) \/ FlushDone(p) \/ FlushFails(p)
  \/ Gate(p) \/ Sleep(p) \/ Awake(p)
  \/ ReadDone(p) \/ ReadReply(p) \/ ReadEnds(p)
  \/ MuxNone(p) \/ MuxOwn(p) \/ MuxOther(p) \/ Fill(p) \/ Wake(p)
  \/ mntgate(p) \/ GateWake(p) \/ Return(p)
Interrupt(p) == WriteIntr(p) \/ FlushIntr(p) \/ SleepIntr(p) \/ ReadIntr(p)

Next ==
  \/ \E p \in Proc : Call(p) \/ Step(p) \/ Interrupt(p)
  \/ \E m \in srv : Answer(m) \/ AnswerFlush(m) \/ IgnoreFlush(m)
  \/ HangUp

Spec == Init /\ [][Next]_vars

-----------------------------------------------------------------------------
(* Properties.                                                             *)

\* One of the faults above is there, and what it takes: an interrupt, and after it the
\* end of the connection, a Tflush that another interrupt has made fail, or a flush tag
\* for the second time.
Excused(F) == F \cap fault # {} /\ nintr > 0 /\ (hungup \/ cut \/ nintr > NFlush)

\* A call that ends without an error of its own ends with the answer to itself: the
\* reply to its request or the Rflush to a flush of it, though Mntrpcs and with them
\* tags are used again, answers come late, and others fill in the reply (devmnt.c:768,
\* mountmux).  Only a tag in use twice, or an Mntrpc taken again while it is filled in,
\* can break it, and neither is possible before an interrupt meets the end of the
\* connection or of its Tflush, or the flush tags come round.
OwnReply ==
  \/ \A p \in Proc : pc[p] = "ret" /\ ~failed[p] => reply[rpc[p]].call = call[p]
  \/ Excused({"reused", "torn"})

\* A request is on the queue while its call lasts, from its linking to the answer (or
\* the failure), and once; what is free is not on it.  The exceptions are OwnReply's.
QueueExact ==
  \/ /\ \A i, j \in 1..Len(queue) : queue[i] = queue[j] => i = j
     /\ \A i \in 1..Len(queue) : ~Has(rpcfree, queue[i]) /\ ~done[queue[i]]
     /\ \A p \in Proc : rpc[p] # nil /\ ~done[rpc[p]] =>
          \/ Has(queue, rpc[p])
          \/ \E q \in Proc : pc[q] = "fill" /\ hand[q] = rpc[p]
  \/ Excused({"reused", "torn"})

\* The server owes the call of p an answer, and has not been told to flush it.
Owed(p) ==
  /\ \E m \in srv : m.old = nil /\ m.call = call[p]
  /\ ~\E m \in srv : m.old # nil /\ m.call = call[p]

\* Nothing moves unless the server answers a request or somebody new comes: whoever is
\* in a call sleeps, or waits for a message.
Still ==
  /\ \A m \in srv : m.old = nil
  /\ \A p \in Proc :
       \/ pc[p] \in {"out", "asleep"}
       \/ pc[p] = "read" /\ ~done[rpc[p]] /\ stream = <<>> /\ ~hungup

\* When all is still, the connection is up, somebody reads, and each call that is left is
\* owed an answer, or its last Tflush never went (devmnt.c:820 takes the Eintr for
\* success) or was one the server does not answer: nothing else leaves a call waiting
\* for nothing.  So a call that has been answered, flushed or never sent returns, whoever
\* reads and however the reading was handed on; and so does every call after a hang-up,
\* unless the process that was to read next has dropped it.
NobodyStuck ==
  \/ Still => \A p \in Proc : pc[p] # "out" => ~hungup /\ rip # nil /\ (Owed(p) \/ p \in quiet)
  \/ Excused({"reused", "torn", "dropped"})

=============================================================================
