-------------------------------- MODULE Qio --------------------------------
(***************************************************************************)
(* The byte queues of emu/qio.c under their users: one direction of a pipe *)
(* (devpipe.c), with readers, writers and the closing of either end, or a  *)
(* device queue such as the keyboard's, with producers that do not block.  *)
(*                                                                         *)
(* The bytes that enter the queue are numbered 1, 2, ... and a Block is    *)
(* the interval <<lo, hi>> of the numbers it holds.  A section under q->l  *)
(* is one step; so are Sleep (its test of the condition with its setting   *)
(* of r->p) and Wakeup, whose own races EmuProc has.                       *)
(*                                                                         *)
(* qbwrite sets Qflow without q->l: the load and the store of q->state |=  *)
(* Qflow are two steps, and what others have set between them is gone.     *)
(* (The other way round, a section under q->l that undoes this store takes *)
(* only Qflow off, of a queue that is not full or is closed.)              *)
(***************************************************************************)
EXTENDS Integers, Sequences, FiniteSetsExt

CONSTANTS Reader, Writer, Dev, NoProc,
          Limit,     \* q->limit
          Size,      \* sizes of the blocks written
          Want,      \* sizes asked for by readers
          MaxByte    \* bound: bytes that enter between two openings

\* qbread wakes a writer when fewer than limit/2 bytes are queued: a limit of 1
\* would never wake it.
ASSUME QioAssumption ==
  /\ NoProc \notin Reader \cup Writer \cup Dev
  /\ Limit \in Nat /\ Limit >= 2
  /\ Size \subseteq Nat \ {0} /\ Want \subseteq Nat \ {0}
  /\ MaxByte \in Nat

VARIABLES blocks, qlen, state,  \* q->bfirst .. blast, q->len, q->state
          nin, nout,            \* bytes put in and bytes handed to readers so far
          eof,                  \* q->eof, up to 4
          rown, wown,           \* holders of q->rlock and q->wlock
          rr, wr,               \* sleepers of the two Rendez
          rpc, want, part, dow, \* readers: place, len, what is split off, dowakeup
          wpc, size, loc,       \* writers and producers: place, n, q->state as loaded
          open, cpc,            \* open ends of the pipe, pipeclose
          kind,                 \* whose queue it is, a pipe's or a device's
          lost                  \* flags in force that q->state no longer shows (history)

qvars == <<blocks, qlen, state, nin, nout, eof>>
rvars == <<rpc, want, part, dow>>
wvars == <<wpc, size, loc>>
cvars == <<open, cpc>>
vars == <<qvars, rown, wown, rr, wr, rvars, wvars, cvars, kind, lost>>

Bit == {"starve", "closed", "flow"}
None == <<>>

TypeOK ==
  /\ blocks \in Seq(Nat \X Nat) /\ qlen \in Nat /\ state \in SUBSET Bit
  /\ nin \in Nat /\ nout \in Nat /\ eof \in 0..4
  /\ rown \in Reader \cup {NoProc} /\ rr \in Reader \cup {NoProc}
  /\ wown \in Writer \cup {NoProc} /\ wr \in Writer \cup {NoProc}
  /\ rpc \in [Reader -> {"idle", "rlock", "top", "sleep", "asleep", "split", "wake", "eof"}]
  /\ want \in [Reader -> Want \cup {0}]
  /\ part \in (Nat \X Nat) \cup {None} /\ dow \in {0, 1}
  /\ wpc \in [Writer \cup Dev ->
                {"idle", "wlock", "test", "store", "sleep", "asleep", "put", "wake"}]
  /\ size \in [Writer \cup Dev -> Size \cup {0}] /\ loc \in SUBSET Bit
  /\ open \in SUBSET {"r", "w"}
  /\ cpc \in {"idle", "wakerr", "wakewr", "reopen"} /\ kind \in {"pipe", "device"}
  /\ lost \in SUBSET Bit

\* A new queue, with the given ends open.
qopen(ends) ==
  /\ blocks = <<>> /\ qlen = 0 /\ state = {"starve"} /\ nin = 0 /\ nout = 0 /\ eof = 0
  /\ rown = NoProc /\ wown = NoProc /\ rr = NoProc /\ wr = NoProc
  /\ rpc = [r \in Reader |-> "idle"] /\ want = [r \in Reader |-> 0]
  /\ part = None /\ dow = 0
  /\ wpc = [w \in Writer \cup Dev |-> "idle"] /\ size = [w \in Writer \cup Dev |-> 0]
  /\ loc = {}
  /\ open = ends /\ cpc = "idle" /\ lost = {}

\* A device's queue is there from the start and is never closed.
Init == (kind = "pipe" /\ qopen({})) \/ (kind = "device" /\ qopen({"r"}))

BLEN(b) == b[2] - b[1] + 1

RGoto(r, l) == rpc' = [rpc EXCEPT ![r] = l]
WGoto(w, l) == wpc' = [wpc EXCEPT ![w] = l]

\* qunlock(&q->rlock) and return; qunlock(&q->wlock) and return.
RReturn(r) == rown' = NoProc /\ want' = [want EXCEPT ![r] = 0]
WReturn(w) == wown' = NoProc /\ size' = [size EXCEPT ![w] = 0] /\ WGoto(w, "idle")

-----------------------------------------------------------------------------
(* Mutants.                                                                *)

\* The length of the block is taken off twice.
ReadTake_double(r) ==
  /\ rpc[r] = "top" /\ blocks # <<>>
  /\ blocks' = Tail(blocks) /\ qlen' = qlen - 2 * BLEN(Head(blocks)) /\ nout' = Head(blocks)[2]
  /\ RGoto(r, "idle") /\ RReturn(r)
  /\ UNCHANGED <<state, nin, eof, wown, rr, wr, part, dow, wvars, cvars, lost>>
\* What is left of a block goes to the end of the queue.
ReadSplit_tail(r) ==
  /\ rpc[r] = "split"
  /\ blocks' = Append(blocks, part) /\ qlen' = qlen + BLEN(part) /\ part' = None
  /\ RGoto(r, "wake")
  /\ UNCHANGED <<state, nin, nout, eof, rown, wown, rr, wr, want, dow, wvars, cvars, lost>>
\* The reader does not set Qstarve.
ReadEmpty_noflag(r) ==
  /\ rpc[r] = "top" /\ blocks = <<>>
  /\ IF "closed" \in state THEN RGoto(r, "eof") /\ rown' = NoProc
     ELSE RGoto(r, "sleep") /\ UNCHANGED rown
  /\ UNCHANGED <<qvars, wown, rr, wr, want, part, dow, wvars, cvars, lost>>
\* Flow control looks at the length before the block is taken off.
Restart_before(l) == "flow" \in state /\ qlen < Limit \div 2
\* Closing wakes nobody who reads.
CloseWakeReader_not ==
  /\ cpc = "wakerr" /\ cpc' = "wakewr"
  /\ UNCHANGED <<qvars, rown, wown, rr, wr, rvars, wvars, open, lost>>

-----------------------------------------------------------------------------
notempty == "closed" \in state \/ blocks # <<>>
qnotfull == qlen < Limit \/ "closed" \in state

\* Wakeup(&q->rr): the sleeper goes back to the top of its loop; likewise q->wr.
WakeReader(pcs) ==
  /\ rr' = NoProc
  /\ rpc' = IF rr = NoProc THEN pcs ELSE [pcs EXCEPT ![rr] = "top"]
WakeWriter(pcs) ==
  /\ wr' = NoProc
  /\ wpc' = IF wr = NoProc THEN pcs ELSE [pcs EXCEPT ![wr] = "test"]

-----------------------------------------------------------------------------
(* Readers.                                                                *)

\* qbread(q, n): ask for q->rlock.  Only who has the reading end open can.
qbread(r, n) ==
  /\ rpc[r] = "idle" /\ "r" \in open /\ cpc = "idle"
  /\ RGoto(r, "rlock") /\ want' = [want EXCEPT ![r] = n]
  /\ UNCHANGED <<qvars, rown, wown, rr, wr, part, dow, wvars, cvars, lost>>

ReadLock(r) ==
  /\ rpc[r] = "rlock" /\ rown = NoProc
  /\ rown' = r /\ RGoto(r, "top")
  /\ UNCHANGED <<qvars, wown, rr, wr, want, part, dow, wvars, cvars, lost>>

\* The state with Qflow taken off if the queue of l bytes restarts a writer.
Restart(l) == "flow" \in state /\ l < Limit \div 2

\* Remove a buffered block.  What exceeds the reader's n goes back, in ReadSplit,
\* after the lock has been given up for the copy.
ReadTake(r) ==
  LET b == Head(blocks)
      l == qlen - BLEN(b)
      big == BLEN(b) > want[r]
      last == IF big THEN b[1] + want[r] - 1 ELSE b[2]
  IN
  /\ rpc[r] = "top" /\ blocks # <<>>
  /\ blocks' = Tail(blocks) /\ qlen' = l /\ nout' = last
  /\ state' = IF Restart(l) THEN state \ {"flow"} ELSE state
  /\ dow' = IF Restart(l) THEN 1 ELSE 0
  /\ part' = IF big THEN <<last + 1, b[2]>> ELSE None
  /\ IF big THEN RGoto(r, "split") /\ UNCHANGED <<rown, want>>
     ELSE IF Restart(l) THEN RGoto(r, "wake") /\ UNCHANGED <<rown, want>>
     ELSE RGoto(r, "idle") /\ RReturn(r)
  /\ UNCHANGED <<nin, eof, wown, rr, wr, wvars, cvars, lost>>

\* Qflow is lost if the rest refills a queue that has been found short enough to wake
\* the writer.
ReadSplit(r) ==
  /\ rpc[r] = "split"
  /\ lost' = IF dow = 1 /\ "flow" \notin state /\ qlen + BLEN(part) >= Limit
             THEN lost \cup {"flow"} ELSE lost
  /\ blocks' = <<part>> \o blocks /\ qlen' = qlen + BLEN(part) /\ part' = None
  /\ IF dow = 1 THEN RGoto(r, "wake") /\ UNCHANGED <<rown, want>>
     ELSE RGoto(r, "idle") /\ RReturn(r)
  /\ UNCHANGED <<state, nin, nout, eof, wown, rr, wr, dow, wvars, cvars>>

\* "wakeup flow controlled writers"
ReadWake(r) ==
  /\ rpc[r] = "wake"
  /\ dow' = 0 /\ WakeWriter(wpc)
  /\ RGoto(r, "idle") /\ RReturn(r)
  /\ UNCHANGED <<qvars, wown, rr, part, size, loc, cvars, lost>>

\* Nothing there: the queue is closed, or ask to be woken.
ReadEmpty(r) ==
  /\ rpc[r] = "top" /\ blocks = <<>>
  /\ \/ /\ "closed" \in state
        /\ RGoto(r, "eof") /\ rown' = NoProc
        /\ UNCHANGED <<state, lost>>
     \/ /\ "closed" \notin state
        /\ state' = state \cup {"starve"} /\ lost' = lost \ {"starve"}
        /\ RGoto(r, "sleep")
        /\ UNCHANGED rown
  /\ UNCHANGED <<blocks, qlen, nin, nout, eof, wown, rr, wr, want, part, dow, wvars, cvars>>

\* ++q->eof, after the locks are released; return 0 or an error.
ReadEof(r) ==
  /\ rpc[r] = "eof"
  /\ eof' = IF eof < 4 THEN eof + 1 ELSE eof
  /\ RGoto(r, "idle") /\ want' = [want EXCEPT ![r] = 0]
  /\ UNCHANGED <<blocks, qlen, state, nin, nout, rown, wown, rr, wr, part, dow, wvars, cvars, lost>>

\* Sleep(&q->rr, notempty, q).
ReadSleep(r) ==
  /\ rpc[r] = "sleep"
  /\ IF notempty THEN RGoto(r, "top") /\ UNCHANGED rr
     ELSE RGoto(r, "asleep") /\ rr' = r
  /\ UNCHANGED <<qvars, rown, wown, wr, want, part, dow, wvars, cvars, lost>>

\* Sleep raises Eintr.
ReadIntr(r) ==
  /\ rpc[r] = "asleep"
  /\ rr' = NoProc /\ RGoto(r, "idle") /\ RReturn(r)
  /\ UNCHANGED <<qvars, wown, wr, part, dow, wvars, cvars, lost>>

-----------------------------------------------------------------------------
(* Writers.                                                                *)

\* Bytes of the writes under way; for the bound only.
Pending == MapThenSumSet(LAMBDA w : size[w], Writer)

qbwrite(w, n) ==
  /\ wpc[w] = "idle" /\ "w" \in open /\ cpc = "idle"
  /\ nin + Pending + n <= MaxByte
  /\ WGoto(w, "wlock") /\ size' = [size EXCEPT ![w] = n]
  /\ UNCHANGED <<qvars, rown, wown, rr, wr, rvars, loc, cvars, lost>>

WriteLock(w) ==
  /\ wpc[w] = "wlock" /\ wown = NoProc
  /\ wown' = w /\ WGoto(w, "test")
  /\ UNCHANGED <<qvars, rown, rr, wr, rvars, size, loc, cvars, lost>>

\* while(!qnotfull(q)), and the load of q->state |= Qflow.
WriteTest(w) ==
  /\ wpc[w] = "test"
  /\ IF qnotfull THEN WGoto(w, "put") /\ UNCHANGED loc
     ELSE WGoto(w, "store") /\ loc' = state
  /\ UNCHANGED <<qvars, rown, wown, rr, wr, rvars, size, cvars, lost>>

\* The store of q->state |= Qflow, over what has been set since the load.
WriteFlow(w) ==
  /\ wpc[w] = "store"
  /\ state' = loc \cup {"flow"}
  /\ lost' = (lost \cup (state \ loc)) \ {"flow"}
  /\ WGoto(w, "sleep") /\ loc' = {}
  /\ UNCHANGED <<blocks, qlen, nin, nout, eof, rown, wown, rr, wr, rvars, size, cvars>>

\* Sleep(&q->wr, qnotfull, q).
WriteSleep(w) ==
  /\ wpc[w] = "sleep"
  /\ IF qnotfull THEN WGoto(w, "test") /\ UNCHANGED wr
     ELSE WGoto(w, "asleep") /\ wr' = w
  /\ UNCHANGED <<qvars, rown, wown, rr, rvars, size, loc, cvars, lost>>

WriteIntr(w) ==
  /\ wpc[w] = "asleep"
  /\ wr' = NoProc /\ WReturn(w)
  /\ UNCHANGED <<qvars, rown, rr, rvars, loc, cvars, lost>>

\* Link a block of n bytes in; whether a starved reader is to be woken.
Put(n) ==
  /\ blocks' = Append(blocks, <<nin + 1, nin + n>>)
  /\ qlen' = qlen + n /\ nin' = nin + n
  /\ state' = state \ {"starve"}
Starved == "starve" \in state

WritePut(w) ==
  /\ wpc[w] = "put"
  /\ \/ /\ "closed" \in state       \* error(q->err)
        /\ WReturn(w)
        /\ UNCHANGED qvars
     \/ /\ "closed" \notin state
        /\ Put(size[w])
        /\ IF Starved THEN WGoto(w, "wake") /\ UNCHANGED <<wown, size>> ELSE WReturn(w)
        /\ UNCHANGED <<nout, eof>>
  /\ UNCHANGED <<rown, rr, wr, rvars, loc, cvars, lost>>

WriteWake(w) ==
  /\ wpc[w] = "wake" /\ w \in Writer
  /\ WakeReader(rpc) /\ WReturn(w)
  /\ UNCHANGED <<qvars, rown, wr, want, part, dow, loc, cvars, lost>>

-----------------------------------------------------------------------------
(* Producers that must not block (keyboard, mouse, console).               *)

\* qproduce: a full queue takes nothing.
qproduce(d, n) ==
  /\ wpc[d] = "idle" /\ nin + n <= MaxByte
  /\ \/ /\ qlen >= Limit
        /\ state' = state \cup {"flow"}
        /\ UNCHANGED <<blocks, qlen, nin, wpc>>
     \/ /\ qlen < Limit
        /\ Put(n) /\ WGoto(d, IF Starved THEN "wake" ELSE "idle")
  /\ UNCHANGED <<nout, eof, rown, wown, rr, wr, rvars, size, loc, cvars, lost>>

\* qiwrite: no flow control.
qiwrite(d, n) ==
  /\ wpc[d] = "idle" /\ nin + n <= MaxByte
  /\ Put(n) /\ WGoto(d, IF Starved THEN "wake" ELSE "idle")
  /\ UNCHANGED <<nout, eof, rown, wown, rr, wr, rvars, size, loc, cvars, lost>>

ProduceWake(d) ==
  /\ wpc[d] = "wake" /\ d \in Dev
  /\ WakeReader(rpc) /\ WGoto(d, "idle")
  /\ UNCHANGED <<qvars, rown, wown, wr, want, part, dow, size, loc, cvars, lost>>

-----------------------------------------------------------------------------
(* The ends of the pipe.  p->l keeps pipeopen and pipeclose apart; a       *)
(* process inside a read or a write holds a reference, so an end that is   *)
(* closed for the last time has nobody in it.                              *)

pipeopen(e) ==
  /\ cpc = "idle" /\ e \notin open
  /\ open' = open \cup {e}
  /\ UNCHANGED <<qvars, rown, wown, rr, wr, rvars, wvars, cpc, lost>>

\* The last close of the reading end: qclose(q).
CloseRead ==
  /\ cpc = "idle" /\ "r" \in open /\ \A r \in Reader : rpc[r] = "idle"
  /\ open' = open \ {"r"}
  /\ state' = state \cup {"closed"}
  /\ blocks' = <<>> /\ qlen' = 0 /\ nout' = nin
  /\ cpc' = "wakerr" /\ lost' = lost \ {"closed"}
  /\ UNCHANGED <<nin, eof, rown, wown, rr, wr, rvars, wvars>>

\* The last close of the writing end: qhangup(q, 0).
CloseWrite ==
  /\ cpc = "idle" /\ "w" \in open /\ \A w \in Writer : wpc[w] = "idle"
  /\ open' = open \ {"w"}
  /\ state' = state \cup {"closed"}
  /\ cpc' = "wakerr"
  /\ UNCHANGED <<blocks, qlen, nin, nout, eof, rown, wown, rr, wr, rvars, wvars, lost>>

\* "wake up readers/writers", first the ones, then the others.
CloseWakeReader ==
  /\ cpc = "wakerr"
  /\ WakeReader(rpc) /\ cpc' = "wakewr"
  /\ UNCHANGED <<qvars, rown, wown, wr, want, part, dow, wvars, open, lost>>

CloseWakeWriter ==
  /\ cpc = "wakewr"
  /\ WakeWriter(wpc) /\ cpc' = IF open = {} THEN "reopen" ELSE "idle"
  /\ UNCHANGED <<qvars, rown, wown, rr, rvars, size, loc, open, lost>>

\* "if both sides are closed, they are reusable".  Bytes that nobody has read stay;
\* the numbering starts again with them.
qreopen ==
  /\ cpc = "reopen"
  /\ state' = (state \ {"closed"}) \cup {"starve"} /\ eof' = 0
  /\ blocks' = [i \in 1..Len(blocks) |-> <<blocks[i][1] - nout, blocks[i][2] - nout>>]
  /\ nin' = nin - nout /\ nout' = 0
  /\ cpc' = "idle" /\ lost' = {}
  /\ UNCHANGED <<qlen, rown, wown, rr, wr, rvars, wvars, open>>

-----------------------------------------------------------------------------
Reading(r) ==
  \/ ReadLock(r) \/ ReadTake(r) \/ ReadSplit(r) \/ ReadWake(r)
  \/ ReadEmpty(r) \/ ReadEof(r) \/ ReadSleep(r)
Writing(w) ==
  \/ WriteLock(w) \/ WriteTest(w) \/ WriteFlow(w) \/ WriteSleep(w) \/ WritePut(w) \/ WriteWake(w)
Closing == CloseWakeReader \/ CloseWakeWriter \/ qreopen

Readers == \E r \in Reader : Reading(r) \/ ReadIntr(r) \/ \E n \in Want : qbread(r, n)

PipeNext ==
  \/ \E w \in Writer : Writing(w) \/ WriteIntr(w) \/ \E n \in Size : qbwrite(w, n)
  \/ \E e \in {"r", "w"} : pipeopen(e)
  \/ CloseRead \/ CloseWrite \/ Closing

DevNext ==
  \E d \in Dev : ProduceWake(d) \/ \E n \in Size : qproduce(d, n) \/ qiwrite(d, n)

Next ==
  /\ Readers \/ (kind = "pipe" /\ PipeNext) \/ (kind = "device" /\ DevNext)
  /\ UNCHANGED kind

Spec == Init /\ [][Next]_vars

\* A process that has begun to close an end goes through with it; nobody else needs to
\* run.
FairSpec == Spec /\ WF_vars(Closing /\ UNCHANGED kind)

-----------------------------------------------------------------------------
(* Properties.                                                             *)

\* Nothing is lost, repeated or out of order: what a reader split off, and then the
\* blocks, are the bytes after the last one read up to the last one written, though
\* qbread gives the lock up between taking a block and putting its rest back; and q->len
\* is the "bytes in queue" (all but what is split off), so that flow control goes by what
\* is there.  A reader sees the end of the stream only after all that was written, unless
\* a writer's store has undone the closing of the queue.
InOrder ==
  LET all == (IF part = None THEN <<>> ELSE <<part>>) \o blocks IN
  /\ \A i \in 1..Len(all) :
       all[i][1] = (IF i = 1 THEN nout ELSE all[i - 1][2]) + 1 /\ all[i][1] <= all[i][2]
  /\ nin = IF all = <<>> THEN nout ELSE all[Len(all)][2]
  /\ qlen = nin - nout - (IF part = None THEN 0 ELSE BLEN(part))
  /\ (\E r \in Reader : rpc[r] = "eof") => nin = nout \/ "closed" \in lost

\* What the comment of qbread says of Qstarve, the "flag requesting producer to wake me":
\* a reader asleep on a queue with bytes in it, or closed, is about to be woken.
StarvedWoken ==
  rr # NoProc /\ notempty =>
    cpc = "wakerr" \/ \E w \in Writer \cup Dev : wpc[w] = "wake"

\* A reader misses its wake-up in one way only: a writer's store of q->state |= Qflow,
\* without q->l, has wiped its Qstarve.
ReaderWoken == StarvedWoken \/ "starve" \in lost

\* What qbread says of Qflow ("if writer flow controlled, restart", "wakeup flow
\* controlled writers"): a writer asleep on a queue that is closed, or less than half
\* full, is about to be woken.
FlowRestarts ==
  wr # NoProc /\ ("closed" \in state \/ qlen < Limit \div 2) =>
    cpc \in {"wakerr", "wakewr"} \/ \E r \in Reader : rpc[r] \in {"split", "wake"} /\ dow = 1

\* A writer misses its wake-up in one way only: the rest of a block filled the queue
\* again after qbread had cleared Qflow.
WriterWoken == FlowRestarts \/ "flow" \in lost

\* Closing an end releases whoever sleeps at the other.
HangupReleases == "closed" \in state ~> rr = NoProc /\ wr = NoProc

=============================================================================
