------------------------------ MODULE DisChan ------------------------------
(***************************************************************************)
(* Channel communication between Limbo threads ("progs") in the Dis        *)
(* virtual machine: send, receive, alt, queued sends, receives made from   *)
(* inside a system call, kill, and the death of a channel with threads     *)
(* waiting on it.  Sources: interp/alt.c, interp/xec.c, interp/heap.c,     *)
(* emu/dis.c, emu/inferno.c, emu/exception.c.                              *)
(*                                                                         *)
(* Everything here runs with the VM held, so one action is one instruction *)
(* or one stretch of a system call between acquire and release.  Who holds *)
(* the VM is the subject of module VMSched.                                *)
(*                                                                         *)
(* Reference counts are abstracted: a channel may lose its last reference  *)
(* at any moment (another thread may clear the variable that holds it, and *)
(* the compiler leaves uncounted references in alt tables), so FreeChan is *)
(* always possible, and a message is named by its sender and its channel.  *)
(***************************************************************************)
EXTENDS Naturals, Sequences, FiniteSets, SequencesExt

CONSTANTS Prog,     \* threads
          Chan,     \* channels
          NoProg,   \* nil
          NoChan,   \* nil
          Lim,      \* the limit given to csendq (TkMaxmsgs in interp/tk.c)
          QChan,    \* bound: channels that csendq is used on
          MaxAlt    \* bound: entries of an alt

ASSUME NilAssumption == NoProg \notin Prog /\ NoChan \notin Chan /\ IsFiniteSet(Prog)
ASSUME LimAssumption == Lim \in Nat \ {0} /\ MaxAlt \in Nat /\ QChan \subseteq Chan

VARIABLES runq,   \* isched.runhd .. runtl; its head is currun()
          state,  \* Prog.state
          kill,   \* Prog.kill: "kill" is the empty string killprog stores
          blk,    \* where the kernel process running a prog stands, below
          chan,   \* Prog.chan
          ptr,    \* whether Prog.ptr is set
          alt,    \* the alt table a prog in state "alt" waits with
          live,   \* allocated channels
          ch,     \* Channel
          moved   \* the message the last step moved, with its receiver

vars == <<runq, state, kill, blk, chan, ptr, alt, live, ch, moved>>

(***************************************************************************)
(* blk: "no" between instructions, "in" inside a call that holds the VM,   *)
(* "sys" in a call that released it, "block" and "sleep" in cblock with    *)
(* p->addrun set to cwakeme, before Sleep and in it, "woken" after         *)
(* cwakeme, "intr" after swiprog or when cblock finds p->kill set, "dying" *)
(* in delprog (no longer in the prog list).                                *)
(***************************************************************************)
ProgState == {"none", "ready", "alt", "send", "recv", "release", "exiting", "broken"}
Where == {"no", "in", "sys", "block", "sleep", "woken", "intr", "dying"}
Msg == Prog \X Chan
NoMsg == <<>>
AltTable == [send : SUBSET Chan, recv : SUBSET Chan]
NoAlt == [send |-> {}, recv |-> {}]
\* Mutant of cnewc: one of the four pointers is left as the heap had it.
cnewc_uninit == [send |-> <<>>, sendalt |-> NoProg, recv |-> <<>>, recvalt |-> NoChan,
                 sendq |-> <<>>]
cnewc == [send |-> <<>>, sendalt |-> NoProg, recv |-> <<>>, recvalt |-> NoProg,
          sendq |-> <<>>]

TypeOK ==
  /\ runq \in Seq(Prog)
  /\ state \in [Prog -> ProgState]
  /\ kill \in [Prog -> {"no", "kill", "hangup"}]
  /\ blk \in [Prog -> Where]
  /\ chan \in [Prog -> Chan \cup {NoChan}]
  /\ ptr \in [Prog -> BOOLEAN]
  /\ alt \in [Prog -> AltTable]
  /\ live \subseteq Chan
  /\ ch \in [Chan -> [send : Seq(Prog), sendalt : Prog \cup {NoProg},
                      recv : Seq(Prog), recvalt : Prog \cup {NoProg},
                      sendq : Seq(Msg)]]
  /\ moved \in (Prog \X Chan \X Prog) \cup {NoMsg}

Init ==
  \E p \in Prog :
    /\ runq = <<p>>
    /\ state = [q \in Prog |-> IF q = p THEN "ready" ELSE "none"]
    /\ kill = [q \in Prog |-> "no"]
    /\ blk = [q \in Prog |-> "no"]
    /\ chan = [q \in Prog |-> NoChan]
    /\ ptr = [q \in Prog |-> FALSE]
    /\ alt = [q \in Prog |-> NoAlt]
    /\ live = {}
    /\ ch = [c \in Chan |-> cnewc]
    /\ moved = NoMsg

-----------------------------------------------------------------------------
(* The run queue.                                                          *)

currun == Head(runq)

\* xec has checked p->kill and p executes an instruction.
Running(p) == runq # <<>> /\ currun = p /\ blk[p] = "no" /\ kill[p] = "no"

\* p is inside a built-in call and holds the VM.
InCall(p) == Running(p) \/ (runq # <<>> /\ currun = p /\ blk[p] = "in")

\* Between two quanta, or with nothing to run, the VM can change hands.
VMFree == runq # <<>> => blk[currun] # "in"

\* Mutant of Hooked: the hook is cleared when the sleep is interrupted.
Hooked_cleared(p) == blk[p] \in {"block", "sleep"}

\* The addrun hook of a prog in cblock.
Hooked(p) == blk[p] \in {"block", "sleep", "intr"}

\* addrun: a prog in cblock is woken through its hook, any other goes to the
\* tail of the run queue.
addrun(p) ==
  /\ runq' = IF Hooked(p) THEN runq ELSE Append(runq, p)
  /\ state' = IF Hooked(p) THEN state ELSE [state EXCEPT ![p] = "ready"]
  /\ blk' = [blk EXCEPT ![p] = IF @ \in {"block", "sleep"} THEN "woken" ELSE @]

\* The head of the run queue leaves it.
delrun(p, st) == runq' = Tail(runq) /\ state' = [state EXCEPT ![p] = st]

-----------------------------------------------------------------------------
(* Alt marks: operators on the table of channels.                          *)

\* altrdy/altmark, pass 1: an entry that is taken already is left alone (and
\* is an error), and a send entry whose channel this alt also receives on is
\* not marked.
AltMark(t, p, a) ==
  [c \in Chan |->
    LET r == IF c \in a.recv /\ t[c].recvalt = NoProg THEN p ELSE t[c].recvalt
        s == IF c \in a.send /\ r # p /\ t[c].sendalt = NoProg THEN p ELSE t[c].sendalt
    IN  [t[c] EXCEPT !.recvalt = r, !.sendalt = s]]

\* Mutant of altdone: only the receive entries are cancelled.
altdone_recvonly(t, p, a) ==
  [c \in Chan |-> [t[c] EXCEPT !.recvalt = IF c \in a.recv /\ @ = p THEN NoProg ELSE @]]

\* altdone/altunmark, pass 3: the marks of p are cancelled in each entry.
altdone(t, p, a) ==
  [c \in Chan |->
    [t[c] EXCEPT !.sendalt = IF c \in a.send /\ @ = p THEN NoProg ELSE @,
                 !.recvalt = IF c \in a.recv /\ @ = p THEN NoProg ELSE @]]

\* The errors of altrdy: exBusy and exAlt.
AltBad(a, p) ==
  \/ \E c \in a.recv : ch[c].recvalt # NoProg
  \/ \E c \in a.send : c \in a.recv \/ ch[c].sendalt # NoProg

\* Mutant of RecvWaits: alting receivers are overlooked.
RecvWaits_noalt(t, c) == t[c].recv # <<>>

RecvWaits(t, c) == t[c].recv # <<>> \/ t[c].recvalt # NoProg
SendWaits(t, c) == t[c].send # <<>> \/ t[c].sendalt # NoProg

-----------------------------------------------------------------------------
(* The two halves of a meeting, on a table t of channels: the partner that *)
(* isend or irecv takes (an alting partner first), and what taking it      *)
(* leaves of the table.                                                    *)

Receiver(t, c) == IF t[c].recvalt # NoProg THEN t[c].recvalt ELSE Head(t[c].recv)
TakeReceiver(t, c) ==
  IF t[c].recvalt # NoProg
  THEN altdone([t EXCEPT ![c].recvalt = NoProg], t[c].recvalt, alt[t[c].recvalt])
  ELSE [t EXCEPT ![c].recv = Tail(@)]

Sender(t, c) == IF t[c].sendalt # NoProg THEN t[c].sendalt ELSE Head(t[c].send)
TakeSender(t, c) ==
  IF t[c].sendalt # NoProg
  THEN altdone([t EXCEPT ![c].sendalt = NoProg], t[c].sendalt, alt[t[c].sendalt])
  ELSE [t EXCEPT ![c].send = Tail(@)]

\* The rest of a meeting: the data moves to the receiver, the partner q runs.
Meet(q, from, to, c) ==
  /\ moved' = <<from, c, to>>
  /\ ptr' = [ptr EXCEPT ![q] = FALSE]
  /\ alt' = [alt EXCEPT ![q] = NoAlt]
  /\ chan' = [chan EXCEPT ![q] = NoChan]
  /\ addrun(q)

\* No message moves.
Still == moved' = NoMsg

-----------------------------------------------------------------------------
(* Instructions.                                                           *)

\* newc: a channel nobody waits on.
newc(p, c) ==
  /\ Running(p)
  /\ c \notin live
  /\ live' = live \cup {c}
  /\ ch' = [ch EXCEPT ![c] = cnewc]
  /\ Still
  /\ UNCHANGED <<runq, state, kill, blk, chan, ptr, alt>>

\* p leaves the run queue and joins the tail of a wait list of c.
Wait(p, st, c) ==
  /\ delrun(p, st)
  /\ ptr' = [ptr EXCEPT ![p] = TRUE]
  /\ chan' = [chan EXCEPT ![p] = c]
  /\ Still
  /\ UNCHANGED <<kill, blk, alt, live>>

isend(p, c) ==
  /\ Running(p)
  /\ c \in live
  /\ \/ /\ ~ RecvWaits(ch, c)
        /\ ch' = [ch EXCEPT ![c].send = Append(@, p)]
        /\ Wait(p, "send", c)
     \/ /\ RecvWaits(ch, c)
        /\ ch' = TakeReceiver(ch, c)
        /\ Meet(Receiver(ch, c), p, Receiver(ch, c), c)
        /\ UNCHANGED <<kill, live>>

\* Mutant of irecv: a queued message is taken before a waiting sender.
irecv_queuefirst(p, c) ==
  /\ Running(p)
  /\ c \in live
  /\ \/ /\ ~ SendWaits(ch, c) /\ ch[c].sendq = <<>>
        /\ ch' = [ch EXCEPT ![c].recv = Append(@, p)]
        /\ Wait(p, "recv", c)
     \/ /\ ch[c].sendq # <<>>
        /\ ch' = [ch EXCEPT ![c].sendq = Tail(@)]
        /\ moved' = Append(Head(ch[c].sendq), p)
        /\ UNCHANGED <<runq, state, kill, blk, chan, ptr, alt, live>>
     \/ /\ SendWaits(ch, c) /\ ch[c].sendq = <<>>
        /\ ch' = TakeSender(ch, c)
        /\ Meet(Sender(ch, c), Sender(ch, c), p, c)
        /\ UNCHANGED <<kill, live>>

\* A receiver takes a waiting sender first, then a queued message.
irecv(p, c) ==
  /\ Running(p)
  /\ c \in live
  /\ \/ /\ ~ SendWaits(ch, c) /\ ch[c].sendq = <<>>
        /\ ch' = [ch EXCEPT ![c].recv = Append(@, p)]
        /\ Wait(p, "recv", c)
     \/ /\ ~ SendWaits(ch, c) /\ ch[c].sendq # <<>>
        /\ ch' = [ch EXCEPT ![c].sendq = Tail(@)]
        /\ moved' = Append(Head(ch[c].sendq), p)
        /\ UNCHANGED <<runq, state, kill, blk, chan, ptr, alt, live>>
     \/ /\ SendWaits(ch, c)
        /\ ch' = TakeSender(ch, c)
        /\ Meet(Sender(ch, c), Sender(ch, c), p, c)
        /\ UNCHANGED <<kill, live>>

\* Uncaught, an exception breaks the thread; the empty one (kill, exit) ends
\* it, and delprog then releases the VM while it closes the thread's groups.
Raise(p, es) ==
  \/ /\ kill' = [kill EXCEPT ![p] = "no"]          \* handler
     /\ blk' = [blk EXCEPT ![p] = "no"]
     /\ UNCHANGED <<runq, state>>
  \/ /\ "hangup" \in es                            \* progexit, broken
     /\ delrun(p, "broken")
     /\ kill' = [kill EXCEPT ![p] = "no"]
     /\ blk' = [blk EXCEPT ![p] = "no"]
  \/ /\ "kill" \in es                              \* progexit, delprog
     /\ delrun(p, "release")
     /\ kill' = [kill EXCEPT ![p] = "no"]
     /\ blk' = [blk EXCEPT ![p] = "dying"]

\* Sys_raise, exit, a nil channel.
raise(p) ==
  /\ Running(p)
  /\ Raise(p, {"hangup", "kill"})
  /\ Still
  /\ UNCHANGED <<chan, ptr, alt, live, ch>>

\* The entry check of xec and the exit check of mcall.
RaiseKill(p) ==
  /\ runq # <<>> /\ currun = p
  /\ blk[p] \in {"no", "in"} /\ kill[p] # "no"
  /\ Raise(p, {kill[p]})
  /\ Still
  /\ UNCHANGED <<chan, ptr, alt, live, ch>>

\* The last part of delprog: acquire, unlink from the run queue, free.
Reap(p) ==
  /\ blk[p] = "dying" /\ VMFree
  /\ state' = [state EXCEPT ![p] = "none"]
  /\ blk' = [blk EXCEPT ![p] = "no"]
  /\ Still
  /\ UNCHANGED <<runq, kill, chan, ptr, alt, live, ch>>

\* spawn: newprog puts the new thread at the tail of the run queue.
spawn(p, q) ==
  /\ Running(p)
  /\ state[q] = "none"
  /\ runq' = Append(runq, q)
  /\ state' = [state EXCEPT ![q] = "ready"]
  /\ Still
  /\ UNCHANGED <<kill, blk, chan, ptr, alt, live, ch>>

\* The end of a quantum in vmachine.
Rotate(p) ==
  /\ Len(runq) > 1 /\ currun = p /\ blk[p] = "no" /\ kill[p] = "no"
  /\ runq' = Append(Tail(runq), p)
  /\ Still
  /\ UNCHANGED <<state, kill, blk, chan, ptr, alt, live, ch>>

-----------------------------------------------------------------------------
(* alt and nbalt: xecalt.                                                  *)

Entry(a) == ({"send"} \X a.send) \cup ({"recv"} \X a.recv)

AltReady(a) ==
  {e \in Entry(a) : \/ e[1] = "send" /\ RecvWaits(ch, e[2])
                    \/ e[1] = "recv" /\ (SendWaits(ch, e[2]) \/ ch[e[2]].sendq # <<>>)}

\* An entry is taken, or one channel is named twice.
AltErr(p, a, twice) ==
  /\ Running(p)
  /\ twice \/ AltBad(a, p)
  /\ ch' = altdone(AltMark(ch, p, a), p, a)
  /\ Raise(p, {"hangup"})
  /\ Still
  /\ UNCHANGED <<chan, ptr, alt, live>>

AltBlock(p, a) ==
  /\ Running(p)
  /\ ~ AltBad(a, p) /\ AltReady(a) = {}
  /\ ch' = AltMark(ch, p, a)
  /\ alt' = [alt EXCEPT ![p] = a]
  /\ delrun(p, "alt")
  /\ Still
  /\ UNCHANGED <<kill, blk, chan, ptr, live>>

\* nbalt with nothing ready.
AltNone(p, a) ==
  /\ Running(p)
  /\ ~ AltBad(a, p) /\ AltReady(a) = {}
  /\ ch' = altdone(AltMark(ch, p, a), p, a)
  /\ Still
  /\ UNCHANGED <<runq, state, kill, blk, chan, ptr, alt, live>>

\* altcomm: one ready entry (the code draws it with xrand), then altdone.
AltComm(p, a) ==
  /\ Running(p)
  /\ ~ AltBad(a, p)
  /\ \E e \in AltReady(a) :
       LET c == e[2]
           m == AltMark(ch, p, a)
       IN \/ /\ e[1] = "send"
             /\ ch' = altdone(TakeReceiver(m, c), p, a)
             /\ Meet(Receiver(m, c), p, Receiver(m, c), c)
          \/ /\ e[1] = "recv" /\ SendWaits(m, c)
             /\ ch' = altdone(TakeSender(m, c), p, a)
             /\ Meet(Sender(m, c), Sender(m, c), p, c)
          \/ /\ e[1] = "recv" /\ ~ SendWaits(m, c)
             /\ ch' = altdone([m EXCEPT ![c].sendq = Tail(@)], p, a)
             /\ moved' = Append(Head(ch[c].sendq), p)
             /\ UNCHANGED <<runq, state, blk, chan, ptr, alt>>
  /\ UNCHANGED <<kill, live>>

xecalt(p, a) ==
  (\E twice \in BOOLEAN : AltErr(p, a, twice)) \/ AltBlock(p, a) \/ AltNone(p, a) \/ AltComm(p, a)

-----------------------------------------------------------------------------
(* Built-in calls.                                                         *)

Enter(p) == blk' = [blk EXCEPT ![p] = "in"]

release(p) ==
  /\ InCall(p)
  /\ delrun(p, "release")
  /\ blk' = [blk EXCEPT ![p] = "sys"]
  /\ Still
  /\ UNCHANGED <<kill, chan, ptr, alt, live, ch>>

\* acquire, also at the end of cblock: the prog goes to the head of the run
\* queue.  In the error case ccom unlinks it, unless killcomm already has.
acquire(p) ==
  /\ VMFree
  /\ blk[p] \in {"sys", "woken", "intr"}
  /\ runq' = <<p>> \o runq
  /\ state' = [state EXCEPT ![p] = "ready"]
  /\ Enter(p)
  /\ IF blk[p] = "intr" /\ ptr[p]
     THEN /\ ch' = [c \in Chan |-> [ch[c] EXCEPT !.recv = RemoveFirst(@, p)]]
          /\ ptr' = [ptr EXCEPT ![p] = FALSE]
     ELSE UNCHANGED <<ch, ptr>>
  /\ Still
  /\ UNCHANGED <<kill, chan, alt, live>>

\* The return of a call in mcall when p->kill is nil.
Return(p) ==
  /\ runq # <<>> /\ currun = p /\ blk[p] = "in" /\ kill[p] = "no"
  /\ blk' = [blk EXCEPT ![p] = "no"]
  /\ Still
  /\ UNCHANGED <<runq, state, kill, chan, ptr, alt, live, ch>>

\* csendq: with no receiver the message is queued, up to the limit.
csendq(p, c) ==
  /\ InCall(p)
  /\ c \in live \cap QChan
  /\ \/ /\ ~ RecvWaits(ch, c) /\ Len(ch[c].sendq) < Lim
        /\ ch' = [ch EXCEPT ![c].sendq = Append(@, <<p, c>>)]
        /\ Still /\ Enter(p)
        /\ UNCHANGED <<runq, state, chan, ptr, alt>>
     \/ /\ ~ RecvWaits(ch, c) /\ Len(ch[c].sendq) >= Lim
        /\ Still /\ Enter(p)
        /\ UNCHANGED <<ch, runq, state, chan, ptr, alt>>
     \/ /\ RecvWaits(ch, c)
        /\ ch' = TakeReceiver(ch, c)
        /\ Meet(Receiver(ch, c), p, Receiver(ch, c), c)
  /\ UNCHANGED <<kill, live>>

\* crecv, ccom, cblock: p releases the VM while it is in the wait list.
crecv(p, c) ==
  /\ InCall(p)
  /\ c \in live
  /\ \/ /\ ~ SendWaits(ch, c) /\ ch[c].sendq = <<>>
        /\ ch' = [ch EXCEPT ![c].recv = Append(@, p)]
        /\ ptr' = [ptr EXCEPT ![p] = TRUE]
        /\ delrun(p, "release")
        /\ blk' = [blk EXCEPT ![p] = "block"]
        /\ Still
        /\ UNCHANGED <<chan, alt>>
     \/ /\ ~ SendWaits(ch, c) /\ ch[c].sendq # <<>>
        /\ ch' = [ch EXCEPT ![c].sendq = Tail(@)]
        /\ moved' = Append(Head(ch[c].sendq), p)
        /\ Enter(p)
        /\ UNCHANGED <<runq, state, chan, ptr, alt>>
     \/ /\ SendWaits(ch, c)
        /\ ch' = TakeSender(ch, c)
        /\ Meet(Sender(ch, c), Sender(ch, c), p, c)
  /\ UNCHANGED <<kill, live>>

\* Mutant of cblock: Sleep's condition does not look at p->kill.
cblock_nokill(p) ==
  /\ blk[p] = "block"
  /\ blk' = [blk EXCEPT ![p] = "sleep"]
  /\ Still
  /\ UNCHANGED <<runq, state, kill, chan, ptr, alt, live, ch>>

\* The rest of cblock, without the VM: Sleep.  With p->kill set cdone holds at once and
\* the wait ends in the error case; after cwakeme p is "woken" and does not sleep.
cblock(p) ==
  /\ blk[p] = "block"
  /\ blk' = [blk EXCEPT ![p] = IF kill[p] = "no" THEN "sleep" ELSE "intr"]
  /\ Still
  /\ UNCHANGED <<runq, state, kill, chan, ptr, alt, live, ch>>

-----------------------------------------------------------------------------
(* Kill and hangup.                                                        *)

\* killprog for a prog that is neither running nor inside a call: it leaves
\* whatever it waits on and is freed; delprog makes the killer release the VM.
KillFree(k, p, t) ==
  /\ ch' = t
  /\ runq' = Tail(IF state[p] = "ready" THEN RemoveFirst(runq, p) ELSE runq)
  /\ state' = [state EXCEPT ![p] = "none", ![k] = "release"]
  /\ blk' = [blk EXCEPT ![k] = "sys"]
  /\ kill' = [kill EXCEPT ![p] = "no"]
  /\ ptr' = [ptr EXCEPT ![p] = FALSE]
  /\ chan' = [chan EXCEPT ![p] = NoChan]
  /\ alt' = [alt EXCEPT ![p] = NoAlt]
  /\ Still

\* The table of channels without p in the list killprog looks for it in.
Delcomm(p) ==
  CASE state[p] = "alt"  -> altdone(ch, p, alt[p])
    [] state[p] = "send" -> [ch EXCEPT ![chan[p]].send = RemoveFirst(@, p)]
    [] state[p] = "recv" -> [ch EXCEPT ![chan[p]].recv = RemoveFirst(@, p)]
    [] OTHER -> ch

killprog(k, p) ==
  /\ InCall(k)
  /\ state[p] # "none" /\ blk[p] # "dying"
  /\ \/ /\ p = k
        /\ kill' = [kill EXCEPT ![p] = "kill"]
        /\ state' = [state EXCEPT ![p] = "exiting"]
        /\ Enter(k) /\ Still
        /\ UNCHANGED <<ch, runq, ptr, chan, alt>>
     \/ /\ p # k /\ state[p] \in {"alt", "send", "recv", "ready", "broken"}
        /\ KillFree(k, p, Delcomm(p))
     \/ /\ p # k /\ state[p] = "release"           \* swiprog interrupts it
        /\ kill' = [kill EXCEPT ![p] = "kill"]
        /\ state' = [state EXCEPT ![p] = "exiting"]
        /\ blk' = [blk EXCEPT ![p] = IF @ = "sleep" THEN "intr" ELSE @, ![k] = "in"]
        /\ Still
        /\ UNCHANGED <<ch, runq, ptr, chan, alt>>
     \/ /\ p # k /\ state[p] = "exiting"
        /\ Enter(k) /\ Still
        /\ UNCHANGED <<ch, runq, state, kill, ptr, chan, alt>>
  /\ UNCHANGED live

\* altgone for the prog at an alt pointer, on a table of channels.
AltGone(t, p) ==
  IF p # NoProg /\ state[p] = "alt" THEN altdone(t, p, alt[p]) ELSE t

\* The elements of h come in the order they have in s.
InOrderOf(h, s) ==
  \A i, j \in 1..Len(h) : i < j => \E k, l \in 1..Len(s) : k < l /\ s[k] = h[i] /\ s[l] = h[j]

\* freechan: altgone for both alt pointers, then killcomm for both lists.
\* Gone is who runs again, in the order they are come upon, with a hangup to raise;
\* Swi is who is interrupted in cblock, which nobody notices who is not asleep yet.
FreeChan(c) ==
  LET t    == AltGone(AltGone(ch, ch[c].sendalt), ch[c].recvalt)
      all  == <<ch[c].sendalt, ch[c].recvalt>> \o ch[c].send \o ch[c].recv
      Gone == {p \in Prog : p \in ToSet(all) /\ state[p] \in {"alt", "send", "recv"}}
      Swi  == {p \in ToSet(ch[c].recv) : state[p] = "release"}
  IN /\ c \in live
     /\ live' = live \ {c}
     /\ ch' = [t EXCEPT ![c] = cnewc]
     /\ \E h \in SetToSeqs(Gone) : InOrderOf(h, all) /\ runq' = runq \o h
     /\ state' = [p \in Prog |-> IF p \in Gone THEN "ready" ELSE state[p]]
     /\ kill' = [p \in Prog |-> IF p \in Gone THEN "hangup" ELSE kill[p]]
     /\ ptr' = [p \in Prog |-> IF p \in Gone \cup ToSet(ch[c].recv) THEN FALSE ELSE ptr[p]]
     /\ chan' = [p \in Prog |-> IF p \in Gone THEN NoChan ELSE chan[p]]
     /\ alt' = [p \in Prog |-> IF p \in Gone THEN NoAlt ELSE alt[p]]
     /\ blk' = [p \in Prog |-> IF p \in Swi /\ blk[p] = "sleep" THEN "intr" ELSE blk[p]]
     /\ Still

\* movp into an array of channels that another thread waits on in an alt: the alt
\* table refers to the array, so the entry changes under the waiting alt.
ArrayStore(p, q, c, d) ==
  /\ Running(p)
  /\ state[q] = "alt" /\ c \in alt[q].recv /\ d \in live
  /\ alt' = [alt EXCEPT ![q].recv = (@ \ {c}) \cup {d}]
  /\ Still
  /\ UNCHANGED <<runq, state, kill, blk, chan, ptr, live, ch>>

-----------------------------------------------------------------------------

LiveAlt == {a \in [send : SUBSET live, recv : SUBSET live] :
              Cardinality(a.send) + Cardinality(a.recv) \in 1..MaxAlt}

Next ==
  \/ \E p \in Prog : raise(p) \/ RaiseKill(p) \/ Reap(p) \/ Rotate(p) \/ release(p)
                     \/ acquire(p) \/ Return(p) \/ cblock(p)
  \/ \E p, q \in Prog : spawn(p, q) \/ killprog(p, q)
  \/ \E p \in Prog, c \in Chan : newc(p, c) \/ isend(p, c) \/ irecv(p, c)
                                 \/ csendq(p, c) \/ crecv(p, c)
  \/ \E p \in Prog, a \in LiveAlt : xecalt(p, a)
  \/ \E c \in Chan : FreeChan(c)

Spec == Init /\ [][Next]_vars

\* With stores into arrays of channels.
StoreSpec ==
  Init /\ [][Next \/ \E p, q \in Prog, c, d \in Chan : ArrayStore(p, q, c, d)]_vars

-----------------------------------------------------------------------------
(* Properties.                                                             *)

\* The run queue holds no thread twice, and holds exactly the threads that are
\* ready or that killed themselves and have not yet left (addrun, delrun,
\* delrunq, acquire, killprog and killcomm each touch both queue and state).
RunqConsistent ==
  /\ IsInjective(runq)
  /\ \A p \in Prog : p \in ToSet(runq) <=>
       state[p] = "ready" \/ (state[p] = "exiting" /\ blk[p] \in {"no", "in"})

\* A sender and a receiver never both wait on one channel, whatever mixture of
\* send, alt, csendq, crecv, kill and hangup led there (isend, irecv, altrdy).
NoMissedMeeting ==
  \A c \in Chan : ~ /\ ch[c].send # <<>> \/ ch[c].sendalt # NoProg \/ ch[c].sendq # <<>>
                    /\ ch[c].recv # <<>> \/ ch[c].recvalt # NoProg

\* The wait lists and the states of threads tell the same story: a thread is in
\* one list, once, exactly when its state, p->chan or p->ptr says it waits there,
\* only on live channels; and no thread sleeps or waits with a kill pending, though
\* the kill may come between cblock's release and its Sleep.  (A hangup that comes
\* there is lost: killcomm clears p->ptr, and the thread sleeps on no list.)
WaitConsistent ==
  /\ \A c \in Chan :
       /\ IsInjective(ch[c].send) /\ IsInjective(ch[c].recv)
       /\ c \notin live => ch[c] = cnewc
  /\ \A p \in Prog, c \in Chan :
       /\ p \in ToSet(ch[c].send) <=> state[p] = "send" /\ chan[p] = c
       /\ p \in ToSet(ch[c].recv) =>
            \/ state[p] = "recv" /\ chan[p] = c
            \/ Hooked(p) /\ ptr[p]
       /\ state[p] = "recv" /\ chan[p] = c => p \in ToSet(ch[c].recv)
  /\ \A p \in Prog :
       /\ Hooked(p) /\ ptr[p] => \E c \in live : p \in ToSet(ch[c].recv)
       /\ state[p] \in {"send", "recv", "alt"} \/ blk[p] = "sleep" => kill[p] = "no"

\* An alt pointer of a channel is the thread that waits in an alt with that
\* channel among its entries, and every entry of a waiting alt is marked
\* ("Pull out of an ALT cancelling the channel pointers in each item").
AltMarksExact ==
  \A p \in Prog, c \in Chan :
    /\ ch[c].sendalt = p <=> state[p] = "alt" /\ c \in alt[p].send
    /\ ch[c].recvalt = p <=> state[p] = "alt" /\ c \in alt[p].recv

\* What the comments of altmark and altunmark say ("Set each channel's alt pointer
\* to the owning prog", "Remove alt references to an array of channels"): no
\* channel refers to a thread that is not in an alt.
AltRefsRemoved ==
  \A p \in Prog, c \in Chan : ch[c].recvalt = p => state[p] = "alt"

\* The offers a thread has standing, read off the channels.
Offers == [p \in Prog |->
  {<<"send", c>> : c \in {d \in Chan : p \in ToSet(ch[d].send) \/ ch[d].sendalt = p}} \cup
  {<<"recv", c>> : c \in {d \in Chan : p \in ToSet(ch[d].recv) \/ ch[d].recvalt = p}}]

Abs == INSTANCE ChanAbs WITH offer <- Offers, buf <- [c \in Chan |-> ch[c].sendq]

\* The instructions implement synchronous channels: every step is a step of
\* ChanAbs (one meeting takes one offer and withdraws the rest, messages reach
\* the receiver that takes them, hangup ends exactly the waits on the channel).
ImplementsChannels == Abs!Spec

=============================================================================
