------------------------------ MODULE VMSched ------------------------------
(***************************************************************************)
(* Who may run the Dis virtual machine: acquire, release, iyield, startup  *)
(* and vmachine of emu/dis.c.  One kernel process at a time owns the VM.   *)
(* An interpreter that enters a system call releases it to a waiting       *)
(* process, or marks the VM idle and starts a new interpreter for it.  A   *)
(* process that comes back asks for it: it counts itself in isched.yield,  *)
(* queues at the head of isched.vmq, wakes an owner that sleeps for want   *)
(* of work, and waits.                                                     *)
(*                                                                         *)
(* A section under isched.l or under the lock of the Rendez is one step;   *)
(* rendezvous is two-sided, so one step takes both parties past it.  What  *)
(* the progs do is reduced to how many are ready, blocked or away.         *)
(***************************************************************************)
EXTENDS Naturals, Sequences, FiniteSets

CONSTANTS Interp,    \* processes that run vmachine; bounds kproc("dis")
          Kproc,     \* other processes that enter the VM (devices, exporters)
          NoProc,    \* nil
          NProg,     \* number of progs
          MaxYield   \* bound on isched.yield, which nothing in the code limits

Proc == Interp \cup Kproc

ASSUME ProcAssumption == NoProc \notin Proc /\ Interp \cap Kproc = {}
ASSUME NProgAssumption == NProg \in Nat \ {0}
ASSUME MaxYieldAssumption == MaxYield \in Nat \ {0}

VARIABLES pc,       \* where each process is
          hand,     \* the process that a process in "handrel"/"handyield" wakes
          idle,     \* isched.idle
          yield,    \* isched.yield
          vmq,      \* isched.vmq .. vmqt
          irend,    \* isched.irend.p
          nrun,     \* length of the run queue
          nblk      \* progs waiting for another prog

vars == <<pc, hand, idle, yield, vmq, irend, nrun, nblk>>

(***************************************************************************)
(* Owners: "loop" the top of vmachine; "idle" calling Sleep; "asleep"      *)
(* parked in Sleep; "awake" at the yield test; "exec" at runhd; "sys" a    *)
(* built-in about to release; "acqd" back from acquire; "handrel" and      *)
(* "handyield" at the rendezvous that passes the VM on.                    *)
(* Others: "unborn"; "start" in startup; "out" released; "wake" in acquire *)
(* before Wakeup; "parkacq", "parkstart", "parkyield" waiting.             *)
(***************************************************************************)
Owner == {"loop", "idle", "asleep", "awake", "exec", "sys", "acqd", "handrel", "handyield"}
Parked == {"parkacq", "parkstart", "parkyield"}
PC == Owner \cup Parked \cup {"unborn", "start", "out", "wake"}

TypeOK ==
  /\ pc \in [Proc -> PC]
  /\ hand \in [Proc -> Proc \cup {NoProc}]
  /\ idle \in {0, 1}
  /\ yield \in Nat
  /\ vmq \in Seq(Proc)
  /\ irend \in Proc \cup {NoProc}
  /\ nrun \in Nat
  /\ nblk \in Nat

\* disinit: one interpreter in startup, one prog ready.
Init ==
  /\ \E p \in Interp :
       pc = [q \in Proc |-> IF q = p THEN "start" ELSE IF q \in Kproc THEN "out" ELSE "unborn"]
  /\ hand = [p \in Proc |-> NoProc]
  /\ idle = 1
  /\ yield = 0
  /\ vmq = <<>>
  /\ irend = NoProc
  /\ nrun = NProg
  /\ nblk = 0

tready == nrun # 0 \/ yield # 0

Goto(p, l) == pc' = [pc EXCEPT ![p] = l]

-----------------------------------------------------------------------------
\* Mutants of this module, for the properties at its end: each is an operation
\* with a plausible slip in it.

\* acquire leaves isched.idle set.
acquire_stillidle(p) ==
  /\ pc[p] = "out" /\ idle = 1
  /\ nrun' = nrun + 1
  /\ Goto(p, "acqd")
  /\ UNCHANGED <<hand, idle, yield, vmq, irend, nblk>>

\* acquire does not wake the owner.
acquire_nowake(p) ==
  /\ pc[p] = "out"
  /\ \/ idle = 1 /\ idle' = 0 /\ nrun' = nrun + 1 /\ Goto(p, "acqd") /\ UNCHANGED <<yield, vmq>>
     \/ /\ idle = 0 /\ yield < MaxYield
        /\ yield' = yield + 1 /\ vmq' = <<p>> \o vmq
        /\ Goto(p, "parkacq")
        /\ UNCHANGED <<idle, nrun>>
  /\ UNCHANGED <<hand, irend, nblk>>

\* release leaves the process it wakes in vmq.
release_nounlink(p) ==
  /\ pc[p] \in {"sys", "acqd"} /\ nrun > 0 /\ vmq # <<>>
  /\ nrun' = nrun - 1
  /\ hand' = [hand EXCEPT ![p] = Head(vmq)]
  /\ Goto(p, "handrel")
  /\ UNCHANGED <<idle, yield, vmq, irend, nblk>>

\* iyield is called without the test of isched.yield.
iyield_always(p) ==
  /\ pc[p] = "awake"
  /\ yield' = yield - 1
  /\ vmq = <<>> /\ Goto(p, "exec")
  /\ UNCHANGED <<hand, idle, vmq, irend, nrun, nblk>>

\* Sleep does not test the condition again under the lock.
Sleep_notest(p) ==
  /\ pc[p] = "idle"
  /\ Goto(p, "asleep") /\ irend' = p
  /\ UNCHANGED <<hand, idle, yield, vmq, nrun, nblk>>

-----------------------------------------------------------------------------
\* startup: take an idle VM, or queue at the tail for it.
startup(p) ==
  /\ pc[p] = "start"
  /\ \/ /\ idle = 1
        /\ idle' = 0
        /\ Goto(p, "loop")
        /\ UNCHANGED vmq
     \/ /\ idle = 0
        /\ vmq' = Append(vmq, p)
        /\ Goto(p, "parkstart")
        /\ UNCHANGED idle
  /\ UNCHANGED <<hand, yield, irend, nrun, nblk>>

\* acquire, up to unlock(&isched.l).
acquire(p) ==
  /\ pc[p] = "out"
  /\ \/ /\ idle = 1
        /\ idle' = 0
        /\ nrun' = nrun + 1
        /\ Goto(p, "acqd")
        /\ UNCHANGED <<yield, vmq>>
     \/ /\ idle = 0 /\ yield < MaxYield
        /\ yield' = yield + 1
        /\ vmq' = <<p>> \o vmq
        /\ Goto(p, IF yield = 0 THEN "wake" ELSE "parkacq")
        /\ UNCHANGED <<idle, nrun>>
  /\ UNCHANGED <<hand, irend, nblk>>

\* Wakeup(&isched.irend) in acquire: its rendezvous is with the sleeper.
Wakeup(p) ==
  /\ pc[p] = "wake"
  /\ pc' = [q \in Proc |-> IF q = p THEN "parkacq" ELSE IF q = irend THEN "awake" ELSE pc[q]]
  /\ irend' = NoProc
  /\ UNCHANGED <<hand, idle, yield, vmq, nrun, nblk>>

\* release, up to unlock(&isched.l); with nobody waiting the VM is idle and a
\* new interpreter is on its way.
release(p) ==
  /\ pc[p] \in {"sys", "acqd"}
  /\ nrun > 0
  /\ nrun' = nrun - 1
  /\ \/ /\ vmq = <<>>
        /\ idle' = 1
        /\ \E q \in Interp : pc[q] = "unborn" /\ pc' = [pc EXCEPT ![p] = "out", ![q] = "start"]
        /\ UNCHANGED <<vmq, hand>>
     \/ /\ vmq # <<>>
        /\ vmq' = Tail(vmq)
        /\ hand' = [hand EXCEPT ![p] = Head(vmq)]
        /\ Goto(p, "handrel")
        /\ UNCHANGED idle
  /\ UNCHANGED <<yield, irend, nblk>>

\* iyield, up to unlock(&isched.l).
iyield(p) ==
  /\ pc[p] = "awake" /\ yield # 0
  /\ yield' = yield - 1
  /\ \/ vmq = <<>> /\ Goto(p, "exec") /\ UNCHANGED <<vmq, hand>>
     \/ /\ vmq # <<>>
        /\ vmq' = Append(Tail(vmq), p)
        /\ hand' = [hand EXCEPT ![p] = Head(vmq)]
        /\ Goto(p, "handyield")
  /\ UNCHANGED <<idle, irend, nrun, nblk>>

\* Where a waiting process goes on when it gets the VM; acquire then puts its
\* prog on the run queue.
Resume == [l \in Parked |-> CASE l = "parkacq" -> "acqd"
                              [] l = "parkstart" -> "loop"
                              [] l = "parkyield" -> "exec"]

\* rendezvous(p, 0) in release and in iyield, with the process it wakes.
Handoff(p) ==
  LET q == hand[p] IN
  /\ pc[p] \in {"handrel", "handyield"}
  /\ q # NoProc /\ pc[q] \in Parked
  /\ pc' = [pc EXCEPT ![p] = IF @ = "handrel" THEN "out" ELSE "parkyield",
                      ![q] = Resume[@]]
  /\ hand' = [hand EXCEPT ![p] = NoProc]
  /\ nrun' = IF pc[q] = "parkacq" THEN nrun + 1 ELSE nrun
  /\ UNCHANGED <<idle, yield, vmq, irend, nblk>>

-----------------------------------------------------------------------------
(* vmachine.                                                               *)

Loop(p) ==
  /\ pc[p] = "loop"
  /\ Goto(p, IF tready THEN "awake" ELSE "idle")
  /\ UNCHANGED <<hand, idle, yield, vmq, irend, nrun, nblk>>

\* Sleep(&isched.irend, tready, 0), under the lock of the Rendez.
Sleep(p) ==
  /\ pc[p] = "idle"
  /\ \/ tready /\ Goto(p, "awake") /\ UNCHANGED irend
     \/ ~ tready /\ Goto(p, "asleep") /\ irend' = p
  /\ UNCHANGED <<hand, idle, yield, vmq, nrun, nblk>>

\* isched.yield is zero: no iyield.
NoYield(p) ==
  /\ pc[p] = "awake" /\ yield = 0
  /\ Goto(p, "exec")
  /\ UNCHANGED <<hand, idle, yield, vmq, irend, nrun, nblk>>

\* A quantum of the prog at the head: it blocks, makes another ready, or just
\* uses up its time.
xec(p) ==
  /\ pc[p] = "exec"
  /\ \/ nrun > 0 /\ nrun' = nrun - 1 /\ nblk' = nblk + 1
     \/ nrun > 0 /\ nblk > 0 /\ nrun' = nrun + 1 /\ nblk' = nblk - 1
     \/ UNCHANGED <<nrun, nblk>>
  /\ Goto(p, "loop")
  /\ UNCHANGED <<hand, idle, yield, vmq, irend>>

\* The quantum enters a system call.
Syscall(p) ==
  /\ pc[p] = "exec" /\ nrun > 0
  /\ Goto(p, "sys")
  /\ UNCHANGED <<hand, idle, yield, vmq, irend, nrun, nblk>>

\* Back in the VM a call may make a prog ready (csendq, killcomm).
Ready(p) ==
  /\ pc[p] = "acqd" /\ nblk > 0
  /\ nrun' = nrun + 1 /\ nblk' = nblk - 1
  /\ UNCHANGED <<pc, hand, idle, yield, vmq, irend>>

\* The call returns to the interpreter; other processes always release.
Return(p) ==
  /\ p \in Interp /\ pc[p] = "acqd"
  /\ Goto(p, "loop")
  /\ UNCHANGED <<hand, idle, yield, vmq, irend, nrun, nblk>>

-----------------------------------------------------------------------------
Step(p) ==
  \/ startup(p) \/ Wakeup(p) \/ release(p) \/ iyield(p) \/ Handoff(p)
  \/ Loop(p) \/ Sleep(p) \/ NoYield(p) \/ xec(p) \/ Syscall(p) \/ Return(p)

Next == \E p \in Proc : Step(p) \/ acquire(p) \/ Ready(p)

Spec == Init /\ [][Next]_vars

\* Every process keeps running: a quantum is finite, calls that hold the VM end.
\* Nothing makes a system call end, so acquire is not fair.
FairSpec == Spec /\ \A p \in Proc : WF_vars(Step(p))
-----------------------------------------------------------------------------
(* Properties.                                                             *)

Owns(p) == pc[p] \in Owner

\* At most one process is in the VM, also while it is being passed on, and none
\* when isched.idle invites the next process to take it without asking.
OneOwner ==
  /\ \A p, q \in Proc : Owns(p) /\ Owns(q) => p = q
  /\ idle = 1 => \A p \in Proc : ~ Owns(p)

InQ(p) == \E i \in 1..Len(vmq) : vmq[i] = p

\* No process is forgotten or woken twice: one that waits for the VM is in vmq or
\* is the one being woken, never both; vmq names nobody else and nobody twice; and
\* the process a hand-over rendezvous is with does reach its side of it.
NobodyForgotten ==
  /\ \A i, j \in 1..Len(vmq) : vmq[i] = vmq[j] => i = j
  /\ \A p \in Proc :
       /\ InQ(p) => pc[p] \in Parked \cup {"wake", "handyield"}
       /\ pc[p] \in Parked \cup {"wake"} => (InQ(p) <=> \A q \in Proc : hand[q] # p)
       /\ pc[p] = "handyield" => InQ(p)
  /\ \A p \in Proc :
       IF pc[p] \in {"handrel", "handyield"}
       THEN hand[p] \in Proc \ {p} /\ pc[hand[p]] \in Parked \cup {"wake"}
       ELSE hand[p] = NoProc

\* No wake-up is lost between Sleep's test of tready and Wakeup in acquire: while
\* the owner sleeps, a process that asked for the VM is still about to wake it.
\* Nor does Sleep find another sleeper in the Rendez, where it would panic.
NoLostWakeup ==
  /\ \A p \in Proc : irend = p <=> pc[p] = "asleep"
  /\ irend # NoProc /\ yield > 0 => \E p \in Proc : pc[p] = "wake"
  /\ \A p \in Proc : pc[p] = "idle" => irend = NoProc

\* A process that waits in acquire does not wait on an interpreter that keeps the
\* VM for ever: some process is let back in.
AcquireServed == \A p \in Proc : pc[p] = "parkacq" ~> \E q \in Proc : pc[q] = "acqd"

=============================================================================
