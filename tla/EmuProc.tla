------------------------------ MODULE EmuProc ------------------------------
(***************************************************************************)
(* Sleep, Wakeup and software interrupts of emu/proc.c.                    *)
(*                                                                         *)
(* One process, up, sleeps on Rendez structures and enters host system     *)
(* calls.  Wakers make the condition of a Rendez true and call Wakeup; the *)
(* owner of the VM, which there is one of, calls swiproc to interrupt up.  *)
(* rendezvous is the two-sided meeting of the host layer: both parties     *)
(* stay in it until the other one is there (LinuxRendez).                  *)
(*                                                                         *)
(* A section under a spin lock that cannot block is one step.  Wakeup and  *)
(* swiproc hold the lock of the Rendez across rendezvous, so their         *)
(* sections are two.                                                       *)
(***************************************************************************)
EXTENDS Naturals

CONSTANTS Rend,      \* Rendez structures
          Waker,     \* processes that call Wakeup
          NoRend,    \* nil
          NoProc,    \* holder of a free lock
          VM         \* the process that calls swiproc

ASSUME EmuProcAssumption ==
  NoRend \notin Rend /\ NoProc \notin Waker \cup {VM} /\ VM \notin Waker

VARIABLES up,        \* where up is
          on,        \* the Rendez up's call of Sleep is about
          r,         \* up->r
          swipend, syscall, intwait,     \* up->swipend, up->syscall, up->intwait
          ret,       \* what osleave found in swipend
          sig,       \* 1: SIGUSR1 is on its way to up
          cond,      \* cond[d]: f(arg) of the Rendez d
          rp,        \* rp[d] = 1: d->p is up, 0: nil
          rl,        \* rl[d]: holder of d->l
          wpc, won,  \* where each waker is, and its Rendez
          kpc, kr    \* where VM is in swiproc, and its local r

upvars == <<up, on, r, swipend, syscall, intwait, ret>>
rvars == <<cond, rp, rl>>
wvars == <<wpc, won>>
kvars == <<kpc, kr>>
svars == <<upvars, sig, rvars, wvars, kvars>>

(***************************************************************************)
(* up:  run; spin: Sleep waits for the lock; asleep: in rendezvous; woke;  *)
(*      enter: after osenter, the host call not reached; host: blocked in  *)
(*      it; leave: before osleave; intwait: its loop on intwait.           *)
(* wakers: idle; set: the condition is true, Wakeup waits for the lock;    *)
(*      meet: in rendezvous, holding it.                                   *)
(* VM:  idle; read: has read p->r, waits for a lock; meet: in rendezvous,  *)
(*      holding it; post: before oshostintr.                               *)
(***************************************************************************)
SleepTypeOK ==
  /\ up \in {"run", "spin", "asleep", "woke", "enter", "host", "leave", "intwait"}
  /\ on \in Rend \cup {NoRend} /\ r \in Rend \cup {NoRend} /\ kr \in Rend \cup {NoRend}
  /\ swipend \in {0, 1} /\ syscall \in {0, 1} /\ intwait \in {0, 1} /\ ret \in {0, 1}
  /\ sig \in {0, 1}
  /\ cond \in [Rend -> {0, 1}] /\ rp \in [Rend -> {0, 1}]
  /\ rl \in [Rend -> Waker \cup {VM, NoProc}]
  /\ wpc \in [Waker -> {"idle", "set", "meet"}]
  /\ won \in [Waker -> Rend \cup {NoRend}]
  /\ kpc \in {"idle", "read", "meet", "post"}

SleepInit ==
  /\ up = "run" /\ on = NoRend /\ r = NoRend
  /\ swipend = 0 /\ syscall = 0 /\ intwait = 0 /\ ret = 0 /\ sig = 0
  /\ cond = [d \in Rend |-> 0] /\ rp = [d \in Rend |-> 0] /\ rl = [d \in Rend |-> NoProc]
  /\ wpc = [w \in Waker |-> "idle"] /\ won = [w \in Waker |-> NoRend]
  /\ kpc = "idle" /\ kr = NoRend

-----------------------------------------------------------------------------
(* Mutants.                                                                *)

\* Sleep does not look at the condition under the lock.
SleepTest_blind ==
  /\ up = "spin" /\ rl[on] = NoProc
  /\ up' = "asleep" /\ swipend' = 0 /\ rp' = [rp EXCEPT ![on] = 1]
  /\ UNCHANGED <<on, r, syscall, intwait, ret, sig, cond, rl, wvars, kvars>>
\* Wakeup does not clear r->p.
Wakeup_keeps(w) ==
  LET d == won[w] IN
  /\ wpc[w] = "set" /\ rl[d] = NoProc
  /\ \/ /\ rp[d] = 1
        /\ r' = NoRend
        /\ rl' = [rl EXCEPT ![d] = w] /\ wpc' = [wpc EXCEPT ![w] = "meet"]
        /\ UNCHANGED <<won, rp>>
     \/ /\ rp[d] = 0
        /\ wpc' = [wpc EXCEPT ![w] = "idle"] /\ won' = [won EXCEPT ![w] = NoRend]
        /\ UNCHANGED <<r, rp, rl>>
  /\ UNCHANGED <<up, on, swipend, syscall, intwait, ret, sig, cond, kvars>>
\* intwait is counted up, as if every signal were delivered.
SwiSyscall_count ==
  /\ kpc = "read" /\ kr = NoRend
  /\ \/ syscall = 1 /\ intwait' = intwait + 1 /\ swipend' = 1 /\ kpc' = "post"
     \/ syscall = 0 /\ kpc' = "idle" /\ UNCHANGED <<intwait, swipend>>
  /\ UNCHANGED <<up, on, r, syscall, ret, sig, rvars, wvars, kr>>
\* swiproc posts whether a signal is on its way or not.
SwiSyscall_again ==
  /\ kpc = "read" /\ kr = NoRend
  /\ \/ syscall = 1 /\ intwait' = 1 /\ swipend' = 1 /\ kpc' = "post"
     \/ syscall = 0 /\ kpc' = "idle" /\ UNCHANGED <<intwait, swipend>>
  /\ UNCHANGED <<up, on, r, syscall, ret, sig, rvars, wvars, kr>>

-----------------------------------------------------------------------------
(* The process.                                                            *)

\* Sleep(d, f, arg): up->r = d, and then the lock is asked for.
Sleep(d) ==
  /\ up = "run"
  /\ up' = "spin" /\ on' = d /\ r' = d
  /\ UNCHANGED <<swipend, syscall, intwait, ret, sig, rvars, wvars, kvars>>

\* The part of Sleep under d->l.  (The panic is in OneWaker.)
SleepTest ==
  /\ up = "spin" /\ rl[on] = NoProc
  /\ \/ /\ cond[on] = 1
        /\ up' = "run" /\ r' = NoRend /\ on' = NoRend
        /\ UNCHANGED <<swipend, rp>>
     \/ /\ cond[on] = 0
        /\ up' = "asleep" /\ swipend' = 0 /\ rp' = [rp EXCEPT ![on] = 1]
        /\ UNCHANGED <<r, on>>
  /\ UNCHANGED <<syscall, intwait, ret, sig, cond, rl, wvars, kvars>>

\* Back from rendezvous: Sleep returns, or raises Eintr.
SleepDone ==
  /\ up = "woke"
  /\ up' = "run" /\ on' = NoRend /\ swipend' = 0
  /\ UNCHANGED <<r, syscall, intwait, ret, sig, rvars, wvars, kvars>>

\* The process uses up what a condition was about (an item, a reply).
Consume(d) ==
  /\ up = "run" /\ cond[d] = 1
  /\ cond' = [cond EXCEPT ![d] = 0]
  /\ UNCHANGED <<upvars, sig, rp, rl, wvars, kvars>>

osenter ==
  /\ up = "run"
  /\ up' = "enter" /\ syscall' = 1
  /\ UNCHANGED <<on, r, swipend, intwait, ret, sig, rvars, wvars, kvars>>

\* The host call begins, and ends by itself.
HostCall ==
  /\ \/ up = "enter" /\ up' = "host"
     \/ up = "host" /\ up' = "leave"
  /\ UNCHANGED <<on, r, swipend, syscall, intwait, ret, sig, rvars, wvars, kvars>>

\* osleave, the section under sysio; then the loop on intwait.
osleave ==
  /\ up = "leave"
  /\ ret' = swipend /\ swipend' = 0 /\ syscall' = 0
  /\ up' = "intwait"
  /\ UNCHANGED <<on, r, intwait, sig, rvars, wvars, kvars>>

osleaveDone ==
  /\ up = "intwait" /\ intwait = 0
  /\ up' = "run" /\ ret' = 0
  /\ UNCHANGED <<on, r, swipend, syscall, intwait, sig, rvars, wvars, kvars>>

\* trapUSR1: a blocked host call returns.  (disfault is NoStraySignal.)
trapUSR1 ==
  /\ sig = 1
  /\ sig' = 0 /\ intwait' = 0
  /\ up' = IF up = "host" THEN "leave" ELSE up
  /\ UNCHANGED <<on, r, swipend, syscall, ret, rvars, wvars, kvars>>

-----------------------------------------------------------------------------
(* Wakers.                                                                 *)

\* Make the condition true, and then call Wakeup.
SetCond(w, d) ==
  /\ wpc[w] = "idle"
  /\ cond' = [cond EXCEPT ![d] = 1]
  /\ wpc' = [wpc EXCEPT ![w] = "set"] /\ won' = [won EXCEPT ![w] = d]
  /\ UNCHANGED <<upvars, sig, rp, rl, kvars>>

\* Wakeup, up to its rendezvous or to its end if there is no sleeper.
Wakeup(w) ==
  LET d == won[w] IN
  /\ wpc[w] = "set" /\ rl[d] = NoProc
  /\ \/ /\ rp[d] = 1
        /\ rp' = [rp EXCEPT ![d] = 0] /\ r' = NoRend
        /\ rl' = [rl EXCEPT ![d] = w] /\ wpc' = [wpc EXCEPT ![w] = "meet"]
        /\ UNCHANGED won
     \/ /\ rp[d] = 0
        /\ wpc' = [wpc EXCEPT ![w] = "idle"] /\ won' = [won EXCEPT ![w] = NoRend]
        /\ UNCHANGED <<r, rp, rl>>
  /\ UNCHANGED <<up, on, swipend, syscall, intwait, ret, sig, cond, kvars>>

\* rendezvous(p, 0) of Wakeup with that of Sleep; then the unlock.
WakeupMeet(w) ==
  /\ wpc[w] = "meet" /\ up = "asleep"
  /\ up' = "woke" /\ rl' = [rl EXCEPT ![won[w]] = NoProc]
  /\ wpc' = [wpc EXCEPT ![w] = "idle"] /\ won' = [won EXCEPT ![w] = NoRend]
  /\ UNCHANGED <<on, r, swipend, syscall, intwait, ret, sig, cond, rp, kvars>>

-----------------------------------------------------------------------------
(* The interrupter.                                                        *)

\* swiproc(up) reads p->r.
swiproc ==
  /\ kpc = "idle"
  /\ kpc' = "read" /\ kr' = r
  /\ UNCHANGED <<upvars, sig, rvars, wvars>>

\* "Pull out of emu Sleep": under r->l, up to rendezvous, if p->r is still r.
SwiRendez ==
  /\ kpc = "read" /\ kr # NoRend /\ rl[kr] = NoProc
  /\ \/ /\ r = kr
        /\ swipend' = 1 /\ rp' = [rp EXCEPT ![kr] = 0] /\ r' = NoRend
        /\ rl' = [rl EXCEPT ![kr] = VM] /\ kpc' = "meet"
        /\ UNCHANGED kr
     \/ /\ r # kr
        /\ kpc' = "idle" /\ kr' = NoRend
        /\ UNCHANGED <<swipend, rp, r, rl>>
  /\ UNCHANGED <<up, on, syscall, intwait, ret, sig, cond, wvars>>

\* rendezvous(p, 0) of swiproc with that of Sleep; then the unlock.
SwiMeet ==
  /\ kpc = "meet" /\ up = "asleep"
  /\ up' = "woke" /\ rl' = [rl EXCEPT ![kr] = NoProc]
  /\ kpc' = "idle" /\ kr' = NoRend
  /\ UNCHANGED <<on, r, swipend, syscall, intwait, ret, sig, cond, rp, wvars>>

\* "Maybe pull out of Host OS": under p->sysio, if p->r was nil.
SwiSyscall ==
  /\ kpc = "read" /\ kr = NoRend
  /\ \/ /\ syscall = 1 /\ intwait = 0
        /\ intwait' = 1 /\ swipend' = 1 /\ kpc' = "post"
     \/ /\ syscall = 0 \/ intwait = 1
        /\ kpc' = "idle" /\ UNCHANGED <<intwait, swipend>>
  /\ UNCHANGED <<up, on, r, syscall, ret, sig, rvars, wvars, kr>>

\* kill(p->sigid, SIGUSR1), after sysio is unlocked.
oshostintr ==
  /\ kpc = "post"
  /\ kpc' = "idle" /\ sig' = 1
  /\ UNCHANGED <<upvars, rvars, wvars, kr>>

-----------------------------------------------------------------------------
Up == SleepTest \/ SleepDone \/ osleave \/ osleaveDone \/ trapUSR1
Wakers == \E w \in Waker : Wakeup(w) \/ WakeupMeet(w)
Swi == SwiRendez \/ SwiMeet \/ SwiSyscall \/ oshostintr

\* What the callers decide to do.
Callers ==
  \/ \E d \in Rend : Sleep(d) \/ Consume(d)
  \/ \E w \in Waker, d \in Rend : SetCond(w, d)
  \/ osenter \/ HostCall

SleepNext == Callers \/ Up \/ Wakers \/ Swi \/ swiproc

SleepSpec == SleepInit /\ [][SleepNext]_svars

\* Processes inside a call go on; a spin lock that is free again and again is
\* got in the end.
FairSleepSpec ==
  /\ SleepSpec
  /\ WF_svars(SleepTest) /\ WF_svars(SleepDone) /\ WF_svars(osleave) /\ WF_svars(osleaveDone)
  /\ \A w \in Waker : SF_svars(Wakeup(w)) /\ WF_svars(WakeupMeet(w))
  /\ SF_svars(SwiRendez) /\ WF_svars(SwiMeet) /\ WF_svars(SwiSyscall)
  /\ WF_svars(oshostintr) /\ WF_svars(trapUSR1)

-----------------------------------------------------------------------------
(* Properties.                                                             *)

\* A process asleep whose condition holds is about to be woken: whoever made it
\* true has Wakeup still to do, or someone is in rendezvous for it.
NoLostWakeup ==
  up = "asleep" /\ cond[on] = 1 =>
    \/ \E w \in Waker : wpc[w] \in {"set", "meet"} /\ won[w] = on
    \/ kpc = "meet"

\* One caller wakes one Sleep: a Rendez names up only while up is asleep on it and
\* nobody has begun to wake it (so Sleep never finds another sleeper, its panic), and
\* a Wakeup in rendezvous is alone with the sleeper of its own Rendez.
OneWaker ==
  /\ \A d \in Rend : rp[d] = 1 =>
       /\ up = "asleep" /\ on = d /\ r = d
       /\ kpc # "meet" /\ \A w \in Waker : wpc[w] # "meet"
  /\ \A w \in Waker : wpc[w] = "meet" =>
       /\ up = "asleep" /\ on = won[w] /\ kpc # "meet"
       /\ \A v \in Waker : wpc[v] = "meet" => v = w

\* SIGUSR1 finds up inside osenter .. osleave with intwait set ("Not posted so its a
\* sync error ... Should never happen"), and no interrupt is left for a later call.
NoStraySignal ==
  /\ sig = 1 \/ kpc = "post" => intwait = 1
  /\ ~ (sig = 1 /\ kpc = "post")
  /\ up = "run" => intwait = 0 /\ syscall = 0 /\ swipend = 0

\* A process asleep whose condition has become true wakes up, whatever swiproc does
\* meanwhile (Sleep, Wakeup).
Woken == \A d \in Rend : up = "asleep" /\ on = d /\ cond[d] = 1 ~> up # "asleep"

\* swiproc pulls the process out of Sleep, and returns.
PulledOut == kpc = "meet" ~> kpc = "idle"

=============================================================================
