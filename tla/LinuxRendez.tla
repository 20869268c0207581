---------------------------- MODULE LinuxRendez ----------------------------
(***************************************************************************)
(* rendezvous of emu/os-Linux.c, on which every lock and every Sleep of    *)
(* the emulator rests: the first to name a tag sets up a Tag structure and *)
(* waits on its semaphore, the second takes the tag off and posts it.      *)
(*                                                                         *)
(* The second posts after it has unlocked hlock.  By then the first may    *)
(* have seen the tag gone, returned, and given its Tag to someone else,    *)
(* whose semaphore the post then raises.                                   *)
(*                                                                         *)
(* A section under hlock is one step.  The hash chains are one set: a tag  *)
(* is in one chain, and is in it once.                                     *)
(***************************************************************************)
EXTENDS Naturals, Sequences

CONSTANTS Proc, Key, Val, None,
          NTag       \* bound: Tag structures; one a process is enough

ASSUME RendezAssumption == None \notin Key \cup Val \cup Proc /\ NTag \in Nat

Tag == 1..NTag

VARIABLES pc,        \* where each process is
          t, rval,   \* its local t and the result it is to return
          tag, tval, sem,    \* Tag.tag (None: 0), Tag.val, the semaphore's value
          ht,        \* the Tag structures in the hash table
          ft,        \* free list
          ntag       \* Tag structures made so far

vars == <<pc, t, rval, tag, tval, sem, ht, ft, ntag>>

(***************************************************************************)
(* out; post: matched, before semop(+1); loop: before the test of t->tag;  *)
(* semop: in semop(-1); relock: the tag is gone, before lock(&hlock).      *)
(***************************************************************************)
TypeOK ==
  /\ pc \in [Proc -> {"out", "post", "loop", "semop", "relock"}]
  /\ t \in [Proc -> Tag \cup {None}] /\ rval \in [Proc -> Val \cup {None}]
  /\ tag \in [Tag -> Key \cup {None}] /\ tval \in [Tag -> Val \cup {None}]
  /\ sem \in [Tag -> Nat]
  /\ ht \in SUBSET Tag /\ ft \in Seq(Tag) /\ ntag \in 0..NTag

Init ==
  /\ pc = [p \in Proc |-> "out"]
  /\ t = [p \in Proc |-> None] /\ rval = [p \in Proc |-> None]
  /\ tag = [x \in Tag |-> None] /\ tval = [x \in Tag |-> None] /\ sem = [x \in Tag |-> 0]
  /\ ht = {} /\ ft = <<>> /\ ntag = 0

-----------------------------------------------------------------------------
(* Mutants.                                                                *)

\* semop(-1) does not block.
Semop_nowait(p) ==
  /\ pc[p] = "semop"
  /\ sem' = [sem EXCEPT ![t[p]] = @ - 1]
  /\ pc' = [pc EXCEPT ![p] = "loop"]
  /\ UNCHANGED <<t, rval, tag, tval, ht, ft, ntag>>
\* semop's result is believed: the tag is not looked at again.
Semop_trusts(p) ==
  /\ pc[p] = "semop" /\ sem[t[p]] > 0
  /\ sem' = [sem EXCEPT ![t[p]] = @ - 1]
  /\ pc' = [pc EXCEPT ![p] = "relock"]
  /\ UNCHANGED <<t, rval, tag, tval, ht, ft, ntag>>
\* The Tag is given back, and stays in its chain.
Return_linked(p) ==
  /\ pc[p] = "relock"
  /\ ft' = <<t[p]>> \o ft
  /\ pc' = [pc EXCEPT ![p] = "out"]
  /\ t' = [t EXCEPT ![p] = None] /\ rval' = [rval EXCEPT ![p] = None]
  /\ UNCHANGED <<tag, tval, sem, ht, ntag>>
\* The result of semop(+1), which is not looked at, is a failure.
Post_lost(p) ==
  /\ pc[p] = "post"
  /\ pc' = [pc EXCEPT ![p] = "out"]
  /\ t' = [t EXCEPT ![p] = None] /\ rval' = [rval EXCEPT ![p] = None]
  /\ UNCHANGED <<tag, tval, sem, ht, ft, ntag>>

-----------------------------------------------------------------------------
\* The tag is found: exchange values, take the tag off.
Match(p, k, v, x) ==
  /\ x \in ht /\ tag[x] = k
  /\ tag' = [tag EXCEPT ![x] = None] /\ tval' = [tval EXCEPT ![x] = v]
  /\ rval' = [rval EXCEPT ![p] = tval[x]]
  /\ t' = [t EXCEPT ![p] = x] /\ pc' = [pc EXCEPT ![p] = "post"]
  /\ UNCHANGED <<sem, ht, ft, ntag>>

\* It is not: set up a Tag, from the free list or a new one, and wait.
Setup(p, k, v, x) ==
  /\ \A y \in ht : tag[y] # k
  /\ \/ ft # <<>> /\ x = Head(ft) /\ ft' = Tail(ft) /\ UNCHANGED ntag
     \/ ft = <<>> /\ ntag < NTag /\ x = ntag + 1 /\ ntag' = ntag + 1 /\ UNCHANGED ft
  /\ tag' = [tag EXCEPT ![x] = k] /\ tval' = [tval EXCEPT ![x] = v]
  /\ sem' = [sem EXCEPT ![x] = 0]
  /\ ht' = ht \cup {x}
  /\ t' = [t EXCEPT ![p] = x] /\ pc' = [pc EXCEPT ![p] = "loop"]
  /\ UNCHANGED rval

rendezvous(p, k, v) ==
  /\ pc[p] = "out"
  /\ \E x \in Tag : Match(p, k, v, x) \/ Setup(p, k, v, x)

\* semop(t->semid, +1), and return.
Post(p) ==
  /\ pc[p] = "post"
  /\ sem' = [sem EXCEPT ![t[p]] = @ + 1]
  /\ pc' = [pc EXCEPT ![p] = "out"]
  /\ t' = [t EXCEPT ![p] = None] /\ rval' = [rval EXCEPT ![p] = None]
  /\ UNCHANGED <<tag, tval, ht, ft, ntag>>

\* while(t->tag)
Loop(p) ==
  /\ pc[p] = "loop"
  /\ pc' = [pc EXCEPT ![p] = IF tag[t[p]] = None THEN "relock" ELSE "semop"]
  /\ UNCHANGED <<t, rval, tag, tval, sem, ht, ft, ntag>>

\* semop(t->semid, -1) succeeds, or a signal interrupts it.
Semop(p) ==
  /\ pc[p] = "semop" /\ sem[t[p]] > 0
  /\ sem' = [sem EXCEPT ![t[p]] = @ - 1]
  /\ pc' = [pc EXCEPT ![p] = "loop"]
  /\ UNCHANGED <<t, rval, tag, tval, ht, ft, ntag>>

Eintr(p) ==
  /\ pc[p] = "semop"
  /\ pc' = [pc EXCEPT ![p] = "loop"]
  /\ UNCHANGED <<t, rval, tag, tval, sem, ht, ft, ntag>>

\* Read the value, unlink the Tag, put it on the free list, and return.  What a free
\* Tag holds is overwritten in Setup before anyone reads it; here it is cleared at
\* once, so that states that differ in nothing else are one.
Return(p) ==
  /\ pc[p] = "relock"
  /\ ht' = ht \ {t[p]} /\ ft' = <<t[p]>> \o ft
  /\ tval' = [tval EXCEPT ![t[p]] = None] /\ sem' = [sem EXCEPT ![t[p]] = 0]
  /\ pc' = [pc EXCEPT ![p] = "out"]
  /\ t' = [t EXCEPT ![p] = None] /\ rval' = [rval EXCEPT ![p] = None]
  /\ UNCHANGED <<tag, ntag>>

Inside(p) == Post(p) \/ Loop(p) \/ Semop(p) \/ Return(p)

Next ==
  \E p \in Proc :
    \/ Inside(p) \/ Eintr(p)
    \/ \E k \in Key, v \in Val : rendezvous(p, k, v)

Spec == Init /\ [][Next]_vars

\* A process that can go on does; nobody has to call, and no signal has to come.
FairSpec == Spec /\ \A p \in Proc : WF_vars(Inside(p))

-----------------------------------------------------------------------------
(* Properties.                                                             *)

Waiting(p) == pc[p] \in {"loop", "semop", "relock"}

\* A Tag has one waiter, is in the table exactly while it has one, and is otherwise
\* free, once: nobody is handed a Tag that another still waits on, none is lost, and
\* so one a process is enough.
TagsOwned ==
  /\ 1..ntag = ht \cup {ft[i] : i \in 1..Len(ft)}
  /\ \A p, q \in Proc : Waiting(p) /\ Waiting(q) /\ t[p] = t[q] => p = q
  /\ ht = {t[p] : p \in {q \in Proc : Waiting(q)}}
  /\ \A i, j \in 1..Len(ft) : ft[i] = ft[j] => i = j
  /\ \A i \in 1..Len(ft) : ft[i] \notin ht
  /\ \A x, y \in ht : tag[x] = tag[y] /\ tag[x] # None => x = y

\* A waiter that is asleep though its tag is gone has a post, or one on its way: the
\* posts that come late for others never make up for its own.
PostComes ==
  \A p \in Proc : pc[p] = "semop" /\ tag[t[p]] = None =>
    sem[t[p]] > 0 \/ \E q \in Proc : pc[q] = "post" /\ t[q] = t[p]

\* A process is back once it has been met, though no signal wakes it.
MetReturns == \A p \in Proc : (Waiting(p) /\ tag[t[p]] = None) ~> pc[p] = "out"

\* The host layer keeps the promise: in every step processes arrive, meet,
\* exchange values and return as RendezAbs says.
Meeting(p) == Waiting(p) /\ tag[t[p]] # None
Abs == INSTANCE RendezAbs WITH
  key <- [p \in Proc |-> IF Meeting(p) THEN tag[t[p]] ELSE None],
  val <- [p \in Proc |-> IF Waiting(p) THEN tval[t[p]] ELSE rval[p]]
ImplementsRendez == Abs!Spec

=============================================================================
