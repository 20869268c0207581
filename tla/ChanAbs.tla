------------------------------ MODULE ChanAbs ------------------------------
(***************************************************************************)
(* What Limbo channels promise, without run queues, wait lists, alt marks  *)
(* or kernel processes.  A waiting thread offers a set of sends and        *)
(* receives; a meeting takes exactly one offer of the waiting side and     *)
(* withdraws all its others; nobody ever waits while a partner waits; a    *)
(* queued message is delivered once, in order; the death of a channel      *)
(* ends the wait of exactly those that offered on it.                      *)
(***************************************************************************)
EXTENDS Naturals, Sequences

CONSTANTS Prog, Chan

VARIABLES offer,  \* what each thread waits for
          buf,    \* messages queued on each channel
          moved   \* the message the last step moved, with its receiver

vars == <<offer, buf, moved>>

NoMsg == <<>>
\* No message moves.
Still == moved' = NoMsg
Waiting(d, c) == {p \in Prog : <<d, c>> \in offer[p]}
Clear(f, P, v) == [p \in Prog |-> IF p \in P THEN v ELSE f[p]]

Init ==
  /\ offer = [p \in Prog |-> {}]
  /\ buf = [c \in Chan |-> <<>>]
  /\ moved = NoMsg

\* p starts to wait: none of its offers can be met at once, nor by itself.
Post(p) ==
  LET O == offer'[p] IN
  /\ Still
  /\ offer[p] = {} /\ O # {}
  /\ \A c \in Chan :
       /\ <<"send", c>> \in O => Waiting("recv", c) = {} /\ <<"recv", c>> \notin O
       /\ <<"recv", c>> \in O => Waiting("send", c) = {} /\ buf[c] = <<>>
  /\ \A q \in Prog \ {p} : offer'[q] = offer[q]
  /\ UNCHANGED buf

\* s sends to r on c; one of them waited, the other comes to meet it.
Meet(s, r, c) ==
  /\ s # r
  /\ moved' = <<s, c, r>>
  /\ \/ <<"send", c>> \in offer[s] /\ offer[r] = {}
     \/ <<"recv", c>> \in offer[r] /\ offer[s] = {}
  /\ offer' = Clear(offer, {s, r}, {})
  /\ UNCHANGED buf

Enqueue(p, c) ==
  /\ Still
  /\ buf' = [buf EXCEPT ![c] = Append(@, <<p, c>>)]
  /\ Waiting("recv", c) = {}
  /\ UNCHANGED offer

Dequeue(p, c) ==
  /\ buf[c] # <<>> /\ moved' = Append(Head(buf[c]), p)
  /\ buf' = [buf EXCEPT ![c] = Tail(@)]
  /\ offer[p] = {} /\ Waiting("send", c) = {}
  /\ UNCHANGED offer

\* A killed or interrupted thread stops waiting.
Withdraw(p) ==
  /\ Still
  /\ offer[p] # {}
  /\ offer' = [offer EXCEPT ![p] = {}]
  /\ UNCHANGED buf

\* A channel dies: those and only those that offered on it stop waiting.
Close(c) ==
  /\ Still
  /\ buf' = [buf EXCEPT ![c] = <<>>]
  /\ offer' = Clear(offer, Waiting("send", c) \cup Waiting("recv", c), {})

\* Everything else the threads do.
Else == Still /\ UNCHANGED <<offer, buf>>

Next ==
  \/ Else
  \/ \E p \in Prog : Withdraw(p) \/ Post(p)
  \/ \E s, r \in Prog, c \in Chan : Meet(s, r, c)
  \/ \E p \in Prog, c \in Chan : Enqueue(p, c) \/ Dequeue(p, c)
  \/ \E c \in Chan : Close(c)

Spec == Init /\ [][Next]_vars

=============================================================================
