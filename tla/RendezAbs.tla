----------------------------- MODULE RendezAbs -----------------------------
(***************************************************************************)
(* What rendezvous(tag, value) promises the rest of the emulator: two      *)
(* processes that name the same tag meet, exchange their values, and only  *)
(* then return.                                                            *)
(***************************************************************************)
CONSTANTS Proc, Key, Val, None

VARIABLES key,     \* the tag a process waits on, or None
          val      \* what the process gave, and once it has met what it gets

vars == <<key, val>>

Init == key = [p \in Proc |-> None] /\ val = [p \in Proc |-> None]

\* Nobody waits on k: p waits.
Arrive(p, k, v) ==
  /\ val[p] = None /\ \A q \in Proc : key[q] # k
  /\ key' = [key EXCEPT ![p] = k] /\ val' = [val EXCEPT ![p] = v]

\* q waits on k: p and q meet.
Meet(p, q, k, v) ==
  /\ val[p] = None /\ key[q] = k
  /\ key' = [key EXCEPT ![q] = None]
  /\ val' = [val EXCEPT ![p] = val[q], ![q] = v]

\* A process that has met returns.
Leave(p) ==
  /\ key[p] = None /\ val[p] # None
  /\ val' = [val EXCEPT ![p] = None] /\ UNCHANGED key

Next ==
  \E p \in Proc :
    \/ Leave(p)
    \/ \E k \in Key, v \in Val : Arrive(p, k, v) \/ \E q \in Proc : Meet(p, q, k, v)

Spec == Init /\ [][Next]_vars

=============================================================================
