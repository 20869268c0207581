----------------------------- MODULE MCDisChan -----------------------------
(* Instances of DisChan for TLC: three threads (a waiting pair and a third *)
(* that sends, kills or frees between them) and two channels (an alt with  *)
(* an entry to withdraw).                                                  *)
EXTENDS DisChan, TLC

Sym == Permutations(Prog) \cup Permutations(QChan) \cup Permutations(Chan \ QChan)
=============================================================================
