----------------------------- MODULE MCMountDrv -----------------------------
(* Processes are interchangeable in MountDrv. *)
EXTENDS MountDrv, TLC

Symmetric == Permutations(Proc)

=============================================================================
