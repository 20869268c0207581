----------------------------- MODULE MCExportFs -----------------------------
(* Slaves are interchangeable in ExportFs. *)
EXTENDS ExportFs, TLC

Symmetric == Permutations(Slave)

=============================================================================
