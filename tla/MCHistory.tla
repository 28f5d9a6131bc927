------------------------------ MODULE MCHistory ------------------------------
(* The small values of MCWorkspace for the workbench with its edit history. *)
EXTENDS MCWorkspace, EditHistory
=============================================================================
