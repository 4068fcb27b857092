------------------------------ MODULE MCAutoSave ------------------------------
(* AutoSave on small instances; the .cfg files say which. *)
EXTENDS AutoSave
=============================================================================
