------------------------------ MODULE MCDesktop ------------------------------
(* Desktop, and AutoSave within it, on a small instance. *)
EXTENDS Desktop
=============================================================================
