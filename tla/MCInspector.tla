------------------------------ MODULE MCInspector ------------------------------
(* Inspector on a small instance, Inspector.cfg. *)
EXTENDS Inspector

\* What the operator, the server and the network do of their own accord, together.
MaxDoings == 3
FewDoings == acts + changes + loads + drops <= MaxDoings
=============================================================================
