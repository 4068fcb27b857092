--------------------------- MODULE MCFlowPipeline ---------------------------
(* FlowPipeline on small instances; the .cfg files say which. *)
EXTENDS FlowPipeline
=============================================================================
