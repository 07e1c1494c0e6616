------------------------- MODULE MCMutableConfigMap -------------------------
(* MutableConfigMap for model checking: its constants get their values in the
   configuration. *)
EXTENDS MutableConfigMap
=============================================================================
