-------------------------- MODULE MCSqlResultQueue --------------------------
(* Model-checking instances of SqlResultQueue. *)
EXTENDS SqlResultQueueInv
=============================================================================
