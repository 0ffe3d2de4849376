-------------------------- MODULE MCSqlTransaction --------------------------
(* Model-checking instances of SqlTransaction. *)
EXTENDS SqlTransaction
=============================================================================
