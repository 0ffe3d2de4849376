----------------------------- MODULE MCDatabase -----------------------------
(* Model-checking instances of Database. *)
EXTENDS DatabaseInv
=============================================================================
