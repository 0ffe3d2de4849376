---------------------------- MODULE MCThreadPool ----------------------------
(* Model-checking instances of ThreadPool. *)
EXTENDS ThreadPoolInv
=============================================================================
