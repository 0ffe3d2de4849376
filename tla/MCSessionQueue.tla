-------------------------- MODULE MCSessionQueue --------------------------
(* Instances of SessionQueue: three accounts, two of one region, one of    *)
(* them at the address of the third, which is of the other region.         *)
EXTENDS SessionQueueInv, TLC

CONSTANTS a1, a2, a3

MCRegion       == (a1 :> 0) @@ (a2 :> 0) @@ (a3 :> 1)
MCAddress      == (a1 :> 1) @@ (a2 :> 2) @@ (a3 :> 1)
MCBasePriority == (a1 :> 1) @@ (a2 :> 2) @@ (a3 :> 0)
MCPercentage   == [r \in Regions |-> 100]
====
