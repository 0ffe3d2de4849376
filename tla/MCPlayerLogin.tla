--------------------------- MODULE MCPlayerLogin ---------------------------
(***************************************************************************)
(* PlayerLogin with one account and its characters.                        *)
(***************************************************************************)
EXTENDS PlayerLogin

CONSTANTS a1, c1, none

MCAccounts  == {a1}
MCChars     == {c1}
MCAccountOf == [c \in MCChars |-> a1]

=============================================================================
