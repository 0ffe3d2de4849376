--------------------------- MODULE MCAuctionMail ---------------------------
(* Three characters, two of one account, and an item of the third.         *)
EXTENDS AuctionMail

CONSTANTS c1, c2, c3, i1, k1, k2, k3

MCAccount == (c1 :> 1) @@ (c2 :> 1) @@ (c3 :> 2)
MCHolder  == (i1 :> c3)
MCOffers   == {<<100, 0>>, <<100, 110>>}
MCContents == {<<50, 0>>, <<0, 50>>}

\* Letters are all alike, and so are the two characters of one account.
MCSymmetry == Permutations(Ids) \cup Permutations({c1, c2})
====
