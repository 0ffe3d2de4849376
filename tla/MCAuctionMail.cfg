CONSTANTS
  c1 = c1
  c2 = c2
  c3 = c3
  i1 = i1
  k1 = k1
  k2 = k2
  k3 = k3
  None = None
  Chars = {c1, c2, c3}
  Items = {i1}
  Account <- MCAccount
  Holder <- MCHolder
  Coins = 150
  Prices = {100, 110}
  Offers <- MCOffers
  Contents <- MCContents
  Deposit = 2
  CutPercent = 5
  Postage = 30
  MaxMoney = 200
  Ids = {k1, k2, k3}
  MaxSales = 1
  MaxSent = 1
SPECIFICATION Spec
INVARIANTS TypeOK   AItemsMatch  
PROPERTIES AbsentLoseNothing
SYMMETRY MCSymmetry
