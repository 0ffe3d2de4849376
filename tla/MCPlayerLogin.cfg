CONSTANTS
  a1 = a1
  c1 = c1
  none = none
  Accounts <- MCAccounts
  Chars <- MCChars
  AccountOf <- MCAccountOf
  NoChar <- none
  MaxSessions = 3
  MaxRequests = 2
  MaxVer = 1
SPECIFICATION Spec
INVARIANTS  Registered OneOwner WaitsForItsAnswer HeadlessGivesWay 
PROPERTIES  EveryLoginAnswered
CHECK_DEADLOCK FALSE
