SPECIFICATION AccountSpec
CONSTANTS
  AccountReqs = {r1, r2, r3}
  u1 = u1
  u2 = u2
  Users <- MCUsers
  First = u1
  Addresses <- MCAddresses
  NoAddress = NoAddress
  NoPassword = NoPassword
  InitialPassword = InitialPassword
  AccountMenu <- MCWalletMenu
  MaxLosses = 0
  w1 = w1
CHECK_DEADLOCK FALSE
INVARIANTS
  EveryRowHasLogin
