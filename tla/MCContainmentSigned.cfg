SPECIFICATION MCSpec
CONSTANTS
  Topics = {"device"}
  Reqs = {r1, r2, r3}
  w1 = w1
  w2 = w2
  NoWallet = NoWallet
  Wallets <- MCWallets
  Menu <- MCReinstallMenu
  MaxFaults = 0
  AccountReqs = {r1}
  u1 = u1
  u2 = u2
  Users <- MCUsers
  First = u1
  Addresses <- MCAddresses
  NoAddress = NoAddress
  NoPassword = NoPassword
  InitialPassword = InitialPassword
  AccountMenu = {}
  MaxLosses = 0
CHECK_DEADLOCK FALSE
PROPERTIES
  StatusChangesSigned
