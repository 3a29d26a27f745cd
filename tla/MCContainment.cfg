SPECIFICATION MCSpec
CONSTANTS
  Topics = {"device", "accounts"}
  Reqs = {r1, r2, r3, r4}
  w1 = w1
  w2 = w2
  NoWallet = NoWallet
  Wallets <- MCWallets
  Menu <- MCMenu
  MaxFaults = 1
  AccountReqs = {r1, r2, r3, r4}
  u1 = u1
  u2 = u2
  Users <- MCUsers
  First = u1
  Addresses <- MCAddresses
  NoAddress = NoAddress
  NoPassword = NoPassword
  InitialPassword = InitialPassword
  AccountMenu <- AccountKinds
  MaxLosses = 1
CHECK_DEADLOCK FALSE
SYMMETRY Symmetry
INVARIANTS
  FlagsMatchStatus
  TogglesNotLost
  TrailReplays
  PasswordChangeEndsSessions
  LockedOut
  TokenRedeemedOnce
  OldTokensDead
  ChallengeOnce
PROPERTIES
  RowSpec
  RevokedForGood
  SignedWhenWritten
