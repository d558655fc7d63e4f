SPECIFICATION CallSpec
CONSTANTS
  ProfileIds = {p1, p2}
  KeyIds = {k1, k2}
  Entropies = {e1, e2}
  InvalidMnemonic = badMnemonic
  ValidPasswords = {pwA, pwB}
  InvalidPassword = badPassword
  RawKeys = {zero, r1}
  ZeroKey = zero
  MaxAccountIndex = 0
  AccountIndexes = {0, 1}
  MaxProfiles = 2
  MaxKeys = 1
  MaxDraws = 3
  MaxPendings = 1
SYMMETRY MCSymmetry
INVARIANTS
  EveryStoreDecodes
  EveryProfileOpens
  NoDuplicateProfiles
PROPERTIES
  ImplementsLedger
