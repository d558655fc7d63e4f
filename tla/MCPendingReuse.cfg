SPECIFICATION CoreSpec
CONSTANTS
  ProfileIds = {p1, p2}
  KeyIds = {}
  Entropies = {e1}
  InvalidMnemonic = badMnemonic
  ValidPasswords = {pwA}
  InvalidPassword = badPassword
  RawKeys = {zero}
  ZeroKey = zero
  MaxAccountIndex = 0
  AccountIndexes = {0}
  MaxProfiles = 2
  MaxKeys = 1
  MaxDraws = 3
  MaxPendings = 1
PROPERTY
  PendingIsSingleUse
CHECK_DEADLOCK FALSE
