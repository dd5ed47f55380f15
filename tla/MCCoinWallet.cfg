SPECIFICATION WalletSpec
CONSTANTS
  u1 = u1
  User = {u1, u2}
  Job = {j1, j2}
  OpKey = {k1}
  OwnerOf <- MCOwnerOf
  Prices = {0, 1, 2}
  Amounts = {3}
  MaxManual = 3
INVARIANTS
  WalletTypeOK
  LedgerExplainsAvailable
  ReservedIsExact
  CoinsConserved
