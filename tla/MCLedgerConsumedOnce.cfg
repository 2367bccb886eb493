\* Captures and voids of one authorization race.
CONSTANTS
  s1 = s1
  s2 = s2
  None = None
  Session = {s1, s2}
  Account = {1, 2, 3}
  TxnId = {1, 2, 3, 4, 5, 6}
  DebitNormal <- MCDebitNormal
  AllowNegative <- MCAllAccounts
  CurrencyOf <- MCCurrencyOf
  Request <- MCHold
  ExternalRef = {}
  Role = {}
  CaptureAmount = {1}
  Ops = {"post", "void", "capture"}
  MaxOps = 3
  MaxInt64 = 3
SPECIFICATION Spec
CHECK_DEADLOCK FALSE
INVARIANTS
  ConsumedOnce
