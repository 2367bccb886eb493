\* Two sessions, four operations of any kind; int64 is -4 .. 3.
CONSTANTS
  s1 = s1
  s2 = s2
  None = None
  Session = {s1, s2}
  Account = {1, 2, 3, 4}
  TxnId = {1, 2, 3, 4, 5, 6, 7, 8}
  DebitNormal <- MCDebitNormal
  AllowNegative <- MCAllowNegative
  CurrencyOf <- MCCurrencyOf
  Request <- MCRequest
  ExternalRef = {}
  Role = {}
  CaptureAmount = {1}
  Ops = {"post", "void", "capture", "reverse"}
  MaxOps = 4
  MaxInt64 = 3
SPECIFICATION LiveSpec
CHECK_DEADLOCK FALSE
INVARIANTS
  TypeOK
  NonNegative
  MaterializedIsDerived
  Replay
  TrialBalance
  VersionNeverConflicts
  ReversedOnce
PROPERTIES
  ImplementsJournal
  Terminates
