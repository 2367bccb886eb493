\* The charge of a payment is reversed.
CONSTANTS
  s1 = s1
  s2 = s2
  p1 = p1
  p2 = p2
  None = None
  Session = {s1, s2}
  Account = {1, 2, 3, 4}
  TxnId = {1, 2, 3, 4, 5, 6, 7, 8}
  DebitNormal = {1}
  AllowNegative = {1, 2, 3, 4}
  CurrencyOf <- MCCurrencyOf
  Request = {}
  ExternalRef = {p1}
  Role = {"charge", "authorization", "capture", "refund"}
  CaptureAmount = {3}
  Ops = {"charge", "reverse"}
  MaxOps = 2
  MaxInt64 = 31
  BpsScale = 4
  Clearing = 1
  Payable = 2
  FeeRevenue = 3
  Holds = 4
  Schedule <- MCSchedule
  RefundPercentage = TRUE
  ChargeAmount = {4}
  RefundAmount = {1, 3}
  Serial = TRUE
SPECIFICATION PaymentSpec
CHECK_DEADLOCK FALSE
INVARIANTS
  BooksAgree
