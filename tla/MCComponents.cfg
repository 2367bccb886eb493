\* Six-bit integers, quarters instead of basis points.
CONSTANTS
  MaxInt64 = 31
  BpsScale = 4
  MaxRatio = 3
  MaxAmount = 13
  MaxFixed = 2
\* The journal, its readers and the reconciler.
  Account = {1, 2}
  DebitNormal <- MCDebitNormal
  AllowNegative <- MCAllowNegative
  CurrencyOf <- MCCurrencyOf
  MaxEntries = 7
  Limit = {1, 2}
  MaxDrifts = 2
\* Binary identifiers of two bits of time, one of padding and two of counter.
  Base = 2
  TimeChars = 3
  RandChars = 2
  TimeSize = 4
  MaxIds = 6
\* Two requests in a minute of three ticks.
  ApiKey = {1, 2}
  PerMin = 2
  Minute = 3
  Idle = 3
  MaxWindow = 6
  NoBucket = NoBucket
\* Two rotations; the tolerance is as tight as the assumption allows.
  Secret = {1, 2, 3}
  First = 1
  Second = 2
  Tolerance = 4
  Skew = 1
  Transit = 2
  MaxLost = 1
\* Tokens 2 and 3 have the same clear part.
  Caller = {1, 2}
  Token = {2, 3, 4}
  LookupOf <- MCLookupOf
  RoleOf <- MCRoleOf
  NoKey = NoKey
SPECIFICATION Spec
CHECK_DEADLOCK FALSE
INVARIANTS
  ArithmeticExact
  AllocateExact
  FeeTelescopes
  StatementIsSnapshot
  BalanceInStatement
  NoFalseAlarm
  NoMissedDrift
  WindowBounded
  RefusedOnlyOverRate
  OneAttemptPerRotation
  ServedOnlyLive
  UnknownOnlyIfRevoked
PROPERTIES
  IdsIncrease
  RejectedOnlyIfOvertaken
  EventuallyAccepted
