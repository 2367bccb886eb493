\* A commit fails.
CONSTANTS
  c1 = c1
  c2 = c2
  None = None
  Client = {c1, c2}
  Fingerprint = {"same", "other"}
  RecordId = {1, 2, 3, 4}
  LeaseDuration = 3
  TTL = 5
  HandlerTimeout = 1
  FinishTimeout = 1
  Faults = {"commit"}
  MaxFaults = 1
SPECIFICATION Spec
CHECK_DEADLOCK FALSE
INVARIANTS
  ServerErrorUnlocks
