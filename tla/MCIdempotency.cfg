\* Two clients of one key; every fault, twice.
CONSTANTS
  c1 = c1
  c2 = c2
  None = None
  Client = {c1, c2}
  Fingerprint = {"same", "other"}
  RecordId = {1, 2, 3, 4}
  LeaseDuration = 3
  TTL = 5
  HandlerTimeout = 1
  FinishTimeout = 1
  Faults = {"handler", "crash", "commit", "ack", "finish"}
  MaxFaults = 2
SPECIFICATION LiveSpec
CHECK_DEADLOCK FALSE
INVARIANTS
  ExactlyOnce
  Replayable
  ReplayMatchesRequest
PROPERTIES
  EventuallyAnswered
