\* Three first payments of a merchant at once.
CONSTANTS
  c1 = c1
  c2 = c2
  c3 = c3
  Unset = Unset
  Caller = {c1, c2, c3}
  Size = 4
  MaxAborts = 1
SPECIFICATION ChartSpec
CHECK_DEADLOCK FALSE
INVARIANTS
  OneChart
  RefusedOnce
PROPERTIES
  EventuallyServed
