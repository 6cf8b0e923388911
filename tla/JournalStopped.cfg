\* The mint stops once, with requests under way.
SPECIFICATION Spec
CONSTANTS
  Payment = {o1}
  NULL = NULL
  MaxCrashes = 1
  MaxStops = 1
INVARIANT RefusedValueLive
CHECK_DEADLOCK FALSE
