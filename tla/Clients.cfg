\* The clients side by side.
SPECIFICATION Spec
CONSTANTS
  NULL = NULL
  w1 = w1
  Payment = {o1}
  MaxCrashes = 2
  MaxStops = 2
  Server = {"mint", "gui", "console"}
  Requests <- Variants
  Pipeline = 2
  MaxEmpty = 2
  TooLong = 2
INVARIANTS
  PaymentsSound
  ReportHonest
  InStep
PROPERTIES
  JournalHonest
  PlansSettled
CHECK_DEADLOCK FALSE
