\* Three of the policies the engine is built with, one of them without a check.
CONSTANTS
  Policies = {"require-resource-limits", "no-latest-tag", "kafka-min-isr"}
  Implemented = {"require-resource-limits", "no-latest-tag"}
  Evaluators = {v1}
  MaxViolations = 2
  MaxEvaluations = 1
SPECIFICATION PolicySpec
INVARIANT AllEnabledChecked
CHECK_DEADLOCK FALSE
