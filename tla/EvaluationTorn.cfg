\* One frame, one class, one build, with four edits between its reads.
SPECIFICATION EvaluationSpec
CONSTANTS
  Pool = {1}
  Classes = {c1}
  MaxBoxes = 1
  Jobs = {j1}
  MaxRuns = 1
  MaxEdits = 4
INVARIANT NegativesAreVouched
CHECK_DEADLOCK FALSE
