CONSTANTS
  Keys = {cumulative, challenge}
  Calls = {c1, c2, c3}
  Values <- MCValues
  NoValue = NoValue
  Results <- MCResults
  NoResult = NoResult
  Fns <- MCFns
  SeedKeys = {cumulative}
  MaxRetries = 2
SPECIFICATION Spec
INVARIANTS VersionPinsValue AnswerIsEffect
PROPERTY LinearizableUnlessReseeded
SYMMETRY Symmetry
CHECK_DEADLOCK FALSE
