SPECIFICATION Spec
CONSTANTS
  Faults = {}
  Replies = {"tokens"}
INVARIANT
  CleanupsSafe
