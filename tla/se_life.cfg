SPECIFICATION Spec
CONSTANTS
  Faults = {"acquire", "push", "concat", "refuse"}
  Replies = {"tokens", "error", "other"}
INVARIANTS
  TypeOK
  ReleasedOnce
  NeedsHeld
  NothingLeft
