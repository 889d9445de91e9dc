SPECIFICATION Spec
CONSTANTS
  Threads = {t1}
  Files = {f1, f2}
  Buf = {b1, b2, b3, b4}
  NULL = NULL
  Version = {1, 2}
  Length <- MCWithEmpty
  ErrorPage = ErrorPage
  ErrorLength = 1
  HasMd5 = {f1}
  HasSize = {f1}
  Reverts = TRUE
  CheckReplies = {"entry", "error", "none"}
  FetchReplies = {"whole", "cut", "error"}
  Requests <- MCRequestsAndNone
  SizeT = 16
SYMMETRY Symmetric
INVARIANTS
  TypeOK
  CacheCoherent
  ReadInBounds
  Ownership
PROPERTIES
  LeaksExplained
  ImplementsCloseToOpen
