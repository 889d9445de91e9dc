SPECIFICATION Spec
CONSTANTS
  Threads = {t1, t2}
  Files = {f1}
  Buf = {b1, b2, b3, b4}
  NULL = NULL
  Version = {1, 2}
  Length <- MCWithEmpty
  ErrorPage = ErrorPage
  ErrorLength = 1
  HasMd5 = {f1}
  HasSize = {f1}
  Reverts = TRUE
  CheckReplies = {"entry", "error", "none"}
  FetchReplies = {"whole", "cut", "error"}
  Requests <- MCOneRequest
  SizeT = 16
VIEW MemoryView
SYMMETRY SymmetricThreads
INVARIANTS
  NoDangling
  Ownership
