SPECIFICATION Spec
CONSTANTS
  Threads = {t1}
  Files = {f1}
  Buf = {b1, b2, b3}
  NULL = NULL
  Version = {1, 2}
  Length <- MCLength
  ErrorPage = ErrorPage
  ErrorLength = 1
  HasMd5 = {f1}
  HasSize = {f1}
  Reverts = TRUE
  CheckReplies = {"entry"}
  FetchReplies = {"whole"}
  Requests <- MCRequestsToEnd
  SizeT = 16
PROPERTY
  OpenServesCurrent
