SPECIFICATION FairSpec
CONSTANTS
  Threads = {t1, t2}
  Files = {f1}
  Buf = {b1, b2, b3, b4}
  NULL = NULL
  Version = {1, 2}
  Length <- MCLength
  ErrorPage = ErrorPage
  ErrorLength = 1
  HasMd5 = {f1}
  HasSize = {f1}
  Reverts = FALSE
  CheckReplies = {"entry", "error", "none"}
  FetchReplies = {"whole"}
  Requests <- MCNoRequests
  SizeT = 16
PROPERTIES
  OpensReturn
  Converges
