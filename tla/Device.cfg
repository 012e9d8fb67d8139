\* What runs behind every page: the queue of operations, the resumable uploads
\* and the session.  An upload ends, and requests are bounded: deadlock is not
\* an error.
SPECIFICATION AllSpec
CONSTANTS
  N = 2
  DependsOn <- MCDependsOn
  Tab = {t1}
  ReplyCuts = TRUE
  User = {u1, u2}
  Admin = {u1}
  None = None
  StrictMode = TRUE
  SerialK = 3
  SerialRequests = 10
  FaultyK = 2
  FaultyRequests = 6
INVARIANTS NothingLost CreateFirst UploadsSurvive SessionIsWhole
PROPERTIES FailedStaysFailed Drains CompleteIsReplayable UploadsKeepPromise PatienceEnds
CHECK_DEADLOCK FALSE
