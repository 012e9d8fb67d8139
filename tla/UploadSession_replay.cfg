SPECIFICATION Spec
CONSTANTS
  K = 2
  MaxRequests = 7
  None = None
  Overlap = TRUE
  Crash = FALSE
  StartsOffline = FALSE
PROPERTY CompleteIsReplayable
CHECK_DEADLOCK FALSE
