SPECIFICATION Spec
CONSTANTS
  Requests <- MCRequests
  Request <- MCRequest
  Uuid <- MCUuid
  Seed = {"s1", "s2", "s3"}
  Scenarios <- MCScenarios
  NoPost = NoPost
  Unparsed = Unparsed
  Limit = 2
  StartTime = 1
  MaxTime = 2
INVARIANTS
  CopiesAgree
  CountsRight
  
  RepliesPushed
  FeedSynced
  WalkComplete
CHECK_DEADLOCK FALSE
