SPECIFICATION Spec
CONSTANTS
  Handles <- MCHandles
  Tweets = {1, 2, 3, 4}
  Author <- MCAuthor
  Broken = {"suspended"}
  Malformed = {2}
  PageSize = 2
  MaxAttempts = 2
PROPERTY ReachableIsStored
