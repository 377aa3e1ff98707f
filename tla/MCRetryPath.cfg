SPECIFICATION Spec
CONSTANTS
    RetryCount = 2
    MaxCandidates = 1
CHECK_DEADLOCK FALSE
INVARIANT PostsToConfiguredPath
