SPECIFICATION FairSpec
CONSTANTS
    MaxRows = 2
    Malformed = {2}
    Workers = {w1, w2}
    MaxAttempts = 2
    CommitTries = 2
    Limit = 1
    MaxFaults = 2
    MaxManual = 1
INVARIANTS SentIsDelivered NoConcurrentPost
PROPERTIES OutcomesAreNotOverwritten AutomaticAttemptsBounded EveryTriggerSettles
CHECK_DEADLOCK FALSE
