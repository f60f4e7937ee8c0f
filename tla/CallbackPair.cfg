\* trip() and reset() announce a state that is no longer the one they left.
SPECIFICATION BreakerSpec
CONSTANTS
    t1 = t1
    t2 = t2
    t3 = t3
    Tasks <- TwoTasks
    HalfOpenMaxCalls = 1
    Errors <- AllErrors
    failure_predicate <- CountRefused
    CallTimeout = TRUE
    SlidingWindowSize = 1
    ConsecutiveFailures = 2
    RateNum = 0
    RateDen = 1
    MinimumCalls = 1
    SuccessThreshold = 2
    MaxAttempts = 1
    CounterModulus = 1
    WaitFor <- NoWait
PROPERTIES
    AnnouncedPairCorrect
