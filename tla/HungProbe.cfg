\* No call_timeout: nothing ends an operation that never answers.
SPECIFICATION FairBreakerSpec
CONSTANTS
    t1 = t1
    t2 = t2
    t3 = t3
    Tasks <- TwoTasks
    HalfOpenMaxCalls = 1
    Errors <- AllErrors
    failure_predicate <- CountRefused
    CallTimeout = FALSE
    SlidingWindowSize = 1
    ConsecutiveFailures = 2
    RateNum = 0
    RateDen = 1
    MinimumCalls = 1
    SuccessThreshold = 2
    MaxAttempts = 1
    CounterModulus = 1
    WaitFor <- OneTick
PROPERTIES
    LockedOutOnlyBySetbacks
