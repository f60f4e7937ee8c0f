\* Lazy half-opening is a transition no callback announces.
SPECIFICATION BreakerSpec
CONSTANTS
    t1 = t1
    t2 = t2
    t3 = t3
    Tasks <- TwoTasks
    HalfOpenMaxCalls = 1
    Errors <- AllErrors
    failure_predicate <- CountRefused
    CallTimeout = TRUE
    SlidingWindowSize = 1
    ConsecutiveFailures = 2
    RateNum = 0
    RateDen = 1
    MinimumCalls = 1
    SuccessThreshold = 1
    MaxAttempts = 1
    CounterModulus = 8
    WaitFor <- OneTick
INVARIANTS
    AnnouncedOncePerTransition
