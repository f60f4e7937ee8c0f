\* A service behind the breaker: two services, one probe slot, every operation
\* times out in the end.
SPECIFICATION FairTowerSpec
CONSTANTS
    t1 = t1
    t2 = t2
    t3 = t3
    Tasks <- TwoTasks
    HalfOpenMaxCalls = 1
    Errors <- AllErrors
    failure_predicate <- CountRefused
    CallTimeout = TRUE
    SlidingWindowSize = 1
    ConsecutiveFailures = 2
    RateNum = 0
    RateDen = 1
    MinimumCalls = 1
    SuccessThreshold = 2
    MaxAttempts = 1
    CounterModulus = 1
    WaitFor <- OneTick
INVARIANTS
    TowerTypeOK
PROPERTIES
    OpenDrainsService
    RequestsAnswered
    NeverLockedOut
    Heals
