\* Safety of the breaker: three tasks race for two probe slots.
SPECIFICATION ObservedSpec
CONSTANTS
    t1 = t1
    t2 = t2
    t3 = t3
    Tasks <- ThreeTasks
    HalfOpenMaxCalls = 2
    Errors <- AllErrors
    failure_predicate <- CountRefused
    CallTimeout = TRUE
    SlidingWindowSize = 1
    ConsecutiveFailures = 2
    RateNum = 0
    RateDen = 1
    MinimumCalls = 1
    SuccessThreshold = 2
    MaxAttempts = 3
    CounterModulus = 1
    WaitFor <- PanickingWait
SYMMETRY TaskSymmetry
INVARIANTS
    BreakerTypeOK
    PermitsAccounted
    AdmissionStable
    LastAnnouncementHolds
PROPERTIES
    ProbeAdmittedInHalfOpen
    EveryChangeAnnounced
    OnlyFailuresRegress
    ImplementsAtomicBreaker
