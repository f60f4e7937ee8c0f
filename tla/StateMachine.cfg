\* The machine alone: exponential backoff, from a wait of 0 up to one that panics.
SPECIFICATION FairSpec
CONSTANTS
    SlidingWindowSize = 5
    ConsecutiveFailures = 3
    RateNum = 2
    RateDen = 5
    MinimumCalls = 4
    SuccessThreshold = 2
    MaxAttempts = 4
    CounterModulus = 3
    WaitFor <- GrowingWait
INVARIANTS
    TypeOK
    OpenHasTimer
    CountersInPhase
    WindowExact
    StreakMatchesWindow
    OverdueTripOnlyFromWarmup
    BackoffConsistent
PROPERTIES
    BackoffNeverShrinks
    SnapshotsVersioned
    TimerRunsDown
    ImplementsEagerBreaker
    ProbesEventually
