\* Every strategy of the family, the cap at Duration::MAX included.
SPECIFICATION Spec
CONSTANTS
    MaxDuration = 100
    MaxExponent = 7
    Overflow = 128
    Initials = {0, 1, 2, 3, 5}
    Maxima = {0, 1, 4, 9, 30, 100}
    Width = 4
    FirstUp = 1
    ThenDown = 3
    ThenUp = 2
    Dropped = 1
    Strategies <- Family
    LastAttempt = 10
INVARIANTS
    MatchesReference
    GeneratorSeeded
    DrawnWaitBounded
PROPERTIES
    WaitsGrow
