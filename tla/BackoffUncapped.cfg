\* max = Duration::MAX, the natural way to ask for no cap.
SPECIFICATION Spec
CONSTANTS
    MaxDuration = 100
    MaxExponent = 7
    Overflow = 128
    Initials = {1}
    Maxima = {100}
    Width = 4
    FirstUp = 1
    ThenDown = 3
    ThenUp = 2
    Dropped = 1
    Strategies <- Family
    LastAttempt = 10
INVARIANTS
    NeverPanics
