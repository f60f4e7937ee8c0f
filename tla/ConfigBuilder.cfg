\* Every order of setters, in and out of range.
SPECIFICATION Spec
CONSTANTS
    Counts = {0, 1, 4}
    Rates <- MCRates
    RateDen = 2
    exponential = exponential
    Strategies = {exponential}
    Waits = {7}
    Timeouts = {0, 2}
    Predicates = {transient}
    transient = transient
    FixedWait <- MCFixedWait
    NaN = NaN
    None = None
INVARIANTS
    AlwaysUsable
    LastRequestWins
