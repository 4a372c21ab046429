CONSTANTS
    Durations <- MCDurations
    Jitters <- MCJitters
    Initial = 1000
    Cap = 30000
    Stable = 30000
    Never = Never
SPECIFICATION Spec
INVARIANTS
    TypeOK
    StatusTruthful
    DelayBounded
