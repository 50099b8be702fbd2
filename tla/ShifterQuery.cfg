CONSTANTS
    ProfileCount = 3
    MaxFanOut = 2
    MaxMatched = 2
    Limits = {0, 1, 2, 3}
SPECIFICATION Spec
INVARIANTS LimitNeverVanishes EnoughReturned WithinFanOut
CHECK_DEADLOCK FALSE
