SPECIFICATION Spec
CONSTANTS
    Posts = 4
    Started <- MCStarted
    Deadline = 480
    Timeout = 40
    Spacing = 1
    RetryAfter <- MCRetryAfter
    MaxRetryAfter = 120
    Pause = 2
    Attempts = 3
    Delays <- MCDelays
INVARIANTS TakenAtMostOnce RunIsBounded RequestsAreSpaced PingedUnlessLate
