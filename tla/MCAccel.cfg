SPECIFICATION Spec
CONSTANTS
    MIN = 0
    MAX = 100
    AccelValues = {0, 5, 6, 25, 26}
    BrakeValues = {0, 1}
    QueueSize = 3
    NoValue = 2147483647
INVARIANTS NoThrottleWhileLatched NoThrottleWithoutPedal ThrottleFollows
