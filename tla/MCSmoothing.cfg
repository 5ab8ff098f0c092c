SPECIFICATION SmoothingFairSpec
CONSTANTS
    averageLength = 2
    averageInterval = 2
    queueLength = 2
    InverseAlpha = 7
    Load = {0, 1}
INVARIANTS
    SmoothingTypeOK
    WindowBounded
    StopTakesEffect
    SmoothedWithinRange
PROPERTIES
    QueueFills
    StopEndsSampling
