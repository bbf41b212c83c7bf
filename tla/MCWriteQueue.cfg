SPECIFICATION Spec
CONSTANTS
    f1 = f1
    f2 = f2
    f3 = f3
    f4 = f4
    f5 = f5
    Frames = {f1, f2, f3, f4, f5}
    Bytes <- MCBytes
    MaxFrames = 2
    MaxBytes = 3
    Unbounded = 255
INVARIANTS
    QueueConsistent
    Pipeline
    NoLostWakeup
    DrainedWhenStopped
PROPERTIES
    ImplementsDelivery
    EnqueueReturns
    RunReturns
CHECK_DEADLOCK FALSE
