\* A connection accepted just before stop() is registered while shutdown() waits.
SPECIFICATION SystemFairSpec
CONSTANTS
    Clients = {c1, c2}
    Callers = {c1}
    Moved = Moved
    Shutdowns = {1}
    MaxAcceptFailures = 0
PROPERTIES
    ShutdownReturns
CHECK_DEADLOCK FALSE
