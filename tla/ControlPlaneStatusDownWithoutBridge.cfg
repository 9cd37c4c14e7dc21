\* status.json outlives its bridge.
CONSTANTS
    MaxTunnels = 2
    MaxDisconnects = 1
    MaxCrashes = 0
    Faults = {}
SPECIFICATION Spec
INVARIANT StatusDownWithoutBridge
CHECK_DEADLOCK FALSE
