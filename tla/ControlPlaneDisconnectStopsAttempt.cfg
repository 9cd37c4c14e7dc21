\* Disconnect while the worker of connect is still waiting.
CONSTANTS
    MaxTunnels = 2
    MaxDisconnects = 1
    MaxCrashes = 0
    Faults = {}
SPECIFICATION Spec
PROPERTY DisconnectStopsAttempt
CHECK_DEADLOCK FALSE
