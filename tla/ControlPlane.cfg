\* Two attempts, a disconnect, an app restart, a full disk and dying bridges.
CONSTANTS
    MaxTunnels = 2
    MaxDisconnects = 1
    MaxCrashes = 1
    Faults = {"bridge_dies", "disk_full"}
SPECIFICATION FairSpec
INVARIANTS TypeOK FailedAttemptLeavesNothing
PROPERTIES  AttemptEnds DisconnectTakesDown 
CHECK_DEADLOCK FALSE
