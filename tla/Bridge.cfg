\* Every way out of run(), and what must eventually happen.
CONSTANTS
    MaxLines = 2
    MaxSignals = 2
    Disk = "ok"
SPECIFICATION FairSpec
INVARIANTS TypeOK ReturnStopsOpenvpn RegisteredShowsOwnStatus
PROPERTIES  TerminalStateStands TickerRepairsFile SignalEndsBridge SeenParentsDeathEndsBridge
CHECK_DEADLOCK FALSE
