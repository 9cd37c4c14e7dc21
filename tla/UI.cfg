\* Two profiles, three clicks.
CONSTANTS
    Profiles = {p1, p2}
    Saved = {p1}
    None = None
    MaxClicks = 3
    MaxRefreshes = 1
SPECIFICATION FairSpec
INVARIANTS TypeOK BusyHasACause
PROPERTIES LastingTunnelIsShown NoTunnelIsShown PinIsKept ListIsRefreshed
CHECK_DEADLOCK FALSE
