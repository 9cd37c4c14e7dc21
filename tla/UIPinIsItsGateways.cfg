\* Disconnect, then a click on another profile.
CONSTANTS
    Profiles = {p1, p2}
    Saved = {p1, p2}
    None = None
    MaxClicks = 4
    MaxRefreshes = 1
SPECIFICATION Spec
INVARIANT PinIsItsGateways
CHECK_DEADLOCK FALSE
