\* Two goroutines share status.json.tmp: run()'s select loop and watchOpenVPN.
CONSTANTS
    Writers = {w1, w2}
    Langs = {"go"}
    Inodes = {i1, i2, i3, i4}
    None = None
    Torn = Torn
    MaxUpdates = 3
SPECIFICATION Spec
INVARIANT NeverPartial
CHECK_DEADLOCK FALSE
