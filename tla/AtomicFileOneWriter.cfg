\* One writer: the pid file, server.conf, profiles.json and, until openvpn is
\* started, status.json.
CONSTANTS
    Writers = {w1}
    Langs = {"go", "py"}
    Inodes = {i1, i2, i3, i4}
    None = None
    Torn = Torn
    MaxUpdates = 4
SPECIFICATION Spec
INVARIANTS TypeOK NeverPartial NeverOutdated
PROPERTY ImplementsRegister
CHECK_DEADLOCK FALSE
