\* Any two routes, overlapping or not, and any gateway, of a 4-bit address.
CONSTANTS
    Bits = 4
    MaxSplits = 2
    Unaligned = "no"
    None = None
SPECIFICATION Spec
INVARIANTS TypeOK GatewayIsNeverRouted NothingElseIsLost
CHECK_DEADLOCK FALSE
