\* Every environment, and every address and mask of 7 bits, the last octet of which has 4.
CONSTANTS
    Bits = 7
    OctetBits = 4
    Scattered = Scattered
    Unset = Unset
    Garbage = Garbage
SPECIFICATION Spec
INVARIANTS TypeOK EndpointFits RefusedOnlyWithoutRoom AppAndBridgeAgree
CHECK_DEADLOCK FALSE
