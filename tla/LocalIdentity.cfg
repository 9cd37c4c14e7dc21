\* One process at a time, each stopped anywhere.
CONSTANTS
    Procs = {p1, p2, p3, p4}
    MaxAtOnce = 1
    MaxGenerations = 5
SPECIFICATION Spec
INVARIANTS TypeOK SettingsAreAccepted ShownStaysValid
CHECK_DEADLOCK FALSE
