SPECIFICATION SetupSpec
CONSTANTS
    Releases <- MCReleases
    MaxRestarts = 0
    Requests = {r1, r2, r3}
    Names = {alice, bob}
    None = None
    MaxFaults = 1
SYMMETRY MCSymmetry
INVARIANTS SingleAdmin
CHECK_DEADLOCK FALSE
