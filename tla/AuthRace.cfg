SPECIFICATION Spec
CONSTANTS
    r1 = r1  r2 = r2  r3 = r3  r4 = r4
    admin = admin  name = name  bogus = bogus
    Requests = {r1, r2, r3, r4}
    Users = {admin}
    Names = {name}
    AccountOf <- MCAccountOf
    IPs = {ip1}
    Passwords = {p1, p2}
    Codes = {c1}
    None = None
    SessionDuration = 2
    ResetTokenTTL = 1
    FailureWindow = 1
    LockoutDuration = 1
    History = 2
    MaxFailedAttempts = 2
    TZOffset = 0
    MaxTime = 2
    MaxFaults = 1
SYMMETRY MCSymmetry
INVARIANTS TypeOK ReplacedPasswordIsDead SpentLinkIsMarked
PROPERTIES LiveSessionsEndOnRequest RecoveryCodesAreOneShot
