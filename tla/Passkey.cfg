SPECIFICATION FairSpec
CONSTANTS
    Requests = {r1, r2, r3}
    Users = {admin}
    Enrolled = {key}
    None = None
    PendingTTL = 1
    MaxTime = 2
    MaxFaults = 1
INVARIANTS PasskeyTypeOK DeletedCredentialIsDead StoredCountWasReported
PROPERTIES CeremoniesAreOneShot AbandonedCeremoniesAreSwept
