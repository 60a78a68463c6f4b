SPECIFICATION FairSetupSpec
CONSTANTS
    Releases <- MCReleases
    MaxRestarts = 2
    Requests = {r1, r2, r3}
    Names = {alice, bob}
    None = None
    MaxFaults = 1
INVARIANTS SetupTypeOK BodiesRunOnce ServingSchemaIsCurrent AppliedInOrder CookiesSurviveRestarts CookieMeansEnrolled NoHalfAdmin
PROPERTIES StartsServing
CHECK_DEADLOCK FALSE
