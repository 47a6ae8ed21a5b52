\* A version is deleted outside the program while it is a candidate.
SPECIFICATION Spec
CONSTANTS
    m1 = m1
    m2 = m2
    hd = hd
    uhd = uhd
    Whole = whole
    Library <- OneMovieTwoVersions
    RuleProtectable = {}
    Requests = {r1}
    NoRequest = no_request
    Reviewers = {g1}
    MaxId = 2
    MaxScans = 1
    MaxAutos = 0
    MaxSyncs = 1
    MaxVanished = 1
    MaxManual = 1
    MaxProtections = 0
    MaxErrors = 0
    MaxStops = 0
CHECK_DEADLOCK FALSE
PROPERTIES
    VersionScopeKept
