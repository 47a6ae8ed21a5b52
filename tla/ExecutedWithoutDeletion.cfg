\* A scan runs between the approval of a delete request and its job.
SPECIFICATION Spec
CONSTANTS
    m1 = m1
    m2 = m2
    hd = hd
    uhd = uhd
    Whole = whole
    Library <- OneMovieTwoVersions
    RuleProtectable = {}
    Requests = {r1}
    NoRequest = no_request
    Reviewers = {g1}
    MaxId = 2
    MaxScans = 1
    MaxAutos = 0
    MaxSyncs = 0
    MaxVanished = 0
    MaxManual = 0
    MaxProtections = 0
    MaxErrors = 0
    MaxStops = 0
CHECK_DEADLOCK FALSE
INVARIANTS
    ExecutedMeansDeleted
