\* Two reviewers of one request, a scan, a failed write to the jobs table and a stop.
SPECIFICATION FairSpec
CONSTANTS
    m1 = m1
    m2 = m2
    hd = hd
    uhd = uhd
    Whole = whole
    Library <- OneMovieTwoVersions
    RuleProtectable = {}
    Requests = {r1}
    NoRequest = no_request
    Reviewers = {g1, g2}
    MaxId = 2
    MaxScans = 1
    MaxAutos = 1
    MaxSyncs = 1
    MaxVanished = 1
    MaxManual = 0
    MaxProtections = 0
    MaxErrors = 1
    MaxStops = 1
CHECK_DEADLOCK FALSE
INVARIANTS
    RemovedMeansGone
PROPERTIES
    ApprovedIsSettled
