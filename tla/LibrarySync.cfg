\* Two movies, two syncs, two files deleted outside, a scan and both deleters.
SPECIFICATION Spec
CONSTANTS
    m1 = m1
    m2 = m2
    hd = hd
    uhd = uhd
    Whole = whole
    Library <- TwoMovies
    RuleProtectable = {}
    Requests = {}
    NoRequest = no_request
    Reviewers = {}
    MaxId = 3
    MaxScans = 1
    MaxAutos = 1
    MaxSyncs = 2
    MaxVanished = 2
    MaxManual = 1
    MaxProtections = 0
    MaxErrors = 0
    MaxStops = 0
CHECK_DEADLOCK FALSE
INVARIANTS
    RemovedMeansGone
