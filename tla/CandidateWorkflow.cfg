\* One movie with two versions: two scans, one of everything else, no failure of the process.
SPECIFICATION Spec
CONSTANTS
    m1 = m1
    m2 = m2
    hd = hd
    uhd = uhd
    Whole = whole
    Library <- OneMovieTwoVersions
    RuleProtectable = {m1}
    Requests = {r1}
    NoRequest = no_request
    Reviewers = {g1}
    MaxId = 2
    MaxScans = 2
    MaxAutos = 1
    MaxSyncs = 1
    MaxVanished = 1
    MaxManual = 1
    MaxProtections = 1
    MaxErrors = 0
    MaxStops = 0
SYMMETRY VersionSymmetry
CHECK_DEADLOCK FALSE
INVARIANTS
    TypeOK
    OneWorkflowAtATime
    
    RemovedMeansGone
    JobTally
PROPERTIES
    HeldCandidatesStay
