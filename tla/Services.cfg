CONSTANTS
    s1 = s1
    s2 = s2
    e1 = e1
    e2 = e2
    v1 = v1
    v2 = v2
    p = p
    j = j
    i1 = i1
    i2 = i2
    a = a
    u1 = u1
    u2 = u2
    rk = rk
    rs = rs
    rm = rm
    rc = rc
    c1 = c1
    c2 = c2
    k1 = k1
    k2 = k2
    n1 = n1
    n2 = n2
    t1 = t1
    o1 = o1
    o2 = o2
    x1 = x1
    g1 = g1
    g2 = g2
    f1 = f1
    f2 = f2
    f3 = f3
    w1 = w1
    Seasons = {s1, s2}
    Episodes = {e1, e2}
    EpisodeSeason <- MCEpisodeSeason
    WholeSeries = WholeSeries
    MaxMatches = 1
    MaxProtections = 1
    MaxRequests = 1
    MoveVersions = {v1, v2}
    WholeMovie = WholeMovie
    ServerItem <- MCServerItem
    NoCandidate = NoCandidate
    MaxMoves = 3
    MediaIds = {p, j}
    ArrIds = {a}
    Urls = {u1, u2}
    Nothing = Nothing
    MaxServiceSteps = 3
    MaxServiceSaves = 2
    Fields = {"rating", "sonarr", "playback", "seerr"}
    Unavailable = Unavailable
    RuleItems = {i1, i2}
    Rules = {rk, rs, rm, rc}
    NoRule = NoRule
    RuleOutcome <- MCOutcome
    RuleRoot <- MCRoot
    Sources <- MCSources
    Worlds <- MCWorlds
    Callers = {c1, c2}
    Background = Background
    NoSnapshot = NoSnapshot
    MaxVersion = 2
    Keys = {k1, k2}
    Overlap = 1
    Interval = 2
    MaxDay = 2
    MaxLate = 2
    MaxPlays = 2
    NoDay = NoDay
    PlayItems = {n1, n2}
    PlayTitles = {t1}
    TitleOf <- MCTitleOf
    PlayOverlap = 2
    PlayLength = 1
    LastHalf = 3
    MaxEvents = 1
    NoTime = NoTime
    Sessions = {x1}
    Recs = {o1, o2}
    Investigated = {o2}
    Stages <- MCStages
    MaxItems = 2
    NoRecord = NoRecord
    FavServers = {g1, g2}
    PlexServers = {g2}
    Accounts = {f1, f2, f3}
    AccountServer <- MCAccountServer
    FavTitles = {w1}
    MaxChanges = 3
    NoServer = NoServer
SPECIFICATION ServicesSpec
INVARIANTS
    ServicesTypeOK
    RowsNamed
    
    ClientsFollowSettings
    MainHasClient
    
    FreshIsFresh
    
    ScanCountsPlays
    SessionRecordTrue
PROPERTIES
    
    
    SnapshotNeverOlder
    FavoritesOutliveFailures
CHECK_DEADLOCK FALSE
