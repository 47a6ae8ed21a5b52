CONSTANTS
    v1 = v1
    v2 = v2
    v3 = v3
    r1 = r1
    r2 = r2
    s1 = s1
    s2 = s2
    e1 = e1
    e2 = e2
    e3 = e3
    n1 = n1
    n2 = n2
    p = p
    j = j
    i1 = i1
    Whole = Whole
    Outside = Outside
    Versions = {v1, v2, v3}
    Radarrs = {r1, r2}
    MaxCandidates = 2
    Layouts <- MCLayouts
    MovieSettings <- MCMovieSettings
    Seasons = {s1, s2}
    Episodes = {e1, e2, e3}
    EpisodeSeason <- MCEpisodeSeason
    WholeSeries = WholeSeries
    Sonarrs = {n1, n2}
    NoInstance = NoInstance
    SeriesLayouts <- MCSeriesLayouts
    SeriesSettings <- MCSeriesSettings
    MaxSeriesCandidates = 2
    SoonServers = {p, j}
    SilentServers = {p}
    Titles = {"A", "B"}
    NoTitle = NoTitle
    Items = {i1}
SPECIFICATION RoutesSpec
INVARIANTS
    RoutesTypeOK
    UnselectedKept
    UncoveredKept
    
    LinksPruned
PROPERTIES
    MovieCallPromise
    SeriesCallPromise
    SyncForgetsGone
