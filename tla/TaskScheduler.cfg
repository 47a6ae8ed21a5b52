\* Two coroutines: three saves, a run, a toggle, a restart.
SPECIFICATION Spec
CONSTANTS
    sync = sync
    delete = delete
    resync = resync
    daily = daily
    c1 = c1
    c2 = c2
    Tasks <- SomeTasks
    MainServerTasks = {sync, delete, resync}
    DisableAble = {delete}
    AutoDelete = delete
    Resync = resync
    NoTask = no_task
    Timings = {daily}
    Manual = manual
    Defaults <- SomeDefaults
    Clients = {c1, c2}
    MaxSaves = 3
    MaxRequests = 1
    MaxToggles = 1
    MaxStops = 1
SYMMETRY ClientSymmetry
CHECK_DEADLOCK FALSE
INVARIANTS
    TypeOK
    MandatoryTasksScheduled

    
