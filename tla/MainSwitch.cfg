\* A service toggle asks for a resync.
SPECIFICATION Spec
CONSTANTS
    sync = sync
    delete = delete
    resync = resync
    daily = daily
    c1 = c1
    c2 = c2
    Tasks <- SomeTasks
    MainServerTasks = {sync, delete, resync}
    DisableAble = {delete}
    AutoDelete = delete
    Resync = resync
    NoTask = no_task
    Timings = {daily}
    Manual = manual
    Defaults <- SomeDefaults
    Clients = {c1, c2}
    MaxSaves = 1
    MaxRequests = 0
    MaxToggles = 1
    MaxStops = 0
CHECK_DEADLOCK FALSE
PROPERTIES
    SwitchQueuesResync
