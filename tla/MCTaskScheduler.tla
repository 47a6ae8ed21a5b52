--------------------------- MODULE MCTaskScheduler ---------------------------
\* A sync, which cannot be disabled, the automatic deletion and the resync.
EXTENDS TaskScheduler, TLC

CONSTANTS sync, delete, resync, daily, c1, c2

SomeTasks == {sync, delete, resync}

\* The rows of DEFAULT_SCHEDULES for them.
SomeDefaults ==
    [t \in SomeTasks |-> [when |-> IF t = resync THEN Manual ELSE daily,
                          enabled |-> t = sync]]

\* Coroutines differ in nothing but their locals.
ClientSymmetry == Permutations({c1, c2})

=============================================================================
