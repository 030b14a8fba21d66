\* The instance of AdapterLifecycle.cfg with one refresh.
CONSTANTS
    r1 = r1  r2 = r2
    Refreshes = {r1}
    Outcomes = {"registered", "unregistered"}
    MaxProcesses = 2
    MaxQueued = 1
CHECK_DEADLOCK FALSE
SPECIFICATION Spec
INVARIANTS
    NothingRunsAfterShutdown
