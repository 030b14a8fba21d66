\* Start and shutdown of the service, two refreshes, two processes, one event.
CONSTANTS
    r1 = r1  r2 = r2
    Refreshes = {r1, r2}
    Outcomes = {"registered", "unregistered"}
    MaxProcesses = 2
    MaxQueued = 1
CHECK_DEADLOCK FALSE
SPECIFICATION LiveSpec
INVARIANTS
    TypeOK
    OneProcess
    OfCurrentProcess
PROPERTIES
    CallersReturn
