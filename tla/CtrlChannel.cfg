\* One sender and the worker, three commands, three events, a queue of one.
CONSTANTS
    s1 = s1  s2 = s2  w = w
    None = None
    Senders = {s1}
    Worker = w
    QueueSize = 1
    MaxTokens = 3
    MaxEvents = 3
SPECIFICATION LiveSpec
INVARIANTS
    TypeOK
    OneCommandInFlight
    OkMeansAccepted
    EventsComplete
PROPERTIES
    CommandsAnswered
