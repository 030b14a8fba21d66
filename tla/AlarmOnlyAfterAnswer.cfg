\* Two calls, of which the first is hung up by a command that is answered late; every
\* event is taken at once, nothing else is late or refused, no inbound call.
CONSTANTS
    c1 = c1  c2 = c2  h1 = h1  w = w  r = r
    None = None
    Calls = {c1, c2}
    Hangups = {h1}
    Channels = {w, r}
    Worker = w
    Reader = r
    MaxCallsPerWindow = 2
    MaxRestarts = 0
    MayTimeOut = {"hangup"}
    LineTypes = {}
    MaxInbound = 0
SPECIFICATION PromptSpec
INVARIANTS
    AlarmOnlyAfterAnswer
