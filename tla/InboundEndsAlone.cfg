\* Two calls and one inbound call; every event is taken at once, nothing is late, and
\* no hang-up is refused.
CONSTANTS
    c1 = c1  c2 = c2  h1 = h1  w = w  r = r
    None = None
    Calls = {c1, c2}
    Hangups = {h1}
    Channels = {w, r}
    Worker = w
    Reader = r
    MaxCallsPerWindow = 2
    MaxRestarts = 0
    MayTimeOut = {}
    LineTypes = {}
    MaxInbound = 1
SPECIFICATION PromptSpec
PROPERTIES
    InboundEndsAlone
