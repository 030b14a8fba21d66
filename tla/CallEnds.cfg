\* Two calls, one hang-up request, one event channel; no adapter restart.
CONSTANTS
    c1 = c1  c2 = c2  h1 = h1  h2 = h2  e1 = e1  e2 = e2
    None = None
    Calls = {c1, c2}
    Hangups = {h1}
    Channels = {e1}
    MaxCallsPerWindow = 1
    MaxRestarts = 0
SPECIFICATION LiveSpec
PROPERTIES
    CallEnds
    TasksComeToRest
