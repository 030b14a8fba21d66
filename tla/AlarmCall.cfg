\* The manager with the adapter and with baresip: two calls, a client that hangs up,
\* any command refused or answered too late, the end of the playback in either
\* queue, and an inbound call at any time.
CONSTANTS
    c1 = c1  c2 = c2  h1 = h1  w = w  r = r
    None = None
    Calls = {c1, c2}
    Hangups = {h1}
    Channels = {w, r}
    Worker = w
    Reader = r
    MaxCallsPerWindow = 2
    MaxRestarts = 0
    MayTimeOut = {"ausrc", "dial", "hangup"}
    LineTypes = {"eof"}
    MaxInbound = 1
SYMMETRY Symmetry
SPECIFICATION SystemSpec
INVARIANTS
    AlarmOnlyAfterAnswerUnlessMisled
    SipCallManaged
    ReasonIsOwn
PROPERTIES
    HangupsHitTheirCall
