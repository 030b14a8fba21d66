\* Two calls, two hang-up requests, both event channels, one adapter restart; the
\* rate limit of one call per window makes the second call wait for its expiry.
CONSTANTS
    c1 = c1  c2 = c2  h1 = h1  h2 = h2  e1 = e1  e2 = e2
    None = None
    Calls = {c1, c2}
    Hangups = {h1, h2}
    Channels = {e1, e2}
    MaxCallsPerWindow = 1
    MaxRestarts = 1
SYMMETRY Symmetry
SPECIFICATION Spec
INVARIANTS
    TypeOK
    LockOwned
    SipCallOwned
    CommandsHitOwnCall
    WavsOwned
    TimersReferenced
    SecondCheckRedundant
    CallSupervisedUnlessRestarted
PROPERTIES
    ImplementsLifecycle
