\* WAVs of up to four bytes and three seconds, two dials in any three seconds, six
\* seconds; each request differs in one respect from one that is dialled.
CONSTANTS
    MaxAttempts = 2
    Window = 3
    MaxTime = 6
    MaxAudioBytes = 4
    MaxAudioSeconds = 3
    MinClientMaxSize = 4
    MaxJsonOverhead = 2
    Wavs <- MCWavs
    Requests <- MCRequests
    AllowedRules <- MCAllowed
    BlockedRules <- MCBlocked
SPECIFICATION RequestSpec
INVARIANTS
    WindowRespected
    NothingLeft
    AudioWithinLimits
    DialledAsDocumented
    TooLargeIsTooLarge
PROPERTIES
    AttemptsAreDials
    RefusedOnlyWhenFull
    RequestAnswered
