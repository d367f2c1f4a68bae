CONSTANTS
    a = a
    b = b
    c = c
    Sessions = {1, 2, 3}
    Ends <- MCEnds
    MaxMoves = 3
    Huge = 40
    Cap = 20
    Half = 32
    Thresholds = {1, 3}
    MaxSleep = 3
    MaxTime = 10
    Warn = 3
    Policies = {a, b, c}
    Answers <- MCAnswers
    PolicySlots = 2
    PerMinute = 2
    PerHour = 6
SPECIFICATION ScreenSpec
INVARIANTS ScreenTypeOK OncePerExpiry NoWarningMissed ScreenIsCurrent CountdownIsTrue EndlessIsNeverOver PoliciesAccountedFor
PROPERTIES NoLateWarning
