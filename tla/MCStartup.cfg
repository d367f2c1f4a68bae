CONSTANTS
    Launches = {l1, l2}
    Posts = {s1, s2}
    NoPost = NoPost
    Good = {"a"}
    Bad = {"b"}
    NoAddr = "-"
    Settings = {"mine"}
    Refused = "refused"
    Defaults = "defaults"
    Environments <- MCEnvironments
    Absent = Absent
    Unreadable = Unreadable
    Torn = Torn
    Written <- MCWritten
    MaxEdits = 1
    EditsRace = FALSE
    StatMayFail = FALSE
SPECIFICATION FairSpec
INVARIANTS TypeOK SettingsSurvive NeverAskedTwice SetupSettlesTheAddress
PROPERTIES EveryLaunchArrives
CHECK_DEADLOCK FALSE
