SPECIFICATION PartSpec
CONSTANTS
    Parts = {"record"}
    Weathers = {1, 2, 3}
    Boosting = {1, 3}
    PartlyCloudy = 3
    Hour = 14
    Shown = 3
    FirstGuess = 5
    NextGuess = 3
    Jitter = 1
    Seconds = {0, 1, 2, 6, 11, 12, 13}
    MaxTime = 46
    Bases = {5, 15, 30}
    LowIvs = {1}
    HighIvs = {2, 3}
    Species = {"A", "B"}
    Places = {"a", "b"}
    Forms = {"f", "g"}
    MaxEntries = 2
PROPERTIES
    SwitchFollowsWeather
CHECK_DEADLOCK FALSE
