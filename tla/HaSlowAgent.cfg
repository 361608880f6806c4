CONSTANTS
    Agents = {alpha, beta}
    NoData = NoData
    Moods = {"offline", "online", "slow"}
    FirstPollSucceeds = TRUE
SPECIFICATION Spec
PROPERTY
    UnavailableOnlyWithoutMain
