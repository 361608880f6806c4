CONSTANTS
    Agents = {alpha}
    NoData = NoData
    Moods = {"offline", "online"}
    FirstPollSucceeds = FALSE
SPECIFICATION Spec
INVARIANT
    Discovered
