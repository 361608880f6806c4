CONSTANTS
    Agents = {alpha}
    NoData = NoData
    Moods = {"offline", "online", "slow", "failing", "garbled"}
    FirstPollSucceeds = TRUE
SPECIFICATION FairSpec
INVARIANTS
    Discovered
PROPERTIES
    EventuallyShown
