CONSTANTS
    Agents = {alpha}
    Boxes = {running, exited}
    None = None
    Fetches = {f1, f2, f3}
    MaxEvents = 1
SPECIFICATION FairSpec
INVARIANTS
    TypeOK
PROPERTIES
    CardsConverge
    PanelConverges
