SPECIFICATION FairSpec
CONSTANTS
    k1 = k1
    k2 = k2
    Event <- RaceEvent
    Offered <- RaceOffered
    Session = {p1, p2}
    Worker = {w1}
    MaxEventBatch = 2
    JobLimit = 1
    MaxUnits = 2
PROPERTIES
    RequestsEnd
    WindowsCatchUp
