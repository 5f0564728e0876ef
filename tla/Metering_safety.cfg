SPECIFICATION Spec
CONSTANTS
    k1 = k1
    k2 = k2
    Event <- RaceEvent
    Offered <- RaceOffered
    Session = {p1, p2}
    Worker = {w1, w2}
    MaxEventBatch = 3
    JobLimit = 2
    MaxUnits = 5
INVARIANTS
    TypeOK
    OneRowPerRequest
    CleanHoursAreExact
    AckedRequestIsStored
    DeleteNeverMisses
    PendingSumsAreExact
    WindowsNeverOvershoot
PROPERTIES
    WindowsNeverShrink
    MeterSpec
