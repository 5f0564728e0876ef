SPECIFICATION Spec
CONSTANTS
    k1 = k1
    k2 = k2
    Event <- TenantEvent
    Offered <- TenantOffered
    Session = {p1}
    Worker = {w1}
    MaxEventBatch = 2
    JobLimit = 2
    MaxUnits = 5
INVARIANTS
    AckedEventIsStored
