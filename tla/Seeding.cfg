SPECIFICATION SeedSpec
CONSTANTS
    k1 = k1
    k2 = k2
    c1 = c1
    c2 = c2
    Event <- MCEvent
    Worker = {w1, seed}
    Seed = seed
    Script <- MCScript
    SeedHourBatch = 2
    SeedHourPasses = 3
    Customer = {c1, c2}
    NoCustomer = none
    CustomerOf <- MCCustomerOf
    Plan <- MCPlan
    HoursPerMonth = 10
    LastMonth = 2
    GrantAmounts = {1, 4}
    Half = 8
    MaxGrants = 1
INVARIANTS
    FirmsAreSeededOnce
    SeededFirmsAreInvoiced
    OneInvoicePerMonth
PROPERTIES
    BillingSpec
