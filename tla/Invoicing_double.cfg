SPECIFICATION Spec
CONSTANTS
    k1 = k1
    k2 = k2
    c1 = c1
    c2 = c2
    Event <- SoloEvent
    Worker = {w1, w2}
    Customer = {c1, c2}
    NoCustomer = none
    CustomerOf <- MCCustomerOf
    Plan <- MCPlan
    HoursPerMonth = 10
    LastMonth = 3
    GrantAmounts = {1, 4}
    Half = 8
    MaxGrants = 1
INVARIANTS
    CreditsConserved
