SPECIFICATION FairSpec
CONSTANTS
    c1 = c1
    c2 = c2
    k1 = k1
    k2 = k2
    r1 = r1
    r2 = r2
    Session = {p1, p2, p3}
    Conn = {a}
    NoConn = none
    Customer = {c1, c2}
    NoCustomer = nobody
    Key = {k1, k2}
    OwnerOf <- MCOwnerOf
    OpsToken = ops
    Row = {r1, r2}
    RowOwner <- MCRowOwner
    All = all
    Request <- MCRequest
INVARIANTS
    AnsweredAsIfAlone
    RevokedIsRefused
    IdleConnectionsAreClean
PROPERTIES
    RequestsEnd
