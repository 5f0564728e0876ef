SPECIFICATION Spec
CONSTANTS
    i1 = i1
    i2 = i2
    e1 = e1
    e2 = e2
    x1 = x1
    Invoice = {i1, i2}
    Line <- MCLine
    InvoiceOf <- MCInvoiceOf
    IssuedAmount <- MCIssuedAmount
    NoEvent = none
    Session = {p1, p2}
    Request <- AuditRequest
    MaxAudit = 2
INVARIANTS
    AuditIsAChain
