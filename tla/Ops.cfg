SPECIFICATION FairSpec
CONSTANTS
    i1 = i1
    i2 = i2
    e1 = e1
    e2 = e2
    x1 = x1
    Invoice = {i1, i2}
    Line <- MCLine
    InvoiceOf <- MCInvoiceOf
    IssuedAmount <- MCIssuedAmount
    NoEvent = none
    Session = {p1, p2}
    Request <- BooksRequest
    MaxAudit = 1
INVARIANTS
    TypeOK
    CreditOncePerKey
    TotalsAgree
    AckedPaymentIsPaid
    PaidReadsAgree
PROPERTIES
    PaidIsFrozen
    LedgerSpec
    OperationsEnd
