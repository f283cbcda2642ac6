CONSTANTS
    r1 = r1
    r2 = r2
    r3 = r3
    i1 = i1
    i2 = i2
    Nobody = Nobody
    NoInvoice = NoInvoice
    Requests <- MCRequests
    Invoices <- TwoInvoices
    Amounts <- OddAmounts
    Payments <- MCPayments
    HomeCurrency = "FJD"
    AccountCodes <- MCChart
    ChartOfAccounts <- MCChart
    CurrencyCodes <- MCCurrencies
    Currencies <- MCCurrencies
SPECIFICATION Spec
SYMMETRY BothSymmetry
INVARIANTS
    SoundBillsIssued
    PostingsMatchStatus
    AuditTrailConnected
    PaymentsAudited
    PdfOfIssueUnlessCut
    WaitsEnd
PROPERTIES
    StatusOneWay
    ImplementsLifecycle
