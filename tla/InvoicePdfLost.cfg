CONSTANTS
    r1 = r1
    r2 = r2
    r3 = r3
    i1 = i1
    i2 = i2
    Nobody = Nobody
    NoInvoice = NoInvoice
    Requests <- TwoRequests
    Invoices <- OneInvoice
    Amounts <- OneAmount
    Payments <- WholePayment
    HomeCurrency = "FJD"
    AccountCodes <- MCChart
    ChartOfAccounts <- MCChart
    CurrencyCodes <- MCCurrencies
    Currencies <- MCCurrencies
SPECIFICATION Spec
INVARIANT PdfMatchesIssue
