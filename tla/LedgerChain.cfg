CONSTANTS
    r1 = r1
    r2 = r2
    r3 = r3
    Nobody = Nobody
    Requests <- MCRequests
    AccountCodes <- MCAccountCodes
    ChartOfAccounts <- MCChart
    CurrencyCodes <- MCCurrencyCodes
    Currencies <- MCCurrencies
    Postings <- MCPostings
SPECIFICATION FairSpec
INVARIANTS
    TypeOK
    ChainUnbroken
    PostingsBalanced
    AllOrNothing
    ReversalNetsToZero
PROPERTIES
    TipOnlyExtends
    PostingsEnd
    ImplementsAtomicLedger
