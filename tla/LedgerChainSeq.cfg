CONSTANTS
    r1 = r1
    r2 = r2
    r3 = r3
    Nobody = Nobody
    Requests <- TwoRequests
    AccountCodes <- MCAccountCodes
    ChartOfAccounts <- MCChart
    CurrencyCodes <- MCCurrencyCodes
    Currencies <- MCCurrencies
    Postings <- PlainPostings
SPECIFICATION Spec
INVARIANT
    ChainSeqIsChainOrder
