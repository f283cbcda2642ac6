CONSTANTS
    r1 = r1
    r2 = r2
    r3 = r3
    Nobody = Nobody
    NoMilestone = NoMilestone
    Requests <- MCRequests
    FirstYear = 2026
    LastYear = 2027
    Payloads <- MCPayloads
    ClientOf <- MCClientOf
    ContractOf <- MCContractOf
    Currencies <- MCCurrencies
SPECIFICATION FairSpec
INVARIANTS
    TypeOK
    Gapless
    NumbersNeverCollide
    AuditListsInvoices
    TotalNearSum
PROPERTIES
    ImplementsNumbering
    CreationsEnd
