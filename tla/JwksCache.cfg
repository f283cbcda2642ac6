CONSTANTS
    k1 = k1
    k2 = k2
    NoKeys = NoKeys
    Requests <- MCRequests
    Kids <- MCKids
    Histories <- MCHistories
    TTL = 0
    MaxRefresh = 1
    MaxNow = 3
SPECIFICATION FairSpec
INVARIANTS
    KeysAtHand
    SteadyKeysAccepted
    AcceptedKeysRecent
PROPERTIES
    RequestsAnswered
