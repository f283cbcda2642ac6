CONSTANTS
    k1 = k1
    k2 = k2
    NoKeys = NoKeys
    Requests <- TwoRequests
    Kids <- MCKids
    Histories <- MCHistories
    TTL = 1
    MaxRefresh = 3
    MaxNow = 3
SPECIFICATION Spec
INVARIANTS
    PublishedKeysAccepted
