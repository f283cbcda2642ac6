CONSTANTS
    r1 = r1
    r2 = r2
    r3 = r3
    u1 = u1
    u2 = u2
    Nobody = Nobody
    NoUser = NoUser
    Requests <- TwoRequests
    Users <- TwoUsers
    Accounts <- TwoUsers
    Enabled <- TwoUsers
    Roles <- OwnerOnly
    Founders <- Founder
SPECIFICATION Spec
INVARIANT
    LastRevocationHolds
