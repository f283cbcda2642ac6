CONSTANTS
    r0 = r0
    r1 = r1
    r2 = r2
    r3 = r3
    Nobody = Nobody
    Requests <- MCRequests
    Payloads <- MCPayloads
    Maker = r0
    Drafts <- MCDrafts
    Depth = 3
SPECIFICATION FairSpec
INVARIANTS
    ConstraintsHold
    AuditEndsAtRow
    ChangesTraceable
PROPERTIES
    ImplementsPartialUpdates
    PatchesEnd
