CONSTANTS
    r1 = r1
    r2 = r2
    r3 = r3
    NoKey = NoKey
    Requests <- MCRequests
    Lives = 2
SPECIFICATION Spec
SYMMETRY RequestSymmetry
INVARIANTS
    TypeOK
    SettledClientsReadable
    ContactsDieWithProcess
