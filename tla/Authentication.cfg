\* Requests with two keys; three documents come and go.
CONSTANTS
    k1 = k1
    k2 = k2
    a = a
    b = b
    Key = {k1, k2}
    Document <- ThreeDocuments
    Listed <- ThreeListed
    Yamls <- ThreeYamls
    Request = {r1}
    NoKey = NoKey
    NoEntry = NoEntry
SPECIFICATION FairSpec
INVARIANTS
    TypeOK
    RevokedKeysGone
    ActiveKeysKept
    AcceptedIsListed
PROPERTIES
    EveryLookupAnswered
    RevocationArrives
CHECK_DEADLOCK FALSE
