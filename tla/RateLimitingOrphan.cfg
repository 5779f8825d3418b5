\* The cleanup runs between the two locks of a request.
CONSTANTS
    Client = {a}
    Request = {r1, r2}
    Log = {l1, l2}
    Token = {k1, k2}
    Strategy = "ip-address"
    Limit = 1
    Window = 1
    ExpiryFactor = 2
    NoLog = NoLog
    NoClient = NoClient
    NoToken = NoToken
SPECIFICATION Spec
SYMMETRY Symmetry
INVARIANT EveryClientLimited
