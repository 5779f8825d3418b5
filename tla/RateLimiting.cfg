\* Two clients, two requests at a time, logs that are deleted and made anew.
CONSTANTS
    Client = {a, b}
    Request = {r1, r2}
    Log = {l1, l2}
    Token = {k1, k2, k3, k4}
    Strategy = "ip-address"
    Limit = 2
    Window = 1
    ExpiryFactor = 1
    NoLog = NoLog
    NoClient = NoClient
    NoToken = NoToken
SPECIFICATION Spec
SYMMETRY Symmetry
INVARIANTS
    TypeOK
    WindowLimit
PROPERTIES
    RejectionJust
    RemainingHonest
