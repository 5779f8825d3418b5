\* One connection is enough; the rest as in Gateway.cfg.
CONSTANTS
    orders = orders
    users = users
    u1 = u1
    bad = bad
    Unparsable = Unparsable
    Conn = {c1}
    Entries <- ThreeEntries
    Strategy <- Strategies
    Checked <- OrdersOnly
    Canonical <- Canonicals
    UnhealthyThreshold = 2
    HealthyThreshold = 1
SPECIFICATION GatewaySpec
INVARIANTS
    EveryRequestHandled
\* The program is meant to end.
CHECK_DEADLOCK FALSE
