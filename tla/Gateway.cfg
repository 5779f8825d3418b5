\* Two connections, two monitors, one of them of a URL that does not parse, and an
\* entry that is not monitored.
CONSTANTS
    orders = orders
    users = users
    u1 = u1
    bad = bad
    Unparsable = Unparsable
    Conn = {c1, c2}
    Entries <- ThreeEntries
    Strategy <- Strategies
    Checked <- OrdersOnly
    Canonical <- Canonicals
    UnhealthyThreshold = 2
    HealthyThreshold = 1
SPECIFICATION GatewayFairSpec
INVARIANTS
    InFlightHandled
    ServedUnderWatch
    FlagFollowsVerdict
    VerdictFollowsProbes
PROPERTIES
    SignalEndsProgram
    DebouncedVerdict
    QuietAfterStop
    EventuallyAccurate
\* The program is meant to end.
CHECK_DEADLOCK FALSE
