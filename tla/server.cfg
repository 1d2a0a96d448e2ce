SPECIFICATION ServerSpec
CONSTANTS
    Addrs = {a1, a2}
    Dcids = {d1, d2, d3}
    ShortDcids = {d3}
    TTL = 2
    MaxClock = 2
    MaxStarts = 2
    MaxRetries = 2
    MaxAttempts = 2
INVARIANTS ServerTypeOK FailureIsClean
PROPERTIES AdmittedIsFresh OneClientPerHandshake StartIsDecided
CHECK_DEADLOCK FALSE
