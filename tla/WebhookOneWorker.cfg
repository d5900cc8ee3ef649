SPECIFICATION Spec

CONSTANTS
    wh1 = wh1
    wh2 = wh2
    pfx1 = pfx1
    sms = sms
    beat = beat
    noid = noid
    id1 = id1
    Prefix <- MCPrefix
    ExplicitId <- MCExplicitId
    Ids = {id1, noid}
    NoId = noid
    NoDevice = nodevice
    Workers = {w1}
    Calls = {c1, c2, c3}
    Admins = {a1}
    Devices = {d1}
    Tokens = {wh1, wh2}
    Prefixes = {pfx1}
    Payloads = {sms, beat}
    Limit = 2
    WindowTicks = 1
    MaxTime = 1
    Dialect = "postgresql"

SYMMETRY CallAndTokenSymmetry

INVARIANTS
    TypeOK
    EventsCounted
    CallsCounted
    StoredByOneCall
    RateLimitHeld
    FirstRowIsFree
    RevocationLag
PROPERTIES
    RevokedForGood
    SeenMonotone

\* Every request was answered and no token is left to issue: the model ends.
CHECK_DEADLOCK FALSE
