SPECIFICATION Spec

CONSTANTS
    wh1 = wh1
    wh2 = wh2
    pfx1 = pfx1
    sms = sms
    beat = beat
    noid = noid
    id1 = id1
    Prefix <- MCPrefix
    ExplicitId <- MCExplicitId
    Ids = {id1, noid}
    NoId = noid
    NoDevice = nodevice
    Workers = {w1, w2}
    Calls = {c1, c2, c3}
    Admins = {}
    Devices = {d1, d2}
    Tokens = {wh1, wh2}
    Prefixes = {pfx1}
    Payloads = {sms}
    Limit = 3
    WindowTicks = 1
    MaxTime = 0
    Dialect = "sqlite"

SYMMETRY CallSymmetry

INVARIANTS
    EventsCounted
    StoredByOneCall
PROPERTY InboxSpec

\* Every request was answered and no token is left to issue: the model ends.
CHECK_DEADLOCK FALSE
