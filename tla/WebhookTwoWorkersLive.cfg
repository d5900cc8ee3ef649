SPECIFICATION FairSpec

CONSTANTS
    wh1 = wh1
    wh2 = wh2
    pfx1 = pfx1
    sms = sms
    beat = beat
    noid = noid
    id1 = id1
    Prefix <- MCPrefix
    ExplicitId <- MCExplicitId
    Ids = {id1, noid}
    NoId = noid
    NoDevice = nodevice
    Workers = {w1, w2}
    Calls = {c1, c2, c3}
    Admins = {}
    Devices = {d1}
    Tokens = {wh1}
    Prefixes = {pfx1}
    Payloads = {sms, beat}
    Limit = 3
    WindowTicks = 1
    MaxTime = 0
    Dialect = "postgresql"

INVARIANTS
    StoredByOneCall
    NeverOvercounts
PROPERTY LoopReleased

\* Every request was answered and no token is left to issue: the model ends.
CHECK_DEADLOCK FALSE
