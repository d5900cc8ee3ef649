SPECIFICATION FrpSpec

CONSTANTS
    Threads = {t1}
    Viewers = {v1}
    Devices = {d1, d2}
    RowIds = {r1, r2}
    PortMin = 1
    PortMax = 2
    AskedPorts = {}
    Manual = {nourl}
    NoUrl = nourl
    NoRow = norow
    DeviceIdUnique = TRUE
    Secrets = {s1, s2}
    LocalPorts = {l1, l2}
    NoConf = noconf
    MaxEnables = 2

SYMMETRY FrpSymmetry

INVARIANTS
    FrpTypeOK
    StraysWereReenabled
    ShownPortIsBound
PROPERTY TokensAccepted
