SPECIFICATION Spec

CONSTANTS
    Threads = {t1, t2}
    Devices = {d1, d2}
    RowIds = {r1, r2}
    PortMin = 1
    PortMax = 2
    AskedPorts = {1}
    Manual = {nourl}
    NoUrl = nourl
    NoRow = norow
    DeviceIdUnique = TRUE

SYMMETRY ThreadSymmetry

INVARIANTS
    PortsUnique
    UrlNamesPort
    OneTunnelPerDevice
