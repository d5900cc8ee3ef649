SPECIFICATION Spec

CONSTANTS
    Threads = {t1, t2}
    Devices = {d1}
    RowIds = {r1, r2}
    PortMin = 1
    PortMax = 2
    AskedPorts = {1, 2}
    Manual = {nourl, lan}
    NoUrl = nourl
    NoRow = norow
    DeviceIdUnique = FALSE

SYMMETRY ThreadSymmetry

INVARIANT OneTunnelPerDevice
