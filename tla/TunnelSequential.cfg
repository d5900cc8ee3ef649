SPECIFICATION SerialSpec

CONSTANTS
    Threads = {t1, t2}
    Devices = {d1, d2}
    RowIds = {r1, r2}
    PortMin = 1
    PortMax = 3
    AskedPorts = {1, 4}
    Manual = {nourl, lan, wan}
    NoUrl = nourl
    NoRow = norow
    DeviceIdUnique = TRUE

SYMMETRY ThreadSymmetry

INVARIANTS
    TypeOK
    UrlExplained
    NoForeignPort
    SavedByOperator
PROPERTIES
    ManagedByTunnel
    BindingSpec
