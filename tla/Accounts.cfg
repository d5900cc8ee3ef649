SPECIFICATION Spec

CONSTANTS
    Names = {n1}
    Passwords = {w1, w2}
    Defaults = 2
    Runs = {r1, r2, r3}
    Logins = {l1}
    Lifetime = 1
    MaxTime = 2
    NoUser = nouser

SYMMETRY AccountSymmetry

INVARIANTS
    TypeOK
    AdminIsComplete
    DuplicatesExplained
    OldPasswordExpires
