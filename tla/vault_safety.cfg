CONSTANTS
    Txns = {t1, t2}
    Accounts = {a1, a2}
    Subjects = {s1, s2}
    Bindings = {b1}
    Grants = {g1}
    GrantLife <- MCGrantLife
    Workers = {w1, w2}
    Sweeper = sweeper
    None = None
    Window = 2
    MaxTime = 1
    MaxVersion = 2
SPECIFICATION Spec
SYMMETRY VaultSymmetry
INVARIANTS
    OwnerIsolation
    ReceiptsMatch
    NoStaleWrite
    VaultInv
PROPERTIES
    ImplementsLedger
