CONSTANTS
    Txns = {t1}
    Accounts = {a1}
    Subjects = {s1}
    Bindings = {b1}
    Grants = {g1}
    GrantLife <- MCGrantLife
    Workers = {w1, w2}
    Sweeper = sweeper
    None = None
    Window = 2
    MaxTime = 1
    MaxVersion = 3
SPECIFICATION RenewalSpec
PROPERTY RenewsExpectedVersion
