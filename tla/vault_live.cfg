CONSTANTS
    Txns = {t1, t2}
    Accounts = {a1}
    Subjects = {s1}
    Bindings = {b1, b2}
    Grants = {g1}
    GrantLife <- MCShortLife
    Workers = {w1}
    Sweeper = sweeper
    None = None
    Window = 2
    MaxTime = 1
    MaxVersion = 2
SPECIFICATION FairSpec
PROPERTIES
    SameSession
    LapsedNeverInstalled
    EnvelopesErased
    RequestsAnswered
