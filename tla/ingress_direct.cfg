SPECIFICATION Spec
CONSTANTS
    Nonces = {n1, n2}
    Handlers = {h1, h2}
    None = None
    MaxAge = 0
    Ttl = 1
    MaxStall = 0
    KeepsAtExpiry = FALSE
    MaxTime = 2
    Txns = {t1, t2}
    Subjects = {s1, s2}
    Accounts = {a1, a2}
    old = old
    new = new
    KeyIds = {old, new}
    KeyEnv <- MCKeyEnv
    MaxVersion = 2
SYMMETRY IngressSymmetry
INVARIANTS
    AcceptedAtMostOnce
    InstalledOnce
    OneOwner
    AnswersTrue
    Readable
CHECK_DEADLOCK FALSE
