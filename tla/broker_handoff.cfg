SPECIFICATION BrokerSpec
CONSTANTS
    Txns = {t1, t2}
    Accounts = {a1}
    Subjects = {u1, u2}
    Sessions = {b1, b2}
    Handoffs = {h1, h2, h3}
    MaxVersion = 2
    None = None
SYMMETRY HandoffSymmetry
INVARIANTS
    TypeOK
    LinkedOwners
    StrandedOnlyUnheard
PROPERTIES
    LoginsInstalled
CHECK_DEADLOCK FALSE
