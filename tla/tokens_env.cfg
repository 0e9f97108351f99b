SPECIFICATION Spec
CONSTANTS
    c1 = c1
    c2 = c2
    c3 = c3
    s1 = s1
    s2 = s2
    Servers = {s1}
    Calls = {c1, c2}
    Home <- MCHomeAlone
    Lifetimes = {2}
    MaxLife = 2
    Margin = 1
    MaxLatency = 1
    MaxGrants = 3
    None = None
PROPERTIES
    RejectedNotReused
