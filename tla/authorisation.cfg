SPECIFICATION FairSpec
CONSTANTS
    server = server
    Command = command
    Writers = {command, server}
    Pid <- MCPid
    Records <- MCRecords
    Inodes = {i1, i2, i3}
    Old = old
    None = None
    Codes = {c1, c2}
    Refreshed = refreshed
    Slots = {k1}
    MaxRuns = 2
INVARIANTS
    TypeOK
    TokenFileWhole
    OwnPage
    OneWelcome
PROPERTIES
    SavesAreAtomic
    RunEnds
CHECK_DEADLOCK FALSE
