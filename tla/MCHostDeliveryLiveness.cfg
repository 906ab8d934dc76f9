CONSTANTS
    a = a
    b = b
    reply = reply
    wake = wake
    other = other
    f1 = f1
    f2 = f2
    Sessions = {a, b}
    Direct = {reply}
    Wakes = {wake, other}
    SessionOf <- MCSessionOf
    Flushers = {f1}
    Native = Native
    None = None
    Reachable = {a}
    MaxGeneration <- MCMaxGeneration
    MaxCrashes = 1
    MaxPauses = 0
    MaxLates = 0
    MaxScrolls = 0
SPECIFICATION FairSpec
PROPERTY ReachableResultSettles
CHECK_DEADLOCK FALSE
