CONSTANTS
    a = a
    b = b
    reply = reply
    wake = wake
    other = other
    f1 = f1
    f2 = f2
    Sessions = {a}
    Direct = {reply}
    Wakes = {wake}
    SessionOf <- MCOneSession
    Flushers = {f1, f2}
    Native = Native
    None = None
    Reachable = {a}
    MaxGeneration <- MCOneRevocation
    MaxCrashes = 1
    MaxPauses = 1
    MaxLates = 1
    MaxScrolls = 1
SPECIFICATION Spec
SYMMETRY Symmetry
INVARIANTS
    DeliveryInv
PROPERTIES
    SettlesInItsGeneration
    NoValidResultIsLost
    HostKeepsOrder
CHECK_DEADLOCK FALSE
