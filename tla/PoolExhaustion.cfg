SPECIFICATION FairSpec
CONSTANTS
    c1 = c1
    c2 = c2
    c3 = c3
    s1 = s1
    s2 = s2
    Direct = {d1, d2}
    Refreshes = {d1, d2}
    Assertions = {a1, a2}
    Ttl = 1
    Calls = {}
    Logouts = {}
    Consoles = {}
    ConsoleOf <- NoCalls
    None = None
    Pool = 2
    MaxRotations = 0
    MaxFaults = 0
    MaxLookupTicks = 0
    MaxNow = 0
CHECK_DEADLOCK FALSE
PROPERTIES
    EveryRequestAnswered
