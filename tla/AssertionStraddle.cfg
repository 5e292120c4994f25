SPECIFICATION Spec
CONSTANTS
    c1 = c1
    c2 = c2
    c3 = c3
    s1 = s1
    s2 = s2
    Direct = {d1, d2}
    Refreshes = {}
    Assertions = {a1}
    Ttl = 1
    Calls = {}
    Logouts = {}
    Consoles = {}
    ConsoleOf <- NoCalls
    None = None
    Pool = 2
    MaxRotations = 0
    MaxFaults = 0
    MaxLookupTicks = 2
    MaxNow = 3
CHECK_DEADLOCK FALSE
INVARIANTS
    AssertionServesOnce
