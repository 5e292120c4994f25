SPECIFICATION FairSpec
CONSTANTS
    c1 = c1
    c2 = c2
    c3 = c3
    s1 = s1
    s2 = s2
    Direct = {d1, d2}
    Refreshes = {d1}
    Assertions = {a1}
    Ttl = 1
    Calls = {c1, c2, c3}
    Logouts = {c2}
    Consoles = {s1, s2}
    ConsoleOf <- TwoTabsAndAnother
    None = None
    Pool = 4
    MaxRotations = 2
    MaxFaults = 1
    MaxLookupTicks = 1
    MaxNow = 2
CHECK_DEADLOCK FALSE
INVARIANTS
    TypeOK
    AssertionServesOnce
    SpentWhateverBecomes
    NoConnectionLeaks
    FlightsWithinSlots
    ReuseOnlyAfterLostAnswer
PROPERTIES
    EveryRequestAnswered
