SPECIFICATION Spec
CONSTANTS
    alice = alice
    bob = bob
    a1 = a1
    a2 = a2
    Tab = {t1, t2}
    Attempt = {a1}
    Person = {alice, bob}
    Enrolled = {alice}
    Administered = {bob}
    Expected <- Anybody
    Rivals = TRUE
    None = None
    MaxFailures = 2
    LockoutTicks = 1
    MaxLockoutTicks = 1
    ResetTicks = 1
    CasAttempts = 2
    Cap = 1
    MaxSubmissions = 4
    MaxNow = 2
SYMMETRY Tabs
CHECK_DEADLOCK FALSE
INVARIANTS
    OnePersonPerAttempt
