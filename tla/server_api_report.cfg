SPECIFICATION ApiSpec
CONSTANTS
    l1 = l1
    l2 = l2
    l3 = l3
    here = here
    there = there
    Listeners = {l1, l2}
    Patient = {l1, l2}
    Address <- MCAddress
    MaxCalls <- MCMaxCalls
INVARIANT
    CloseReportsOriginal
CHECK_DEADLOCK FALSE
