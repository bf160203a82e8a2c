SPECIFICATION MCSpec
CONSTANTS
    a1 = a1
    a2 = a2
    n1 = n1
    n2 = n2
    g1 = g1
    g2 = g2
    Agents = {a1, a2}
    Names = {n1, n2}
    Script <- MCScript
    MaxPosts <- MCMaxPosts
    Gets = {g1, g2}
    k1 = k1
    k2 = k2
    k3 = k3
    Keys = {k1, k2, k3}
    NameLength <- MCNameLength
    BufferSize = 4
    IndexSize = 5
    Orders <- MCOrders
    MaxChanges = 2
    l1 = l1
    l2 = l2
    l3 = l3
    here = here
    there = there
    Listeners = {l1, l2, l3}
    Patient = {l1, l2}
    Address <- MCAddress
    MaxCalls <- MCMaxCalls
INVARIANTS
    MonitoringTypeOK
    ReportsSound
    TableMatchesSelection
    EnumerationExact
    RegistrationsSound
PROPERTIES
    EnumerationReturns
CHECK_DEADLOCK FALSE
