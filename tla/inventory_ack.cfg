SPECIFICATION Spec
CONSTANTS
    a1 = a1
    a2 = a2
    n1 = n1
    n2 = n2
    g1 = g1
    g2 = g2
    Agents = {a1, a2}
    Names = {n1, n2}
    Script <- MCScript
    MaxPosts <- MCMaxPosts
    Gets = {}
INVARIANTS
    AcknowledgedPostIsKept
CHECK_DEADLOCK FALSE
