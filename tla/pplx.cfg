SPECIFICATION MCSpec
CONSTANTS
    ta = ta
    tb = tb
    tc = tc
    td = td
    te = te
    tf = tf
    here = here
    joined = joined
    s1 = s1
    s2 = s2
    w1 = w1
    w2 = w2
    r1 = r1
    r2 = r2
    t1 = t1
    t2 = t2
    t3 = t3
    Tasks = {ta, tb, tc, td, te, tf}
    Events = {here, joined}
    Setters = {s1, s2}
    Workers = {w1, w2}
    Programs <- MCPrograms
    Threads = {t1, t2, t3}
    Registrations = {r1, r2}
    Owned = {r1}
INVARIANTS
    TypeOK
    TasksSound
    TokenSound
PROPERTIES
    CallsReturn
CHECK_DEADLOCK FALSE
