SPECIFICATION MCSpec
CONSTANTS
    m1 = m1
    u1 = u1
    u2 = u2
    c1 = c1
    r1 = r1
    Url = {u1, u2}
    Checks = {c1}
    MaxProviders = 2
    MaxChanges = 1
    Faults = {"statement"}
    Model = {m1}
    Request = {r1}
    Weights = {0, 1}
    MaxRoutes = 1
    MaxTargets = 2
INVARIANTS TypeOK PickedByWeight
PROPERTIES HealthSettles TrafficSettles
