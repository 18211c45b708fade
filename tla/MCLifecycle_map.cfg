\* An activation, a reprovisioning and a sync over one map.
SPECIFICATION Spec
CONSTANTS
    Deliveries = {d1}
    d3 = d3
    s1 = s1
    s2 = s2
    Sigs = {s1}
    SigOf <- AllOfOne
    Payloads <- ActivateOnly
    Reprovisions = {p1}
    Syncs = {y1}
    Resources = {r1, r2}
    Mapped = {r1, r2}
    Null = Null
INVARIANTS
    MapKeepsIds
    SnapshotStaysFresh
