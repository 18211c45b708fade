\* A deactivation while an activation is in progress.
SPECIFICATION Spec
CONSTANTS
    Deliveries = {d1, d3}
    d3 = d3
    s1 = s1
    s2 = s2
    Sigs = {s1, s2}
    SigOf <- TwoWebhooks
    Payloads <- ActivateDeactivate
    Reprovisions = {}
    Syncs = {}
    Resources = {r1}
    Mapped = {r1}
    Null = Null
INVARIANT
    DeactivationHolds
