\* A webhook, its replay or retry, and another webhook: claims, statuses, configs.
SPECIFICATION Spec
CONSTANTS
    Deliveries = {d1, d2, d3}
    d3 = d3
    s1 = s1
    s2 = s2
    Sigs = {s1, s2}
    SigOf <- TwoWebhooks
    Payloads <- EveryEvent
    Reprovisions = {}
    Syncs = {}
    Resources = {r1}
    Mapped = {r1}
    Null = Null
SYMMETRY CopySymmetry
INVARIANTS
    TypeOK
    HandledOnce
    ClaimIsOwned
    SerialWebhooksTakeEffect
    HookSeesFreshIds
    HandedSecretHolds
