SPECIFICATION Spec
CONSTANTS
    i1 = i1 i2 = i2 e1 = e1 e2 = e2 r1 = r1 r2 = r2 a1 = a1
    None = None
    Items = {i1}
    Shipment <- SameShipment
    AttemptSeq <- OneItemSeq
    Engagements = {e1}
    ItemOf <- OneItemOf
    Results = {r1}
    EngOf <- OneEngOf
    Contents = {c1}
    Handlers = {h1, h2}
    MaxClaims = 2
    MaxRetries = 2
INVARIANTS
    FailureReportIsApplied
