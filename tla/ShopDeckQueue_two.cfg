SPECIFICATION FairSpec
CONSTANTS
    i1 = i1 i2 = i2 e1 = e1 e2 = e2 r1 = r1 r2 = r2 a1 = a1
    None = None
    Items = {i1, i2}
    Shipment <- SameShipment
    AttemptSeq <- TwoItemSeq
    Engagements = {e1}
    ItemOf <- OneItemOf
    Results = {r1}
    EngOf <- OneEngOf
    Contents = {c1}
    Handlers = {h1}
    MaxClaims = 1
    MaxRetries = 1
PROPERTIES
    TerminalShipmentLeavesQueue
