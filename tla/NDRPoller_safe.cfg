SPECIFICATION Spec
CONSTANTS
  i1 = i1
  e1 = e1
  None = None
  Items = {i1}
  Engagements = {e1}
  ItemOf <- OneItemOf
  EngagementId <- OneId
  Shipment <- OwnShipment
  AttemptSeq <- AnySeq
  Results = {r1}
  EngOf <- FirstEngagement
  Contents = {c1}
  MaxClaims = 2
  MaxRetries = 2
  Tasks = {t1, t2}
  Others = {h1}
  Slots = 2
  CourierSays = {"pending", "terminal"}
SYMMETRY TaskSymmetry
INVARIANTS CallsAreClaimed SlotsBalance
PROPERTIES CalledIsNotReclaimed
CHECK_DEADLOCK FALSE
