SPECIFICATION FairSpec
CONSTANTS
  i1 = i1
  e1 = e1
  None = None
  Items = {i1}
  Engagements = {e1}
  ItemOf <- OneItemOf
  EngagementId <- OneId
  Shipment <- OwnShipment
  AttemptSeq <- AnySeq
  Results = {r1}
  EngOf <- FirstEngagement
  Contents = {c1}
  MaxClaims = 3
  MaxRetries = 2
  Tasks = {t1}
  Others = {h1}
  Slots = 1
  CourierSays = {"pending", "terminal"}
PROPERTIES SlotComesBack CalledIsNotReclaimed
CHECK_DEADLOCK FALSE
